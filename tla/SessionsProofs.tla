--------------------------- MODULE SessionsProofs ---------------------------
(***************************************************************************)
(* Proofs about Sessions: the inductive invariant IInv, and with it that a *)
(* session has one record, that a session moved and not yet bound can be   *)
(* resumed, and that prune spares the living; then DocsInv, on top of it,  *)
(* and with that that no discovery doc is lost.                            *)
(*                                                                         *)
(* Most steps start nothing, write no record and set no marker: QuietStep  *)
(* shows once that those keep the invariant, if the command Fits as it     *)
(* goes on.  The five that do more (start, the record's write, the         *)
(* marker's, the move and the binding) have proofs of their own.  Likewise *)
(* DocsRest for the steps that move no doc and set no marker, and DocsStep *)
(* for the others.                                                         *)
(***************************************************************************)
EXTENDS Sessions, TLAPS

-----------------------------------------------------------------------------
(* A command's steps, and the steps that change little.                    *)

(* A command's next step: it alone goes on.                                *)
Proceeds(p, new) ==
  /\ new \in Commands /\ proc' \in [Procs -> Commands]
  /\ proc'[p] = new /\ \A q \in Procs \ {p} : proc'[q] = proc[q]

(* A command that becomes another state,                                   *)
LEMMA BecomesNew ==
  ASSUME TypeOK, NEW p \in Procs, NEW new \in Commands, Becomes(p, new)
  PROVE  Proceeds(p, new)
  BY DEF TypeOK, Becomes, Proceeds

(* ... one that goes on to its next step,                                  *)
LEMMA GoesOn ==
  ASSUME TypeOK, NEW p \in Procs, NEW pc \in Pcs, Goes(p, pc)
  PROVE  Proceeds(p, [proc[p] EXCEPT !.pc = pc])
<1>1. proc[p] \in Commands /\ [proc[p] EXCEPT !.pc = pc] \in Commands
  BY DEF TypeOK, Commands
<1> QED
  BY <1>1 DEF TypeOK, Goes, Proceeds

(* ... and the state of a process that runs no command,                    *)
LEMMA IdleIsCommand == Idle \in Commands /\ Idle.pc = "idle" /\ Idle.sid = None /\ Idle.prunes = FALSE
  BY DEF Idle, Commands, Pcs

(* ... which it is in when a command ends.                                 *)
LEMMA EndsNow ==
  ASSUME TypeOK, NEW p \in Procs, Ends(p)
  PROVE  Proceeds(p, Idle)
  BY BecomesNew, IdleIsCommand DEF Ends

(* What the invariant says of one command besides, unless it starts a      *)
(* session.                                                                *)
Fits(r) ==
  /\ ArgsOf(r) /\ r.sid \in used \cup {None}
  /\ r.pc \in Converting =>
       /\ \A q \in Procs : ~Starts(q, r.sid)
       /\ r.pc \notin {"target", "mark"} => r.sid \in marked[r.name]
       /\ r.pc \in {"updated", "rematerialize", "clear"} => Settled(r.sid)
  /\ r.pc = "connect" =>
       /\ Recorded(r.sid, "discovery") => r.place = "discovery"
       /\ \A q \in Procs : Starts(q, r.sid) => r.place = proc[q].place
  /\ r.pc \in {"rescue", "rescueTo", "remove"} /\ r.prunes /\ ~r.starting =>
       /\ ~Recorded(r.sid, r.place)
       /\ r.place \in Names => ~Recorded(r.sid, "discovery")
       /\ \A q \in Procs : ~Starts(q, r.sid)

(* Every command fits its step.                                            *)
LEMMA AllFit ==
  ASSUME IInv, NEW p \in Procs
  PROVE  Fits(proc[p])
<1>1. proc[p] \in Commands /\ ArgsOf(proc[p])
  BY DEF IInv, TypeOK, ArgsGiven
<1>2. proc[p].sid \in used \cup {None}
  BY <1>1 DEF IInv, UnusedIsNowhere, Commands
<1>3. proc[p].pc \in Converting =>
        /\ \A q \in Procs : ~Starts(q, proc[p].sid)
        /\ proc[p].pc \notin {"target", "mark"} => proc[p].sid \in marked[proc[p].name]
        /\ proc[p].pc \in {"updated", "rematerialize", "clear"} => Settled(proc[p].sid)
  BY <1>1 DEF IInv, StartIsNew, MarkersMarked, BoundIsSettled, ArgsOf
<1>4. proc[p].pc = "connect" =>
        /\ Recorded(proc[p].sid, "discovery") => proc[p].place = "discovery"
        /\ \A q \in Procs : Starts(q, proc[p].sid) => proc[p].place = proc[q].place
  BY <1>1 DEF IInv, StartIsNew, UnmovedIsAlone, ArgsOf
<1>5. proc[p].pc \in {"rescue", "rescueTo", "remove"} /\ proc[p].prunes /\ ~proc[p].starting =>
        /\ ~Recorded(proc[p].sid, proc[p].place)
        /\ proc[p].place \in Names => ~Recorded(proc[p].sid, "discovery")
        /\ \A q \in Procs : ~Starts(q, proc[p].sid)
  BY <1>1 DEF IInv, PrunesTheDead, ArgsOf
<1> QED
  BY <1>1, <1>2, <1>3, <1>4, <1>5 DEF Fits

(* A step that starts nothing, records nothing and marks nothing keeps the *)
(* invariant if the command fits as it goes on.                            *)
LEMMA QuietStep ==
  ASSUME IInv, TypeOK', DocsNamed', NEW p \in Procs, NEW new, Proceeds(p, new), Fits(new),
         new.pc \in {"view", "record"} =>
           new.pc = "record" /\ Starts(p, new.sid) /\ new.place = proc[p].place,
         new.sid \in Sids \ {proc[p].sid} =>
           \A q \in Procs : Starts(q, new.sid) => proc[q].pc # "view",
         new.pc \in Converting \ {"target"} => new.name \in features',
         UNCHANGED <<used, marked>>, features \subseteq features',
         \A d \in Docs : topic[d] # None => topic'[d] # None,
         \A n \in Names : marker'[n] = marker[n] \/
           (marker'[n] = None /\ \A s \in Sids : OnlyConversion(s, n) => Settled(s)),
         \A s \in Sids, at \in Places :
           /\ view'[s][at] = view[s][at] \/ view'[s][at] \in {"absent", "bare"}
           /\ view[s][at] = "absent" /\ view'[s][at] # "absent" =>
                /\ s \in used /\ (Recorded(s, "discovery") => at = "discovery")
                /\ \A q \in Procs : Starts(q, s) => at = proc[q].place /\ proc'[q].pc = "record"
  PROVE  IInv'
<1> USE DEF Proceeds
<1>1. \A q \in Procs, s \in Sids : (proc'[q].pc \in {"view", "record"} /\ proc'[q].sid = s) =>
        /\ Starts(q, s) /\ proc'[q].place = proc[q].place
        /\ proc'[q].pc = "view" => proc[q].pc = "view" /\ q # p
  BY DEF Starts
<1>2. \A s \in Sids, at \in Places : Recorded(s, at)' => Recorded(s, at) /\ view'[s][at] = view[s][at]
  BY SessionsAssumption DEF Recorded, Records, Names
<1>3. \A s \in Sids : Settled(s) => Settled(s)'
  BY DEF Settled
<1>4. ArgsGiven'
  <2>1. \A r \in Commands : ArgsOf(r) => ArgsOf(r)'
    BY DEF ArgsOf
  <2> QED
    BY <2>1 DEF ArgsGiven, IInv, Fits, TypeOK
<1>5. OneHome'
  <2>1. \A s \in Sids, at \in Places : view'[s][at] \in Names => view'[s][at] = view[s][at]
    BY SessionsAssumption DEF Names
  <2> QED
    BY <1>2, <2>1 DEF IInv, OneHome
<1>6. UnusedIsNowhere'
  BY SessionsAssumption DEF IInv, UnusedIsNowhere, Fits
<1>7. StartIsNew'
  <2> SUFFICES ASSUME NEW s \in Sids, NEW q \in Procs, Starts(q, s)'
               PROVE  /\ s \in used'
                      /\ \A r \in Procs \ {q} : ~Starts(r, s)'
                      /\ \A at \in Places : ~Recorded(s, at)'
                      /\ \A at \in Places \ {proc'[q].place} : view'[s][at] = "absent"
                      /\ proc'[q].pc = "view" => /\ view'[s][proc'[q].place] = "absent"
                                                 /\ \A r \in Procs \ {q} : proc'[r].sid # s
                      /\ \A r \in Procs : proc'[r].sid = s =>
                           /\ proc'[r].pc \notin Converting
                           /\ proc'[r].pc = "connect" => proc'[r].place = proc'[q].place
                      /\ \A n \in Names : s \notin marked'[n]
    BY DEF StartIsNew
  <2>1. Starts(q, s) /\ proc'[q].place = proc[q].place
    BY <1>1 DEF Starts
  <2>2. s \in used' /\ \A n \in Names : s \notin marked'[n]
    BY <2>1 DEF IInv, StartIsNew
  <2>3. \A r \in Procs \ {q} : ~Starts(r, s)'
    BY <1>1, <2>1 DEF IInv, StartIsNew, Starts
  <2>4. \A at \in Places : ~Recorded(s, at)'
    BY <1>2, <2>1 DEF IInv, StartIsNew
  <2>5. \A at \in Places \ {proc'[q].place} : view'[s][at] = "absent"
    BY <2>1 DEF IInv, StartIsNew
  <2>6. ASSUME proc'[q].pc = "view"
        PROVE  view'[s][proc'[q].place] = "absent" /\ \A r \in Procs \ {q} : proc'[r].sid # s
    <3>1. proc[q].pc = "view" /\ q # p
      BY <1>1, <2>6 DEF Starts
    <3>2. proc[q].place \in Places
      BY <3>1 DEF IInv, ArgsGiven, ArgsOf
    <3>3. view[s][proc[q].place] = "absent" /\ \A r \in Procs \ {q} : proc[r].sid # s
      BY <2>1, <3>1 DEF IInv, StartIsNew
    <3>4. view'[s][proc[q].place] = "absent"
      BY <2>1, <2>6, <3>2, <3>3
    <3>5. new.sid # s
      BY <3>1, <3>3, <2>1 DEF Starts
    <3> QED
      BY <2>1, <3>3, <3>4, <3>5
  <2>7. \A r \in Procs : proc'[r].sid = s =>
           /\ proc'[r].pc \notin Converting
           /\ proc'[r].pc = "connect" => proc'[r].place = proc'[q].place
    BY <2>1 DEF IInv, StartIsNew, Fits
  <2> QED
    BY <2>2, <2>3, <2>4, <2>5, <2>6, <2>7
<1>8. UnmovedIsAlone'
  <2> SUFFICES ASSUME NEW s \in Sids, Recorded(s, "discovery")'
               PROVE  /\ \A n \in Names : view'[s][n] = "absent"
                      /\ \A q \in Procs : proc'[q].sid = s /\ proc'[q].pc = "connect"
                                           => proc'[q].place = "discovery"
    BY DEF UnmovedIsAlone
  <2>1. Recorded(s, "discovery")
    BY <1>2 DEF Places
  <2>2. \A n \in Names : n # "discovery" /\ n \in Places
    BY SessionsAssumption DEF Names, Places
  <2> QED
    BY <2>1, <2>2 DEF IInv, UnmovedIsAlone, Fits
<1>9. MarkersMarked'
  BY DEF IInv, MarkersMarked, Fits
<1>10. BoundIsSettled'
  <2>1. ASSUME NEW q \in Procs, proc'[q].pc \in {"updated", "rematerialize", "clear"}
        PROVE  Settled(proc[q].sid)'
    <3>1. Fits(proc'[q])
      BY AllFit
    <3>2. proc'[q].sid \in Sids /\ Settled(proc'[q].sid)
      BY <2>1, <3>1 DEF Fits, ArgsOf, Converting
    <3> QED
      BY <1>3, <3>2
  <2>2. ASSUME NEW n \in Names, marker'[n] # None, marker'[n].step = "rematerialize"
        PROVE  Settled(marker[n].sid)'
    <3>1. marker'[n] = marker[n] /\ marker[n].sid \in Sids
      BY <2>2 DEF IInv, TypeOK, Markers
    <3> QED
      BY <1>3, <2>2, <3>1 DEF IInv, BoundIsSettled
  <2> QED
    BY <2>1, <2>2 DEF BoundIsSettled
<1>11. MarkerStays'
  BY <1>3 DEF IInv, MarkerStays, OnlyConversion
<1>12. PrunesTheDead'
  <2> SUFFICES ASSUME NEW q \in Procs, NEW s \in Sids,
                      proc'[q].pc \in {"rescue", "rescueTo", "remove"}, proc'[q].sid = s,
                      proc'[q].prunes, ~proc'[q].starting
               PROVE  /\ ~Recorded(s, proc[q].place)'
                      /\ proc'[q].place \in Names => ~Recorded(s, "discovery")'
                      /\ \A r \in Procs : ~Starts(r, s)'
    BY DEF PrunesTheDead
  <2>1. Fits(proc'[q])
    BY AllFit
  <2>2. proc'[q].place \in Places /\ "discovery" \in Places
    BY <2>1 DEF Fits, ArgsOf, Places
  <2>3. \A r \in Procs : ~Starts(r, s)
    BY <2>1 DEF Fits
  <2>4. \A r \in Procs : ~Starts(r, s)'
    BY <1>1, <2>3 DEF Starts
  <2> QED
    BY <1>2, <2>1, <2>2, <2>4 DEF Fits
<1> QED
  BY <1>4, <1>5, <1>6, <1>7, <1>8, <1>9, <1>10, <1>11, <1>12 DEF IInv

-----------------------------------------------------------------------------
(* Commands that begin, and only look.                                     *)

(* A command that only looks.                                              *)
LEMMA LookingStep ==
  ASSUME IInv, NEW p \in Procs, NEW new, Proceeds(p, new), Fits(new),
         new.pc \notin {"view", "record"},
         new.sid \in Sids \ {proc[p].sid} =>
           \A q \in Procs : Starts(q, new.sid) => proc[q].pc # "view",
         new.pc \in Converting \ {"target"} => new.name \in features,
         UNCHANGED disk, UNCHANGED <<used, topic, late, marked>>, begun' \in 0 .. MaxBegun
  PROVE  IInv'
<1>1. TypeOK'
  BY DEF IInv, TypeOK, disk, Proceeds
<1>2. DocsNamed'
  BY DEF IInv, DocsNamed, disk
<1>3. \A s \in Sids, at \in Places : ~(view[s][at] = "absent" /\ view'[s][at] # "absent")
  BY DEF disk
<1> QED
  BY <1>1, <1>2, <1>3, QuietStep DEF disk

(* What a command begins as.                                               *)
LEMMA BeginsNew ==
  ASSUME TypeOK, NEW p \in Procs, NEW new \in Commands, Begins(p, new)
  PROVE  Proceeds(p, new) /\ begun' \in 0 .. MaxBegun
<1>1. begun \in 0 .. MaxBegun /\ begun < MaxBegun /\ begun' = begun + 1
  BY DEF TypeOK, Begins
<1>2. begun' \in 0 .. MaxBegun
  BY <1>1, SessionsAssumption
<1> QED
  BY <1>2, BecomesNew DEF Begins

(* What has a View Dir was given out, and is not just starting.            *)
LEMMA SeenIsUsed ==
  ASSUME IInv, NEW s \in Sids, NEW at \in Places, Sees(s, at)
  PROVE  /\ s \in used
         /\ \A q \in Procs : Starts(q, s) => proc[q].pc # "view" /\ proc[q].place = at
         /\ Recorded(s, "discovery") => at = "discovery"
<1>1. s \in used
  BY DEF Sees, IInv, UnusedIsNowhere
<1>2. ASSUME NEW q \in Procs, Starts(q, s)
      PROVE  proc[q].pc # "view" /\ proc[q].place = at
  BY <1>2 DEF Sees, IInv, StartIsNew
<1>3. Recorded(s, "discovery") => at = "discovery"
  BY DEF Sees, IInv, UnmovedIsAlone, Places
<1> QED
  BY <1>1, <1>2, <1>3

(* session connect reads the record's place.                               *)
LEMMA ConnectFindsInv ==
  ASSUME IInv, NEW p \in Procs, NEW s \in Sids, NEW at \in Places, ConnectFinds(p, s, at)
  PROVE  IInv'
<1> DEFINE new == [Idle EXCEPT !.pc = "connect", !.sid = s, !.place = at]
<1>1. new \in Commands /\ new.pc = "connect" /\ new.sid = s /\ new.place = at
  BY DEF Idle, Commands, Pcs
<1>2. Sees(s, at) /\ Begins(p, new) /\ UNCHANGED disk /\ UNCHANGED <<used, topic, late, marked>>
  BY DEF ConnectFinds
<1> HIDE DEF new
<1>3. Proceeds(p, new) /\ begun' \in 0 .. MaxBegun
  BY <1>1, <1>2, BeginsNew DEF IInv
<1>4. Fits(new)
  BY <1>1, <1>2, SeenIsUsed DEF Fits, ArgsOf, Converting
<1>5. \A q \in Procs : Starts(q, s) => proc[q].pc # "view"
  BY <1>2, SeenIsUsed
<1> QED
  BY <1>1, <1>2, <1>3, <1>4, <1>5, LookingStep DEF Converting

(* session stop finds a session.                                           *)
LEMMA StopFindsInv ==
  ASSUME IInv, NEW p \in Procs, NEW s \in Sids, NEW at \in Places, StopFinds(p, s, at)
  PROVE  IInv'
<1> DEFINE new == [Idle EXCEPT !.pc = "rescue", !.sid = s, !.place = at]
<1>1. /\ new \in Commands /\ new.pc = "rescue" /\ new.sid = s /\ new.place = at
      /\ new.prunes = FALSE
  BY DEF Idle, Commands, Pcs
<1>2. Sees(s, at) /\ Begins(p, new) /\ UNCHANGED disk /\ UNCHANGED <<used, topic, late, marked>>
  BY DEF StopFinds
<1> HIDE DEF new
<1>3. Proceeds(p, new) /\ begun' \in 0 .. MaxBegun
  BY <1>1, <1>2, BeginsNew DEF IInv
<1>4. Fits(new)
  BY <1>1, <1>2, SeenIsUsed DEF Fits, ArgsOf, Converting
<1>5. \A q \in Procs : Starts(q, s) => proc[q].pc # "view"
  BY <1>2, SeenIsUsed
<1> QED
  BY <1>1, <1>2, <1>3, <1>4, <1>5, LookingStep DEF Converting

(* session prune finds a session without a record: one being started, or   *)
(* one that will have none again.                                          *)
LEMMA PruneFindsInv ==
  ASSUME IInv, NEW p \in Procs, NEW s \in Sids, NEW at \in Places, PruneFinds(p, s, at)
  PROVE  IInv'
<1> DEFINE starting == \E q \in Procs : At(q, "record") /\ proc[q].sid = s
           new == [Idle EXCEPT !.pc = "rescue", !.sid = s, !.place = at, !.prunes = TRUE,
                               !.starting = starting]
<1>1. /\ new \in Commands /\ new.pc = "rescue" /\ new.sid = s /\ new.place = at
      /\ new.starting = starting
  <2> HIDE DEF starting
  <2>1. starting \in BOOLEAN
    BY DEF starting
  <2> QED
    BY <2>1 DEF Idle, Commands, Pcs
<1>2. view[s][at] = "bare" /\ Begins(p, new) /\ UNCHANGED disk /\ UNCHANGED <<used, topic, late, marked>>
  BY DEF PruneFinds, IsDead
<1> HIDE DEF new
<1>3. Proceeds(p, new) /\ begun' \in 0 .. MaxBegun
  BY <1>1, <1>2, BeginsNew DEF IInv
<1>4. Sees(s, at)
  BY <1>2 DEF Sees
<1>5. \A q \in Procs : Starts(q, s) => proc[q].pc # "view"
  BY <1>4, SeenIsUsed
<1>6. ~starting => \A q \in Procs : ~Starts(q, s)
  BY <1>5 DEF Starts, At
<1>7. ~Recorded(s, at) /\ (at \in Names => ~Recorded(s, "discovery"))
  <2>1. "bare" \notin Records /\ "discovery" \notin Names
    BY SessionsAssumption DEF Records, Names
  <2> QED
    BY <1>2, <1>4, <2>1, SeenIsUsed DEF Recorded
<1>8. Fits(new)
  BY <1>1, <1>4, <1>6, <1>7, SeenIsUsed DEF Fits, ArgsOf, Converting
<1> QED
  BY <1>1, <1>2, <1>3, <1>5, <1>8, LookingStep DEF Converting

(* A convert is not of a session being started.                            *)
LEMMA MarkedIsNotStarting ==
  ASSUME IInv, NEW s \in Sids, NEW n \in Names, s \in marked[n]
  PROVE  s \in used /\ \A q \in Procs : ~Starts(q, s)
  BY DEF IInv, UnusedIsNowhere, StartIsNew

(* session convert takes up where a marker says.                           *)
LEMMA ConvertResumesInv ==
  ASSUME IInv, NEW p \in Procs, NEW s \in Sids, NEW n \in Names, ConvertResumes(p, s, n)
  PROVE  IInv'
<1> DEFINE new == [Idle EXCEPT !.pc = marker[n].step, !.sid = s, !.name = n]
<1>1. n \in Pending(s) /\ Begins(p, new) /\ UNCHANGED disk /\ UNCHANGED <<used, topic, late, marked>>
  BY DEF ConvertResumes
<1>2. marker[n] # None /\ marker[n].sid = s /\ marker[n].step \in Steps
  BY <1>1 DEF Pending, IInv, TypeOK, Markers
<1>3. /\ new \in Commands /\ new.pc = marker[n].step /\ new.sid = s /\ new.name = n
  BY <1>2 DEF Idle, Commands, Pcs, Steps
<1> HIDE DEF new
<1>4. Proceeds(p, new) /\ begun' \in 0 .. MaxBegun
  BY <1>1, <1>3, BeginsNew DEF IInv
<1>5. s \in marked[n] /\ n \in features
  BY <1>2 DEF IInv, MarkersMarked
<1>6. s \in used /\ \A q \in Procs : ~Starts(q, s)
  BY <1>5, MarkedIsNotStarting
<1>7. new.pc = "rematerialize" => Settled(s)
  BY <1>2, <1>3 DEF IInv, BoundIsSettled
<1>8. Fits(new)
  BY <1>2, <1>3, <1>5, <1>6, <1>7 DEF Fits, ArgsOf, Converting, Steps
<1>9. new.pc \notin {"view", "record"}
  BY <1>2, <1>3 DEF Steps
<1> QED
  BY <1>1, <1>3, <1>4, <1>5, <1>6, <1>8, <1>9, LookingStep

(* session convert finds the session's doc, which names the feature.       *)
LEMMA ConvertResolvesInv ==
  ASSUME IInv, NEW p \in Procs, NEW s \in Sids, ConvertResolves(p, s)
  PROVE  IInv'
<1>1. PICK owner \in NamesOf(s) :
        Begins(p, [Idle EXCEPT !.pc = "target", !.sid = s, !.name = owner.name])
  BY DEF ConvertResolves
<1>2. owner.name \in Names
  <2>1. CASE owner \in {[doc |-> "kept", name |-> n] : n \in {n \in Names : kept[n] = s}}
    BY <2>1
  <2>2. CASE inside[s]["discovery"] = s /\ owner = [doc |-> "inside", name |-> topic[s]]
    <3>1. topic[s] # None /\ topic[s] \in Topics \cup {None}
      BY <2>2, SessionsAssumption DEF IInv, DocsNamed, TypeOK, Places, Docs
    <3> QED
      BY <2>2, <3>1 DEF Names
  <2> QED
    BY <2>1, <2>2 DEF NamesOf
<1> DEFINE new == [Idle EXCEPT !.pc = "target", !.sid = s, !.name = owner.name]
<1>3. new \in Commands /\ new.pc = "target" /\ new.sid = s /\ new.name = owner.name
  BY <1>2 DEF Idle, Commands, Pcs
<1>4. Begins(p, new) /\ UNCHANGED disk /\ UNCHANGED <<used, topic, late, marked>>
  BY <1>1 DEF ConvertResolves
<1> HIDE DEF new
<1>5. Proceeds(p, new) /\ begun' \in 0 .. MaxBegun
  BY <1>3, <1>4, BeginsNew DEF IInv
<1>6. Sees(s, "discovery") /\ Recorded(s, "discovery") /\ "discovery" \in Places
  BY DEF ConvertResolves, Recorded, Records, Places
<1>7. s \in used /\ \A q \in Procs : ~Starts(q, s)
  BY <1>6, SeenIsUsed DEF IInv, StartIsNew
<1>8. Fits(new)
  BY <1>2, <1>3, <1>7 DEF Fits, ArgsOf
<1> QED
  BY <1>3, <1>4, <1>5, <1>7, <1>8, LookingStep DEF Converting

-----------------------------------------------------------------------------
(* convert: what leaves the record alone.                                  *)

(* A command that goes on has the arguments it had.                        *)
LEMMA GoesOnAs ==
  ASSUME TypeOK, NEW p \in Procs, NEW pc \in Pcs
  PROVE  LET new == [proc[p] EXCEPT !.pc = pc] IN
         /\ new \in Commands /\ new.pc = pc
         /\ new.sid = proc[p].sid /\ new.place = proc[p].place /\ new.name = proc[p].name
         /\ new.doc = proc[p].doc /\ new.prunes = proc[p].prunes
         /\ new.starting = proc[p].starting
<1>1. proc[p] \in Commands
  BY DEF TypeOK
<1> QED
  BY <1>1 DEF Commands

(* A convert goes on to its next step.                                     *)
LEMMA ConvertGoesOn ==
  ASSUME IInv, NEW p \in Procs, proc[p].pc \in Converting, NEW pc \in Converting, Goes(p, pc),
         pc \notin {"target", "mark"} => proc[p].sid \in marked[proc[p].name],
         pc \in {"updated", "rematerialize", "clear"} => Settled(proc[p].sid)
  PROVE  \E new \in Commands :
           /\ Proceeds(p, new) /\ Fits(new)
           /\ new.pc = pc /\ new.sid = proc[p].sid /\ new.name = proc[p].name
<1> DEFINE new == [proc[p] EXCEPT !.pc = pc]
<1>1. pc \in Pcs
  BY DEF Converting, Pcs
<1>2. /\ new \in Commands /\ new.pc = pc /\ new.sid = proc[p].sid /\ new.name = proc[p].name
  BY <1>1, GoesOnAs DEF IInv
<1>3. Fits(proc[p])
  BY AllFit
<1>4. Proceeds(p, new)
  BY <1>1, GoesOn DEF IInv
<1> HIDE DEF new
<1>5. Fits(new)
  BY <1>2, <1>3 DEF Fits, ArgsOf, Converting
<1> QED
  BY <1>2, <1>4, <1>5

(* A View Dir, a doc in one, or a feature's doc is replaced.               *)
LEMMA ViewSet ==
  ASSUME TypeOK, NEW s \in Sids, NEW at \in Places, NEW v \in {"absent", "bare"} \cup Records,
         SetView(s, at, v)
  PROVE  /\ view' \in [Sids -> [Places -> {"absent", "bare"} \cup Records]]
         /\ \A t \in Sids, x \in Places :
              view'[t][x] = IF t = s /\ x = at THEN v ELSE view[t][x]
  BY DEF TypeOK, SetView

(* Writing the documents of a session in one place.                        *)
LEMMA InsideSet ==
  ASSUME TypeOK, NEW s \in Sids, NEW at \in Places, NEW d \in Docs \cup {None},
         inside' = [inside EXCEPT ![s][at] = d]
  PROVE  /\ inside' \in [Sids -> [Places -> Docs \cup {None}]]
         /\ \A t \in Sids, x \in Places :
              inside'[t][x] = IF t = s /\ x = at THEN d ELSE inside[t][x]
  BY DEF TypeOK

(* Writing the documents kept under a name.                                *)
LEMMA KeptSet ==
  ASSUME TypeOK, NEW n \in Names, NEW d \in Docs \cup {None}, kept' = [kept EXCEPT ![n] = d]
  PROVE  /\ kept' \in [Names -> Docs \cup {None}]
         /\ \A m \in Names : kept'[m] = IF m = n THEN d ELSE kept[m]
  BY DEF TypeOK

(* ensure_feature creates the feature.                                     *)
LEMMA EnsureFeatureInv ==
  ASSUME IInv, NEW p \in Procs, EnsureFeature(p)
  PROVE  IInv'
<1>1. /\ proc[p].pc = "target" /\ features' = features \cup {proc[p].name} /\ Goes(p, "mark")
      /\ UNCHANGED <<view, inside, kept, marker, used, topic, begun, late, marked>>
  BY DEF EnsureFeature, At, past
<1>2. PICK new \in Commands : /\ Proceeds(p, new) /\ Fits(new)
                              /\ new.pc = "mark" /\ new.sid = proc[p].sid /\ new.name = proc[p].name
  BY <1>1, ConvertGoesOn DEF Converting
<1>3. proc[p].name \in Names
  BY <1>1 DEF IInv, ArgsGiven, ArgsOf, Converting
<1>4. TypeOK' /\ DocsNamed'
  BY <1>1, <1>2, <1>3 DEF IInv, TypeOK, DocsNamed, Proceeds
<1> QED
  BY <1>1, <1>2, <1>4, QuietStep

(* lift_discovery moves the doc to its feature.                            *)
LEMMA LiftDiscoveryInv ==
  ASSUME IInv, NEW p \in Procs, LiftDiscovery(p)
  PROVE  IInv'
<1> DEFINE s == proc[p].sid  n == proc[p].name
<1>1. /\ proc[p].pc = "lift" /\ Goes(p, "lifted")
      /\ UNCHANGED <<view, features, marker, used, topic, begun, late, marked>>
  BY DEF LiftDiscovery, At, past
<1>2. s \in Sids /\ n \in Names /\ s \in marked[n] /\ n \in features /\ "discovery" \in Places
  BY <1>1 DEF IInv, ArgsGiven, ArgsOf, Converting, MarkersMarked, Places
<1>3. PICK new \in Commands : /\ Proceeds(p, new) /\ Fits(new)
                              /\ new.pc = "lifted" /\ new.sid = s /\ new.name = n
  BY <1>1, <1>2, ConvertGoesOn DEF Converting
<1>4. \/ UNCHANGED <<kept, inside>>
      \/ /\ inside[s]["discovery"] # None
         /\ kept' = [kept EXCEPT ![n] = inside[s]["discovery"]]
         /\ inside' = [inside EXCEPT ![s]["discovery"] = None]
  BY DEF LiftDiscovery
<1> HIDE DEF s, n
<1>a. inside[s]["discovery"] \in Docs \cup {None}
  BY <1>2 DEF IInv, TypeOK
<1>5. kept' \in [Names -> Docs \cup {None}] /\ inside' \in [Sids -> [Places -> Docs \cup {None}]]
  BY <1>2, <1>4, <1>a, KeptSet, InsideSet DEF IInv, TypeOK
<1>6. \A t \in Sids, at \in Places : inside'[t][at] \in {inside[t][at], None}
  BY <1>2, <1>4, InsideSet DEF IInv
<1>7. TypeOK'
  BY <1>1, <1>3, <1>5, <1>6 DEF IInv, TypeOK, Proceeds
<1>8. DocsNamed'
  <2>1. \A m \in Names : kept'[m] = kept[m] \/ (kept'[m] = inside[s]["discovery"] /\ kept'[m] # None)
    BY <1>2, <1>4 DEF IInv, TypeOK
  <2> QED
    BY <1>1, <1>2, <1>6, <2>1 DEF IInv, DocsNamed
<1> QED
  BY <1>1, <1>2, <1>3, <1>7, <1>8, QuietStep DEF s

(* rematerialize rewrites the View Dir's files.                            *)
LEMMA RematerializeInv ==
  ASSUME IInv, NEW p \in Procs, Rematerialize(p)
  PROVE  IInv'
<1>1. proc[p].pc = "rematerialize" /\ Goes(p, "clear") /\ UNCHANGED disk
      /\ UNCHANGED <<used, topic, begun, late, marked>>
  BY DEF Rematerialize, At, past
<1>2. /\ proc[p].sid \in Sids /\ proc[p].sid \in marked[proc[p].name] /\ Settled(proc[p].sid)
      /\ proc[p].name \in features
  BY <1>1 DEF IInv, ArgsGiven, ArgsOf, Converting, MarkersMarked, BoundIsSettled
<1>3. PICK new \in Commands : /\ Proceeds(p, new) /\ Fits(new)
                              /\ new.pc = "clear" /\ new.sid = proc[p].sid /\ new.name = proc[p].name
  BY <1>1, <1>2, ConvertGoesOn DEF Converting
<1>4. begun' \in 0 .. MaxBegun
  BY <1>1 DEF IInv, TypeOK
<1> QED
  BY <1>1, <1>2, <1>3, <1>4, LookingStep

(* finish removes the marker by name: nothing of its session is left to    *)
(* bind, if it is the only one.                                            *)
LEMMA ClearMarkerInv ==
  ASSUME IInv, NEW p \in Procs, ClearMarker(p)
  PROVE  IInv'
<1> DEFINE s == proc[p].sid  n == proc[p].name
           new == [Idle EXCEPT !.pc = "reread", !.name = n]
<1>1. /\ proc[p].pc = "clear" /\ Becomes(p, new)
      /\ view' = [view EXCEPT ![s][n] = Materialised(s, n)]
      /\ marker' = [marker EXCEPT ![n] = None]
      /\ UNCHANGED <<inside, kept, features, used, topic, begun, late, marked>>
  BY DEF ClearMarker, At, past, SetView
<1>2. s \in Sids /\ n \in Names /\ n \in Places /\ s \in marked[n] /\ Settled(s)
  BY <1>1 DEF IInv, ArgsGiven, ArgsOf, Converting, MarkersMarked, BoundIsSettled, Places
<1>3. new \in Commands /\ new.pc = "reread" /\ new.name = n /\ new.sid = None
  BY <1>2 DEF Idle, Commands, Pcs
<1> HIDE DEF new
<1>4. Proceeds(p, new)
  BY <1>1, <1>3, BecomesNew DEF IInv
<1>5. Fits(new)
  BY <1>2, <1>3 DEF Fits, ArgsOf, Converting
<1>6. s \in used /\ \A q \in Procs : ~Starts(q, s)
  BY <1>2, MarkedIsNotStarting
<1> HIDE DEF s, n
<1>7. \A t \in Sids, at \in Places :
        view'[t][at] = view[t][at] \/ (t = s /\ at = n /\ view[t][at] = "absent" /\ view'[t][at] = "bare")
  BY <1>1, <1>2 DEF IInv, TypeOK, Materialised, Sees
<1>8. view' \in [Sids -> [Places -> {"absent", "bare"} \cup Records]]
  BY <1>1, <1>2 DEF IInv, TypeOK, Materialised, Sees
<1>9. marker' \in [Names -> Markers \cup {None}]
  BY <1>1 DEF IInv, TypeOK
<1>10. TypeOK' /\ DocsNamed'
  BY <1>1, <1>4, <1>7, <1>8, <1>9 DEF IInv, TypeOK, DocsNamed, Proceeds
<1>11. ~Recorded(s, "discovery")
  <2>1. "discovery" \in Places /\ "discovery" \notin Names
    BY SessionsAssumption DEF Places, Names
  <2>2. view[s]["discovery"] # "unbound"
    BY <1>2, <2>1 DEF Settled
  <2> QED
    BY <1>2, <2>1, <2>2 DEF IInv, OneHome, Recorded, Records
<1>12. \A t \in Sids : OnlyConversion(t, n) => t = s
  BY <1>2 DEF OnlyConversion
<1>13. \A m \in Names : marker'[m] = marker[m] \/
           (marker'[m] = None /\ \A t \in Sids : OnlyConversion(t, m) => Settled(t))
  BY <1>1, <1>2, <1>12 DEF IInv, TypeOK
<1> QED
  BY <1>1, <1>2, <1>3, <1>4, <1>5, <1>6, <1>7, <1>10, <1>11, <1>13, SessionsAssumption, QuietStep DEF Converting

-----------------------------------------------------------------------------
(* stop and prune.                                                         *)

(* An ending command goes on to its next step.                             *)
LEMMA EndGoesOn ==
  ASSUME IInv, NEW p \in Procs, proc[p].pc \in {"rescue", "rescueTo"}, NEW new \in Commands,
         new.pc \in {"rescueTo", "remove"}, new.pc = "rescueTo" => new.name \in Names,
         new.sid = proc[p].sid, new.place = proc[p].place, new.prunes = proc[p].prunes,
         new.starting = proc[p].starting
  PROVE  Fits(new) /\ new.pc \notin Converting \cup {"view", "record"}
<1>1. Fits(proc[p])
  BY AllFit
<1> QED
  BY <1>1 DEF Fits, ArgsOf, Converting

(* What a command ends as.                                                 *)
LEMMA IdleFits == Fits(Idle) /\ Idle.pc \notin Converting \cup {"view", "record"} /\ Idle.sid \notin Sids
<1>1. Idle.sid \notin Sids
  BY IdleIsCommand, SessionsAssumption
<1> QED
  BY IdleIsCommand, <1>1 DEF Fits, ArgsOf, Converting

(* rescue_session_doc looks for a doc to save and for a free name.         *)
LEMMA RescueLooksInv ==
  ASSUME IInv, NEW p \in Procs, RescueLooks(p)
  PROVE  IInv'
<1> DEFINE s == proc[p].sid
<1>1. /\ proc[p].pc = "rescue" /\ UNCHANGED disk /\ UNCHANGED <<used, topic, late, marked>>
      /\ begun' = begun
  BY DEF RescueLooks, At, past
<1>2. s \in Sids /\ begun' \in 0 .. MaxBegun /\ proc[p] \in Commands
  BY <1>1 DEF IInv, ArgsGiven, ArgsOf, TypeOK
<1>3. CASE inside[s]["discovery"] # None
           /\ Becomes(p, [proc[p] EXCEPT !.pc = "rescueTo", !.name = Target(s)])
  <2> DEFINE new == [proc[p] EXCEPT !.pc = "rescueTo", !.name = Target(s)]
  <2>1. Target(s) \in Names
    <3>1. inside[s]["discovery"] \in Docs /\ topic[inside[s]["discovery"]] \in Topics
      BY <1>2, <1>3, SessionsAssumption DEF IInv, DocsNamed, TypeOK, Places
    <3> QED
      BY <1>2, <3>1 DEF Target, Names
  <2>2. /\ new \in Commands /\ new.pc = "rescueTo" /\ new.name = Target(s) /\ new.sid = s
        /\ new.place = proc[p].place /\ new.prunes = proc[p].prunes
        /\ new.starting = proc[p].starting
    BY <1>2, <2>1 DEF Commands, Pcs
  <2> HIDE DEF new
  <2>3. Proceeds(p, new)
    BY <1>3, <2>2, BecomesNew DEF IInv, new
  <2>4. Fits(new) /\ new.pc \notin Converting \cup {"view", "record"}
    BY <1>1, <2>1, <2>2, EndGoesOn
  <2> QED
    BY <1>1, <1>2, <2>2, <2>3, <2>4, LookingStep
<1>4. CASE Goes(p, "remove")
  <2> DEFINE new == [proc[p] EXCEPT !.pc = "remove"]
  <2>1. "remove" \in Pcs
    BY DEF Pcs
  <2>2. /\ new \in Commands /\ new.pc = "remove" /\ new.sid = s
        /\ new.place = proc[p].place /\ new.prunes = proc[p].prunes
        /\ new.starting = proc[p].starting
    BY <2>1, GoesOnAs DEF IInv
  <2>3. Proceeds(p, new)
    BY <1>4, <2>1, GoesOn DEF IInv
  <2> HIDE DEF new
  <2>4. Fits(new) /\ new.pc \notin Converting \cup {"view", "record"}
    BY <1>1, <2>2, EndGoesOn
  <2> QED
    BY <1>1, <1>2, <2>2, <2>3, <2>4, LookingStep
<1> QED
  BY <1>3, <1>4 DEF RescueLooks

(* A doc goes from its View Dir to a feature.                              *)
LEMMA DocMoves ==
  ASSUME TypeOK, DocsNamed, NEW s \in Sids, NEW n \in Names, inside[s]["discovery"] # None,
         kept' = [kept EXCEPT ![n] = inside[s]["discovery"]],
         inside' = [inside EXCEPT ![s]["discovery"] = None], UNCHANGED <<view, topic>>
  PROVE  /\ kept' \in [Names -> Docs \cup {None}] /\ inside' \in [Sids -> [Places -> Docs \cup {None}]]
         /\ \A t \in Sids, at \in Places : inside'[t][at] \in {inside[t][at], None}
         /\ DocsNamed'
<1>1. "discovery" \in Places /\ inside[s]["discovery"] \in Docs
  BY DEF Places, TypeOK
<1>2. kept' \in [Names -> Docs \cup {None}] /\ inside' \in [Sids -> [Places -> Docs \cup {None}]]
  BY <1>1, KeptSet, InsideSet
<1>3. \A t \in Sids, at \in Places : inside'[t][at] \in {inside[t][at], None}
  BY <1>1, InsideSet
<1>4. \A m \in Names : kept'[m] = kept[m] \/ (kept'[m] = inside[s]["discovery"] /\ kept'[m] # None)
  BY DEF TypeOK
<1>5. DocsNamed'
  BY <1>1, <1>3, <1>4 DEF DocsNamed
<1> QED
  BY <1>2, <1>3, <1>5

(* rescue_session_doc moves the doc.                                       *)
LEMMA RescueMovesInv ==
  ASSUME IInv, NEW p \in Procs, RescueMoves(p)
  PROVE  IInv'
<1> DEFINE s == proc[p].sid  new == [proc[p] EXCEPT !.pc = "remove"]
<1>1. /\ proc[p].pc = "rescueTo" /\ Goes(p, "remove") /\ inside[s]["discovery"] # None
      /\ kept' = [kept EXCEPT ![proc[p].name] = inside[s]["discovery"]]
      /\ inside' = [inside EXCEPT ![s]["discovery"] = None]
      /\ UNCHANGED <<view, features, marker, used, topic, begun, late, marked>>
  BY DEF RescueMoves, At, past
<1>2. s \in Sids /\ proc[p].name \in Names
  BY <1>1 DEF IInv, ArgsGiven, ArgsOf
<1>3. "remove" \in Pcs
  BY DEF Pcs
<1>4. /\ new \in Commands /\ new.pc = "remove" /\ new.sid = s
      /\ new.place = proc[p].place /\ new.prunes = proc[p].prunes
      /\ new.starting = proc[p].starting
  BY <1>3, GoesOnAs DEF IInv
<1>5. Proceeds(p, new)
  BY <1>1, <1>3, GoesOn DEF IInv
<1> HIDE DEF new
<1>6. Fits(new) /\ new.pc \notin Converting \cup {"view", "record"}
  BY <1>1, <1>4, EndGoesOn
<1>7. /\ kept' \in [Names -> Docs \cup {None}] /\ inside' \in [Sids -> [Places -> Docs \cup {None}]]
      /\ \A t \in Sids, at \in Places : inside'[t][at] \in {inside[t][at], None}
      /\ DocsNamed'
  BY <1>1, <1>2, DocMoves DEF IInv
<1>8. TypeOK'
  BY <1>1, <1>5, <1>7 DEF IInv, TypeOK, Proceeds
<1>9. new.sid \notin Sids \ {proc[p].sid}
  BY <1>4
<1> HIDE DEF s
<1> QED
  BY <1>1, <1>4, <1>5, <1>6, <1>7, <1>8, <1>9, QuietStep

(* remove_dir_all, whole or cut short.                                     *)
LEMMA RemoveViewInv ==
  ASSUME IInv, NEW p \in Procs, RemoveView(p)
  PROVE  IInv'
<1> DEFINE s == proc[p].sid  at == proc[p].place
<1>1. /\ proc[p].pc = "remove" /\ Ends(p)
      /\ UNCHANGED <<kept, features, marker, used, topic, begun, late, marked>>
      /\ \/ /\ SetView(s, at, "absent")
            /\ inside' = [inside EXCEPT ![s][at] = None]
         \/ /\ Sees(s, at)
            /\ SetView(s, at, "bare")
            /\ inside' \in {inside, [inside EXCEPT ![s][at] = None]}
  BY DEF RemoveView, At, past
<1>2. s \in Sids /\ at \in Places
  BY <1>1 DEF IInv, ArgsGiven, ArgsOf
<1> HIDE DEF s, at
<1>3. Proceeds(p, Idle)
  BY <1>1, EndsNow DEF IInv
<1>4. /\ view' \in [Sids -> [Places -> {"absent", "bare"} \cup Records]]
      /\ \A t \in Sids, x \in Places :
           /\ view'[t][x] = view[t][x] \/ view'[t][x] \in {"absent", "bare"}
           /\ view[t][x] = "absent" => view'[t][x] = "absent"
           /\ view'[t][x] = "absent" => view[t][x] = "absent" \/ (t = s /\ x = at /\ inside'[t][x] = None)
  <2>1. CASE SetView(s, at, "absent") /\ inside' = [inside EXCEPT ![s][at] = None]
    <3>1. TypeOK /\ "absent" \in {"absent", "bare"} \cup Records /\ None \in Docs \cup {None}
      BY DEF IInv
    <3>2. /\ view' \in [Sids -> [Places -> {"absent", "bare"} \cup Records]]
          /\ \A t \in Sids, x \in Places :
               view'[t][x] = IF t = s /\ x = at THEN "absent" ELSE view[t][x]
      BY <1>2, <2>1, <3>1, ViewSet
    <3>3. \A t \in Sids, x \in Places :
            inside'[t][x] = IF t = s /\ x = at THEN None ELSE inside[t][x]
      BY <1>2, <2>1, <3>1, InsideSet
    <3> QED
      BY <3>2, <3>3
  <2>2. CASE Sees(s, at) /\ SetView(s, at, "bare")
    BY <1>2, <2>2, ViewSet DEF IInv, Sees
  <2> QED
    BY <1>1, <2>1, <2>2
<1>5. /\ inside' \in [Sids -> [Places -> Docs \cup {None}]]
      /\ \A t \in Sids, x \in Places : inside'[t][x] \in {inside[t][x], None}
  <2>1. CASE inside' = inside
    BY <2>1 DEF IInv, TypeOK
  <2>2. CASE inside' = [inside EXCEPT ![s][at] = None]
    <3>1. TypeOK /\ None \in Docs \cup {None}
      BY DEF IInv
    <3>2. /\ inside' \in [Sids -> [Places -> Docs \cup {None}]]
          /\ \A t \in Sids, x \in Places :
               inside'[t][x] = IF t = s /\ x = at THEN None ELSE inside[t][x]
      BY <1>2, <2>2, <3>1, InsideSet
    <3> QED
      BY <3>2
  <2> QED
    BY <1>1, <2>1, <2>2
<1>6. \A t \in Sids, x \in Places : inside'[t][x] # None => view'[t][x] # "absent"
  BY <1>4, <1>5 DEF IInv, TypeOK
<1>7. TypeOK'
  BY <1>1, <1>3, <1>4, <1>5, <1>6 DEF IInv, TypeOK, Proceeds
<1>8. DocsNamed'
  BY <1>1, <1>5 DEF IInv, DocsNamed
<1> QED
  BY <1>1, <1>3, <1>4, <1>7, <1>8, IdleFits, QuietStep

-----------------------------------------------------------------------------
(* Docs, and View Dirs made again.                                         *)

(* discovery amend reads the whole doc, in a View Dir ...                  *)
LEMMA AmendReadsInv ==
  ASSUME IInv, NEW p \in Procs, NEW s \in Sids, AmendReads(p, s)
  PROVE  IInv'
<1> DEFINE doc == inside[s]["discovery"]
           new == [Idle EXCEPT !.pc = "rewrite", !.sid = s, !.doc = doc]
<1>1. doc # None /\ Begins(p, new) /\ UNCHANGED disk /\ UNCHANGED <<used, topic, late, marked>>
  BY DEF AmendReads
<1>2. "discovery" \in Places
  BY DEF Places
<1>3. doc \in Docs /\ topic[doc] # None /\ Sees(s, "discovery")
  BY <1>1, <1>2 DEF IInv, TypeOK, DocsNamed, Sees
<1>4. new \in Commands /\ new.pc = "rewrite" /\ new.sid = s /\ new.doc = doc
  BY <1>3 DEF Idle, Commands, Pcs
<1> HIDE DEF new
<1>5. Proceeds(p, new) /\ begun' \in 0 .. MaxBegun
  BY <1>1, <1>4, BeginsNew DEF IInv
<1>6. s \in used /\ \A q \in Procs : Starts(q, s) => proc[q].pc # "view"
  BY <1>2, <1>3, SeenIsUsed
<1>7. Fits(new)
  BY <1>3, <1>4, <1>6, SessionsAssumption DEF Fits, ArgsOf, Converting
<1> QED
  BY <1>1, <1>4, <1>5, <1>6, <1>7, LookingStep DEF Converting

(* A command that holds a feature's doc, to write it back.                 *)
LEMMA KeptFits ==
  ASSUME IInv, NEW n \in Names, kept[n] # None
  PROVE  /\ RewritesKept(n) \in Commands /\ Fits(RewritesKept(n))
         /\ RewritesKept(n).pc \notin Converting \cup {"view", "record"}
         /\ RewritesKept(n).sid \notin Sids
<1>1. kept[n] \in Docs /\ topic[kept[n]] # None
  BY DEF IInv, TypeOK, DocsNamed
<1>2. /\ RewritesKept(n) \in Commands /\ RewritesKept(n).pc = "rewrite"
      /\ RewritesKept(n).sid = None /\ RewritesKept(n).name = n /\ RewritesKept(n).doc = kept[n]
  BY <1>1 DEF RewritesKept, Idle, Commands, Pcs
<1> QED
  BY <1>1, <1>2, SessionsAssumption DEF Fits, ArgsOf, Converting

(* ... or kept by a feature, ...                                           *)
LEMMA AmendReadsKeptInv ==
  ASSUME IInv, NEW p \in Procs, NEW n \in Names, AmendReadsKept(p, n)
  PROVE  IInv'
<1>1. /\ kept[n] # None /\ Begins(p, RewritesKept(n))
      /\ UNCHANGED disk /\ UNCHANGED <<used, topic, late, marked>>
  BY DEF AmendReadsKept
<1>2. Proceeds(p, RewritesKept(n)) /\ begun' \in 0 .. MaxBegun
  BY <1>1, KeptFits, BeginsNew DEF IInv
<1> QED
  BY <1>1, <1>2, KeptFits, LookingStep

(* ... and so does a convert at its end.                                   *)
LEMMA MarkReadsInv ==
  ASSUME IInv, NEW p \in Procs, MarkReads(p)
  PROVE  IInv'
<1> DEFINE n == proc[p].name
<1>1. /\ proc[p].pc = "reread" /\ kept[n] # None /\ Becomes(p, RewritesKept(n))
      /\ UNCHANGED disk /\ UNCHANGED <<used, topic, begun, late, marked>>
  BY DEF MarkReads, At, past
<1>2. n \in Names /\ begun' \in 0 .. MaxBegun
  BY <1>1 DEF IInv, ArgsGiven, ArgsOf, TypeOK
<1>3. Proceeds(p, RewritesKept(n))
  BY <1>1, <1>2, KeptFits, BecomesNew DEF IInv
<1> QED
  BY <1>1, <1>2, <1>3, KeptFits, LookingStep

(* The whole doc is written back.                                          *)
LEMMA RewriteInv ==
  ASSUME IInv, NEW p \in Procs, Rewrite(p)
  PROVE  IInv'
<1> DEFINE s == proc[p].sid  n == proc[p].name  d == proc[p].doc
<1>1. /\ proc[p].pc = "rewrite" /\ Ends(p)
      /\ UNCHANGED <<view, features, marker, used, topic, begun, late, marked>>
      /\ \/ /\ s = None
            /\ kept' = [kept EXCEPT ![n] = d]
            /\ UNCHANGED inside
         \/ /\ s # None
            /\ Sees(s, "discovery")
            /\ inside' = [inside EXCEPT ![s]["discovery"] = d]
            /\ UNCHANGED kept
  BY DEF Rewrite, At, past
<1>2. /\ d \in Docs /\ topic[d] # None /\ (s = None => n \in Names)
      /\ s \in Sids \cup {None} /\ "discovery" \in Places
  BY <1>1 DEF IInv, ArgsGiven, ArgsOf, TypeOK, Commands, Places
<1> HIDE DEF s, n, d
<1>3. Proceeds(p, Idle) /\ TypeOK
  BY <1>1, EndsNow DEF IInv
<1>4. /\ kept' \in [Names -> Docs \cup {None}]
      /\ \A m \in Names : kept'[m] \in {kept[m], d}
  <2>1. CASE s = None /\ kept' = [kept EXCEPT ![n] = d]
    BY <1>2, <1>3, <2>1, KeptSet
  <2>2. CASE UNCHANGED kept
    BY <1>3, <2>2 DEF TypeOK
  <2> QED
    BY <1>1, <2>1, <2>2
<1>5. /\ inside' \in [Sids -> [Places -> Docs \cup {None}]]
      /\ \A t \in Sids, x \in Places : inside'[t][x] = inside[t][x]
           \/ (t = s /\ x = "discovery" /\ Sees(s, "discovery") /\ inside'[t][x] = d)
  <2>1. CASE s # None /\ Sees(s, "discovery") /\ inside' = [inside EXCEPT ![s]["discovery"] = d]
    <3>1. /\ inside' \in [Sids -> [Places -> Docs \cup {None}]]
          /\ \A t \in Sids, x \in Places :
               inside'[t][x] = IF t = s /\ x = "discovery" THEN d ELSE inside[t][x]
      BY <1>2, <1>3, <2>1, InsideSet
    <3> QED
      BY <2>1, <3>1
  <2>2. CASE UNCHANGED inside
    BY <1>3, <2>2 DEF TypeOK
  <2> QED
    BY <1>1, <2>1, <2>2
<1>6. \A t \in Sids, x \in Places : inside'[t][x] # None => view[t][x] # "absent"
  BY <1>3, <1>5 DEF TypeOK, Sees
<1>7. TypeOK'
  BY <1>1, <1>3, <1>4, <1>5, <1>6 DEF TypeOK, Proceeds
<1>8. DocsNamed'
  BY <1>1, <1>2, <1>4, <1>5 DEF IInv, DocsNamed
<1> QED
  BY <1>1, <1>3, <1>7, <1>8, IdleFits, QuietStep

(* A command dies between two steps.                                       *)
LEMMA DiesInv ==
  ASSUME IInv, NEW p \in Procs, Dies(p)
  PROVE  IInv'
<1>1. Ends(p) /\ UNCHANGED disk /\ UNCHANGED <<used, topic, late, marked>> /\ begun' = begun
  BY DEF Dies, past
<1>2. Proceeds(p, Idle) /\ begun' \in 0 .. MaxBegun
  BY <1>1, EndsNow DEF IInv, TypeOK
<1> QED
  BY <1>1, <1>2, IdleFits, LookingStep

(* materialise makes a View Dir where there is none.                       *)
LEMMA ViewMade ==
  ASSUME TypeOK, NEW s \in Sids, NEW at \in Places, SetView(s, at, Materialised(s, at)),
         UNCHANGED inside
  PROVE  /\ view' \in [Sids -> [Places -> {"absent", "bare"} \cup Records]]
         /\ \A t \in Sids, x \in Places :
              \/ view'[t][x] = view[t][x]
              \/ t = s /\ x = at /\ view[t][x] = "absent" /\ view'[t][x] = "bare"
         /\ \A t \in Sids, x \in Places : inside'[t][x] # None => view'[t][x] # "absent"
<1>0. view[s][at] \in {"absent", "bare"} \cup Records
  BY DEF TypeOK
<1>a. Materialised(s, at) \in {"absent", "bare"} \cup Records
  BY <1>0 DEF Materialised
<1>1. PICK v \in {"absent", "bare"} \cup Records : v = Materialised(s, at)
  BY <1>a
<1>2. view[s][at] = "absent" => v = "bare"
  BY <1>1 DEF Materialised, Sees
<1>3. view[s][at] # "absent" => v = view[s][at]
  BY <1>1 DEF Materialised, Sees
<1>4. SetView(s, at, v)
  BY <1>1
<1>5. /\ view' \in [Sids -> [Places -> {"absent", "bare"} \cup Records]]
      /\ \A t \in Sids, x \in Places :
           view'[t][x] = IF t = s /\ x = at THEN v ELSE view[t][x]
  BY <1>1, <1>4 DEF SetView, TypeOK
<1>6. \A t \in Sids, x \in Places :
              \/ view'[t][x] = view[t][x]
              \/ t = s /\ x = at /\ view[t][x] = "absent" /\ view'[t][x] = "bare"
  BY <1>2, <1>3, <1>5
<1> QED
  BY <1>5, <1>6 DEF TypeOK

(* session connect makes the View Dir again.                               *)
LEMMA ConnectMaterialisesInv ==
  ASSUME IInv, NEW p \in Procs, ConnectMaterialises(p)
  PROVE  IInv'
<1> DEFINE s == proc[p].sid  at == proc[p].place
<1>1. /\ proc[p].pc = "connect" /\ Ends(p) /\ SetView(s, at, Materialised(s, at))
      /\ UNCHANGED <<inside, kept, features, marker, used, topic, begun, late, marked>>
  BY DEF ConnectMaterialises, At, past
<1>2. s \in Sids /\ at \in Places
  BY <1>1 DEF IInv, ArgsGiven, ArgsOf
<1>3. Fits(proc[p])
  BY AllFit
<1>4. /\ s \in used /\ (Recorded(s, "discovery") => at = "discovery")
      /\ \A q \in Procs : Starts(q, s) => at = proc[q].place
  BY <1>1, <1>2, <1>3, SessionsAssumption DEF Fits
<1>5. Proceeds(p, Idle) /\ TypeOK
  BY <1>1, EndsNow DEF IInv
<1>6. \A q \in Procs : Starts(q, s) => proc'[q].pc = "record"
  <2> SUFFICES ASSUME NEW q \in Procs, Starts(q, s)
               PROVE  proc'[q].pc = "record"
    OBVIOUS
  <2>1. q # p
    BY <1>1 DEF Starts
  <2>2. proc[q].pc # "view"
    BY <1>2, <2>1 DEF IInv, StartIsNew
  <2> QED
    BY <1>5, <2>1, <2>2 DEF Starts, Proceeds
<1> HIDE DEF s, at
<1>7. /\ view' \in [Sids -> [Places -> {"absent", "bare"} \cup Records]]
      /\ \A t \in Sids, x \in Places :
           \/ view'[t][x] = view[t][x]
           \/ t = s /\ x = at /\ view[t][x] = "absent" /\ view'[t][x] = "bare"
      /\ \A t \in Sids, x \in Places : inside'[t][x] # None => view'[t][x] # "absent"
  BY <1>1, <1>2, <1>5, ViewMade
<1>8. TypeOK' /\ DocsNamed'
  BY <1>1, <1>5, <1>7 DEF IInv, TypeOK, DocsNamed, Proceeds
<1>9. \A t \in Sids, x \in Places :
        /\ view'[t][x] = view[t][x] \/ view'[t][x] \in {"absent", "bare"}
        /\ view[t][x] = "absent" /\ view'[t][x] # "absent" =>
             /\ t \in used /\ (Recorded(t, "discovery") => x = "discovery")
             /\ \A q \in Procs : Starts(q, t) => x = proc[q].place /\ proc'[q].pc = "record"
  BY <1>4, <1>6, <1>7
<1> QED
  BY <1>1, <1>5, <1>8, <1>9, IdleFits, QuietStep

(* session start makes its View Dir.                                       *)
LEMMA MakeViewInv ==
  ASSUME IInv, NEW p \in Procs, MakeView(p)
  PROVE  IInv'
<1> DEFINE s == proc[p].sid  at == proc[p].place  new == [proc[p] EXCEPT !.pc = "record"]
<1>1. /\ proc[p].pc = "view" /\ Goes(p, "record") /\ SetView(s, at, Materialised(s, at))
      /\ UNCHANGED <<inside, kept, features, marker, used, topic, begun, late, marked>>
  BY DEF MakeView, At, past
<1>2. s \in Sids /\ at \in Places /\ Starts(p, s) /\ "discovery" \in Places /\ "record" \in Pcs
  BY <1>1 DEF IInv, ArgsGiven, ArgsOf, Starts, Places, Pcs
<1>3. /\ s \in used /\ ~Recorded(s, "discovery")
      /\ \A q \in Procs : Starts(q, s) => q = p
  BY <1>2 DEF IInv, StartIsNew
<1>4. /\ new \in Commands /\ new.pc = "record" /\ new.sid = s /\ new.place = at
  BY <1>2, GoesOnAs DEF IInv
<1>5. Proceeds(p, new) /\ TypeOK
  BY <1>1, <1>2, GoesOn DEF IInv
<1> HIDE DEF new
<1>6. Fits(new)
  BY <1>2, <1>3, <1>4 DEF Fits, ArgsOf, Converting
<1>7. proc'[p].pc = "record" /\ new.sid \notin Sids \ {proc[p].sid}
  BY <1>4, <1>5 DEF Proceeds
<1>8. Starts(p, new.sid) /\ new.place = proc[p].place
  BY <1>2, <1>4
<1> HIDE DEF s, at
<1>9. /\ view' \in [Sids -> [Places -> {"absent", "bare"} \cup Records]]
      /\ \A t \in Sids, x \in Places :
           \/ view'[t][x] = view[t][x]
           \/ t = s /\ x = at /\ view[t][x] = "absent" /\ view'[t][x] = "bare"
      /\ \A t \in Sids, x \in Places : inside'[t][x] # None => view'[t][x] # "absent"
  BY <1>1, <1>2, <1>5, ViewMade
<1>10. TypeOK' /\ DocsNamed'
  BY <1>1, <1>5, <1>9 DEF IInv, TypeOK, DocsNamed, Proceeds
<1>11. \A t \in Sids, x \in Places :
        /\ view'[t][x] = view[t][x] \/ view'[t][x] \in {"absent", "bare"}
        /\ view[t][x] = "absent" /\ view'[t][x] # "absent" =>
             /\ t \in used /\ (Recorded(t, "discovery") => x = "discovery")
             /\ \A q \in Procs : Starts(q, t) => x = proc[q].place /\ proc'[q].pc = "record"
  BY <1>3, <1>7, <1>9 DEF at
<1>12. new.pc \notin Converting
  BY <1>4 DEF Converting
<1> QED
  BY <1>1, <1>4, <1>5, <1>6, <1>7, <1>8, <1>10, <1>11, <1>12, QuietStep

(* A doc is written, and no command takes a step.                          *)
LEMMA DocWritten ==
  ASSUME IInv, TypeOK', DocsNamed', UNCHANGED <<view, features, marker, used, proc, marked>>,
         \A d \in Docs : topic[d] # None => topic'[d] # None
  PROVE  IInv'
<1>1. ArgsGiven'
  <2>1. \A p \in Procs : ArgsOf(proc[p]) => ArgsOf(proc[p])'
    BY DEF ArgsOf
  <2> QED
    BY <2>1 DEF ArgsGiven, IInv
<1>2. OneHome' /\ UnusedIsNowhere'
  BY DEF IInv, OneHome, UnusedIsNowhere, Recorded
<1>3. StartIsNew'
  BY DEF IInv, StartIsNew, Starts, Recorded
<1>4. UnmovedIsAlone' /\ MarkersMarked'
  BY DEF IInv, UnmovedIsAlone, MarkersMarked, Recorded
<1>5. BoundIsSettled' /\ MarkerStays'
  BY DEF IInv, BoundIsSettled, MarkerStays, Settled, OnlyConversion
<1>6. PrunesTheDead'
  BY DEF IInv, PrunesTheDead, Starts, Recorded
<1> QED
  BY <1>1, <1>2, <1>3, <1>4, <1>5, <1>6 DEF IInv

(* discovery create in a session's View Dir.                               *)
LEMMA CreateInsideInv ==
  ASSUME IInv, NEW s \in Sids, NEW n \in Topics, CreateInside(s, n)
  PROVE  IInv'
<1>1. /\ Sees(s, "discovery") /\ topic' = [topic EXCEPT ![s] = n]
      /\ inside' = [inside EXCEPT ![s]["discovery"] = s]
      /\ late' \in {late, late \cup {s}}
      /\ UNCHANGED <<view, kept, features, marker, used, proc, begun, marked>>
  BY DEF CreateInside
<1>2. s \in Docs /\ "discovery" \in Places /\ n # None /\ TypeOK
  BY SessionsAssumption DEF Docs, Places, IInv
<1>3. /\ topic' \in [Docs -> Topics \cup {None}] /\ topic'[s] # None
      /\ \A d \in Docs : topic[d] # None => topic'[d] # None
  BY <1>1, <1>2 DEF TypeOK
<1>4. /\ inside' \in [Sids -> [Places -> Docs \cup {None}]]
      /\ \A t \in Sids, x \in Places :
           inside'[t][x] = IF t = s /\ x = "discovery" THEN s ELSE inside[t][x]
  BY <1>1, <1>2, InsideSet
<1>5. TypeOK'
  <2>1. late' \subseteq Docs
    BY <1>1, <1>2 DEF TypeOK
  <2>2. \A t \in Sids, x \in Places : inside'[t][x] # None => view[t][x] # "absent"
    BY <1>1, <1>2, <1>4 DEF TypeOK, Sees
  <2> QED
    BY <1>1, <1>2, <1>3, <1>4, <2>1, <2>2 DEF TypeOK
<1>6. DocsNamed'
  <2>1. \A t \in Sids, x \in Places : inside[t][x] \in Docs \cup {None}
    BY <1>2 DEF TypeOK
  <2>2. \A m \in Names : kept[m] \in Docs \cup {None}
    BY <1>2 DEF TypeOK
  <2> QED
    BY <1>1, <1>3, <1>4, <2>1, <2>2 DEF IInv, DocsNamed
<1> QED
  BY <1>1, <1>3, <1>5, <1>6, DocWritten

(* discovery create anywhere else.                                         *)
LEMMA CreateOutsideInv ==
  ASSUME IInv, NEW n \in Topics, CreateOutside(n)
  PROVE  IInv'
<1>1. /\ topic' = [topic EXCEPT ![Outside] = n]
      /\ kept' = [kept EXCEPT ![n] = Outside]
      /\ UNCHANGED <<view, inside, features, marker, used, proc, begun, late, marked>>
  BY DEF CreateOutside
<1>2. Outside \in Docs /\ n \in Names /\ n # None /\ TypeOK
  BY SessionsAssumption DEF Docs, Names, IInv
<1>3. /\ topic' \in [Docs -> Topics \cup {None}] /\ topic'[Outside] # None
      /\ \A d \in Docs : topic[d] # None => topic'[d] # None
  BY <1>1, <1>2 DEF TypeOK
<1>4. /\ kept' \in [Names -> Docs \cup {None}]
      /\ \A m \in Names : kept'[m] = IF m = n THEN Outside ELSE kept[m]
  BY <1>1, <1>2, KeptSet
<1>5. TypeOK'
  BY <1>1, <1>2, <1>3, <1>4 DEF TypeOK
<1>6. DocsNamed'
  <2>1. \A t \in Sids, x \in Places : inside[t][x] \in Docs \cup {None}
    BY <1>2 DEF TypeOK
  <2>2. \A m \in Names : kept[m] \in Docs \cup {None}
    BY <1>2 DEF TypeOK
  <2> QED
    BY <1>1, <1>3, <1>4, <2>1, <2>2 DEF IInv, DocsNamed
<1> QED
  BY <1>1, <1>3, <1>5, <1>6, DocWritten

-----------------------------------------------------------------------------
(* start.                                                                  *)

(* session start takes a new id.                                           *)
LEMMA StartInv ==
  ASSUME IInv, NEW p \in Procs, NEW s \in Sids, NEW at \in Places, Start(p, s, at)
  PROVE  IInv'
<1> DEFINE new == [Idle EXCEPT !.pc = "view", !.sid = s, !.place = at]
<1>1. /\ s \notin used /\ used' = used \cup {s} /\ Begins(p, new)
      /\ UNCHANGED <<view, inside, kept, features, marker, topic, late, marked>>
  BY DEF Start, disk
<1>2. new \in Commands /\ new.pc = "view" /\ new.sid = s /\ new.place = at
  BY DEF Idle, Commands, Pcs
<1> HIDE DEF new
<1>3. Proceeds(p, new) /\ begun' \in 0 .. MaxBegun
  BY <1>1, <1>2, BeginsNew DEF IInv
<1>4. /\ \A x \in Places : view[s][x] = "absent"
      /\ \A q \in Procs : proc[q].sid # s
      /\ \A n \in Names : s \notin marked[n]
  BY <1>1 DEF IInv, UnusedIsNowhere
<1>5. /\ proc'[p] = new /\ \A q \in Procs \ {p} : proc'[q] = proc[q]
  BY <1>3 DEF Proceeds
<1>6. TypeOK' /\ DocsNamed'
  BY <1>1, <1>3 DEF IInv, TypeOK, DocsNamed, Proceeds
<1>7. ArgsGiven'
  <2>1. \A q \in Procs : ArgsOf(proc[q]) => ArgsOf(proc[q])'
    BY <1>1, <1>2, <1>5 DEF ArgsOf, Converting
  <2> QED
    BY <2>1 DEF IInv, ArgsGiven
<1>8. OneHome' /\ UnusedIsNowhere'
  BY <1>1, <1>2, <1>5 DEF IInv, OneHome, UnusedIsNowhere, Recorded
<1>9. StartIsNew'
  <2> SUFFICES ASSUME NEW t \in Sids, NEW q \in Procs, Starts(q, t)'
               PROVE  /\ t \in used'
                      /\ \A r \in Procs \ {q} : ~Starts(r, t)'
                      /\ \A x \in Places : ~Recorded(t, x)'
                      /\ \A x \in Places \ {proc'[q].place} : view'[t][x] = "absent"
                      /\ proc'[q].pc = "view" => /\ view'[t][proc'[q].place] = "absent"
                                                 /\ \A r \in Procs \ {q} : proc'[r].sid # t
                      /\ \A r \in Procs : proc'[r].sid = t =>
                           /\ proc'[r].pc \notin Converting
                           /\ proc'[r].pc = "connect" => proc'[r].place = proc'[q].place
                      /\ \A n \in Names : t \notin marked'[n]
    BY DEF StartIsNew
  <2>1. CASE q = p
    <3>1. t = s
      BY <1>2, <1>5, <2>1 DEF Starts
    <3>2. \A x \in Places : ~Recorded(s, x)'
      BY <1>1, <1>4, SessionsAssumption DEF Recorded, Records, Names
    <3> QED
      BY <1>1, <1>2, <1>4, <1>5, <2>1, <3>1, <3>2 DEF Starts, Converting
  <2>2. CASE q # p
    <3>1. Starts(q, t) /\ t # s /\ proc'[q] = proc[q]
      BY <1>4, <1>5, <2>2 DEF Starts
    <3>2. new.sid # t
      BY <1>2, <3>1
    <3>3. \A r \in Procs \ {q} : ~Starts(r, t)'
      BY <1>5, <2>2, <3>1, <3>2 DEF IInv, StartIsNew, Starts
    <3>4. \A x \in Places : ~Recorded(t, x)'
      BY <1>1, <3>1 DEF IInv, StartIsNew, Recorded
    <3>5. proc'[q].pc = "view" => \A r \in Procs \ {q} : proc'[r].sid # t
      BY <1>5, <2>2, <3>1, <3>2 DEF IInv, StartIsNew
    <3> QED
      BY <1>1, <1>5, <2>2, <3>1, <3>2, <3>3, <3>4, <3>5 DEF IInv, StartIsNew
  <2> QED
    BY <2>1, <2>2
<1>10. UnmovedIsAlone' /\ MarkersMarked'
  BY <1>1, <1>2, <1>5 DEF IInv, UnmovedIsAlone, MarkersMarked, Recorded, Converting
<1>11. BoundIsSettled' /\ MarkerStays'
  BY <1>1, <1>2, <1>5 DEF IInv, BoundIsSettled, MarkerStays, Settled, OnlyConversion
<1>12. PrunesTheDead'
  BY <1>1, <1>2, <1>4, <1>5 DEF IInv, PrunesTheDead, Starts, Recorded
<1> QED
  BY <1>6, <1>7, <1>8, <1>9, <1>10, <1>11, <1>12 DEF IInv

(* session start writes the record: nobody else knows of the session but   *)
(* who found its View Dir, and they look for it in the same place.         *)
LEMMA WriteRecordInv ==
  ASSUME IInv, NEW p \in Procs, WriteRecord(p)
  PROVE  IInv'
<1>0. PICK s \in Sids, at \in Places : s = proc[p].sid /\ at = proc[p].place
  BY DEF WriteRecord, At, IInv, ArgsGiven, ArgsOf
<1>1. PICK r \in {"unbound", at} : SetView(s, at, r) /\ (r = at => at # "discovery")
  BY <1>0, SessionsAssumption DEF WriteRecord
<1>2. /\ proc[p].pc = "record" /\ Ends(p) /\ Sees(s, at)
      /\ UNCHANGED <<inside, kept, features, marker, used, topic, begun, late, marked>>
  BY <1>0 DEF WriteRecord, At, past
<1>3. s \in Sids /\ at \in Places /\ Starts(p, s)
  BY <1>0, <1>2 DEF Starts
<1>4. r \in Records /\ (r \in Names => r = at) /\ r \in {"absent", "bare"} \cup Records
  BY <1>1, <1>3, SessionsAssumption DEF Records, Names, Places
<1>5. /\ s \in used /\ \A q \in Procs \ {p} : ~Starts(q, s)
      /\ \A x \in Places : ~Recorded(s, x)
      /\ \A x \in Places \ {at} : view[s][x] = "absent"
      /\ \A q \in Procs : proc[q].sid = s =>
           /\ proc[q].pc \notin Converting
           /\ proc[q].pc = "connect" => proc[q].place = at
      /\ \A n \in Names : s \notin marked[n]
  BY <1>0, <1>3 DEF IInv, StartIsNew
<1>6. Proceeds(p, Idle) /\ TypeOK
  BY <1>2, EndsNow DEF IInv
<1>7. /\ proc'[p] = Idle /\ \A q \in Procs \ {p} : proc'[q] = proc[q]
  BY <1>6 DEF Proceeds
<1>8. Fits(Idle) /\ Idle.pc = "idle" /\ Idle.sid \notin Sids
  BY IdleFits, IdleIsCommand
<1>9. /\ view' \in [Sids -> [Places -> {"absent", "bare"} \cup Records]]
      /\ \A t \in Sids, x \in Places :
           view'[t][x] = IF t = s /\ x = at THEN r ELSE view[t][x]
  BY <1>1, <1>3, <1>4, <1>6 DEF SetView, TypeOK
<1>10. "absent" \notin Records
  BY SessionsAssumption DEF Records, Names
<1>11. TypeOK' /\ DocsNamed'
  <2>1. \A t \in Sids, x \in Places : inside[t][x] # None => view'[t][x] # "absent"
    BY <1>4, <1>6, <1>9, <1>10 DEF TypeOK
  <2> QED
    BY <1>2, <1>6, <1>9, <2>1 DEF IInv, TypeOK, DocsNamed, Proceeds
<1>12. ArgsGiven'
  <2>1. \A q \in Procs : ArgsOf(proc[q]) => ArgsOf(proc[q])'
    BY <1>2, <1>7, <1>8 DEF ArgsOf, Converting
  <2> QED
    BY <2>1 DEF IInv, ArgsGiven
<1>13. \A t \in Sids, x \in Places :
         /\ t # s => (Recorded(t, x)' <=> Recorded(t, x))
         /\ Recorded(s, x)' => x = at
  BY <1>5, <1>9 DEF Recorded
<1>14. OneHome'
  <2>1. \A t \in Sids, x, y \in Places : Recorded(t, x)' /\ Recorded(t, y)' => x = y
    BY <1>13 DEF IInv, OneHome
  <2>2. \A t \in Sids, x \in Places : view'[t][x] \in Names => view'[t][x] = x
    BY <1>4, <1>9 DEF IInv, OneHome
  <2> QED
    BY <2>1, <2>2 DEF OneHome
<1>15. UnusedIsNowhere'
  BY <1>2, <1>5, <1>7, <1>8, <1>9 DEF IInv, UnusedIsNowhere
<1>16. \A q \in Procs, t \in Sids : Starts(q, t)' => Starts(q, t) /\ q # p /\ t # s
  BY <1>5, <1>7, <1>8 DEF Starts
<1>17. StartIsNew'
  <2> SUFFICES ASSUME NEW t \in Sids, NEW q \in Procs, Starts(q, t)'
               PROVE  /\ t \in used'
                      /\ \A o \in Procs \ {q} : ~Starts(o, t)'
                      /\ \A x \in Places : ~Recorded(t, x)'
                      /\ \A x \in Places \ {proc'[q].place} : view'[t][x] = "absent"
                      /\ proc'[q].pc = "view" => /\ view'[t][proc'[q].place] = "absent"
                                                 /\ \A o \in Procs \ {q} : proc'[o].sid # t
                      /\ \A o \in Procs : proc'[o].sid = t =>
                           /\ proc'[o].pc \notin Converting
                           /\ proc'[o].pc = "connect" => proc'[o].place = proc'[q].place
                      /\ \A n \in Names : t \notin marked'[n]
    BY DEF StartIsNew
  <2>1. Starts(q, t) /\ q # p /\ t # s /\ proc'[q] = proc[q] /\ proc[q].place \in Places
    BY <1>7, <1>16 DEF IInv, ArgsGiven, ArgsOf, Starts
  <2>2. \A o \in Procs \ {q} : ~Starts(o, t)'
    BY <1>16, <2>1 DEF IInv, StartIsNew
  <2>3. \A x \in Places : ~Recorded(t, x)'
    BY <1>13, <2>1 DEF IInv, StartIsNew
  <2>4. \A x \in Places : view'[t][x] = view[t][x]
    BY <1>9, <2>1
  <2>5. proc'[q].pc = "view" => \A o \in Procs \ {q} : proc'[o].sid # t
    BY <1>7, <1>8, <2>1 DEF IInv, StartIsNew
  <2>6. \A o \in Procs : proc'[o].sid = t => proc'[o] = proc[o]
    BY <1>7, <1>8
  <2> QED
    BY <1>2, <2>1, <2>2, <2>3, <2>4, <2>5, <2>6 DEF IInv, StartIsNew
<1>18. UnmovedIsAlone'
  <2> SUFFICES ASSUME NEW t \in Sids, Recorded(t, "discovery")'
               PROVE  /\ \A n \in Names : view'[t][n] = "absent"
                      /\ \A q \in Procs : proc'[q].sid = t /\ proc'[q].pc = "connect"
                                           => proc'[q].place = "discovery"
    BY DEF UnmovedIsAlone
  <2>1. "discovery" \in Places /\ \A n \in Names : n \in Places /\ n # "discovery"
    BY SessionsAssumption DEF Places, Names
  <2> QED
    BY <1>5, <1>7, <1>8, <1>9, <1>13, <2>1 DEF IInv, UnmovedIsAlone
<1>19. MarkersMarked'
  BY <1>2, <1>7, <1>8 DEF IInv, MarkersMarked, Converting
<1>20. \A t \in Sids \ {s} : Settled(t)' <=> Settled(t)
  BY <1>9 DEF Settled
<1>21. BoundIsSettled'
  <2>1. \A q \in Procs : proc'[q].pc \in {"updated", "rematerialize", "clear"} =>
          proc'[q] = proc[q] /\ proc[q].sid \in Sids \ {s}
    BY <1>5, <1>7, <1>8 DEF IInv, ArgsGiven, ArgsOf, Converting
  <2>2. \A n \in Names : marker[n] # None => marker[n].sid \in Sids \ {s}
    BY <1>5 DEF IInv, MarkersMarked, TypeOK, Markers
  <2> QED
    BY <1>2, <1>20, <2>1, <2>2 DEF IInv, BoundIsSettled
<1>22. MarkerStays'
  BY <1>2, <1>5, <1>20 DEF IInv, MarkerStays, OnlyConversion
<1>23. PrunesTheDead'
  <2> SUFFICES ASSUME NEW q \in Procs, NEW t \in Sids,
                      proc'[q].pc \in {"rescue", "rescueTo", "remove"}, proc'[q].sid = t,
                      proc'[q].prunes, ~proc'[q].starting
               PROVE  /\ ~Recorded(t, proc[q].place)'
                      /\ proc'[q].place \in Names => ~Recorded(t, "discovery")'
                      /\ \A o \in Procs : ~Starts(o, t)'
    BY DEF PrunesTheDead
  <2>1. proc'[q] = proc[q] /\ proc[q].place \in Places /\ "discovery" \in Places
    BY <1>7, <1>8 DEF IInv, ArgsGiven, ArgsOf, Places
  <2>2. /\ ~Recorded(t, proc[q].place)
        /\ proc[q].place \in Names => ~Recorded(t, "discovery")
        /\ \A o \in Procs : ~Starts(o, t)
    BY <2>1 DEF IInv, PrunesTheDead
  <2>3. t # s
    BY <1>3, <2>2
  <2> QED
    BY <1>13, <1>16, <2>1, <2>2, <2>3
<1> QED
  BY <1>11, <1>12, <1>14, <1>15, <1>17, <1>18, <1>19, <1>21, <1>22, <1>23 DEF IInv

-----------------------------------------------------------------------------
(* convert: the marker.                                                    *)

(* A convert's step, its record and marker aside: what the invariant says  *)
(* of who does what.                                                       *)
LEMMA ConvertStepKeeps ==
  ASSUME IInv, NEW p \in Procs, NEW s \in Sids, NEW n \in Names, NEW new \in Commands,
         s = proc[p].sid, n = proc[p].name,
         Proceeds(p, new), proc[p].pc \in Converting, new.pc \in Converting,
         new.sid = s, new.name = n, UNCHANGED <<used, topic>>,
         \A m \in Names : marked'[m] = marked[m] \/ (m = n /\ marked'[m] = marked[m] \cup {s}),
         \A t \in Sids \ {s}, at \in Places : view'[t][at] = view[t][at]
  PROVE  /\ ArgsGiven' /\ UnusedIsNowhere' /\ StartIsNew'
         /\ s \in used /\ \A q \in Procs : ~Starts(q, s)
         /\ \A q \in Procs, t \in Sids : Starts(q, t)' <=> Starts(q, t)
<1>1. Fits(proc[p])
  BY AllFit
<1>2. s \in used /\ \A q \in Procs : ~Starts(q, s)
  BY <1>1, SessionsAssumption DEF Fits
<1>3. /\ proc'[p] = new /\ \A q \in Procs \ {p} : proc'[q] = proc[q]
  BY DEF Proceeds
<1>4. \A q \in Procs, t \in Sids : Starts(q, t)' <=> Starts(q, t)
  BY <1>3 DEF Starts, Converting
<1>5. ArgsGiven'
  <2>1. \A r \in Commands : ArgsOf(r) => ArgsOf(r)'
    BY DEF ArgsOf
  <2>2. ArgsOf(new)
    BY DEF ArgsOf, Converting
  <2> QED
    BY <1>3, <2>1, <2>2 DEF ArgsGiven, IInv, TypeOK
<1>6. UnusedIsNowhere'
  BY <1>2, <1>3 DEF IInv, UnusedIsNowhere
<1>7. StartIsNew'
  <2> SUFFICES ASSUME NEW t \in Sids, NEW q \in Procs, Starts(q, t)'
               PROVE  /\ t \in used'
                      /\ \A o \in Procs \ {q} : ~Starts(o, t)'
                      /\ \A x \in Places : ~Recorded(t, x)'
                      /\ \A x \in Places \ {proc'[q].place} : view'[t][x] = "absent"
                      /\ proc'[q].pc = "view" => /\ view'[t][proc'[q].place] = "absent"
                                                 /\ \A o \in Procs \ {q} : proc'[o].sid # t
                      /\ \A o \in Procs : proc'[o].sid = t =>
                           /\ proc'[o].pc \notin Converting
                           /\ proc'[o].pc = "connect" => proc'[o].place = proc'[q].place
                      /\ \A m \in Names : t \notin marked'[m]
    BY DEF StartIsNew
  <2>1. Starts(q, t) /\ t # s /\ q # p /\ proc'[q] = proc[q] /\ proc[q].place \in Places
    BY <1>2, <1>3, <1>4 DEF IInv, ArgsGiven, ArgsOf, Starts
  <2>2. \A x \in Places : view'[t][x] = view[t][x]
    BY <2>1
  <2>3. \A x \in Places : ~Recorded(t, x)'
    BY <2>1, <2>2 DEF IInv, StartIsNew, Recorded
  <2>4. \A o \in Procs \ {q} : ~Starts(o, t)'
    BY <1>4, <2>1 DEF IInv, StartIsNew
  <2>5. \A o \in Procs : proc'[o].sid = t => proc'[o] = proc[o]
    BY <1>3, <2>1
  <2>6. \A m \in Names : t \notin marked'[m]
    BY <2>1 DEF IInv, StartIsNew
  <2> QED
    BY <2>1, <2>2, <2>3, <2>4, <2>5, <2>6 DEF IInv, StartIsNew
<1> QED
  BY <1>2, <1>4, <1>5, <1>6, <1>7

(* The marker is written: the session is one of its feature's.             *)
LEMMA WriteMarkerInv ==
  ASSUME IInv, NEW p \in Procs,
         NEW at \in {"mark", "lifted", "moved", "updated"}, NEW step \in Steps,
         step = "rematerialize" <=> at = "updated", WriteMarker(p, at, step)
  PROVE  IInv'
<1>0. PICK s \in Sids, n \in Names : s = proc[p].sid /\ n = proc[p].name
  BY DEF WriteMarker, At, IInv, ArgsGiven, ArgsOf, Converting
<1>1. /\ proc[p].pc = at /\ Goes(p, step)
      /\ marker' = [marker EXCEPT ![n] = [sid |-> s, step |-> step]]
      /\ marked' = [marked EXCEPT ![n] = @ \cup {s}]
      /\ UNCHANGED <<view, inside, kept, features, used, topic, begun, late>>
  BY <1>0 DEF WriteMarker, At
<1>2. at \in Converting \ {"target"} /\ step \in Converting \ {"target", "mark"} /\ step \in Pcs
  BY DEF Converting, Steps, Pcs
<1> DEFINE new == [proc[p] EXCEPT !.pc = step]
<1>3. new \in Commands /\ new.pc = step /\ new.sid = s /\ new.name = n /\ new.doc = proc[p].doc
  BY <1>0, <1>2, GoesOnAs DEF IInv
<1>4. Proceeds(p, new)
  BY <1>1, <1>2, GoesOn DEF IInv
<1> HIDE DEF new
<1>5. n \in features /\ (at = "updated" => Settled(s))
  BY <1>0, <1>1, <1>2 DEF IInv, MarkersMarked, BoundIsSettled
<1>6. /\ marked' \in [Names -> SUBSET Sids]
      /\ \A m \in Names : marked'[m] = IF m = n THEN marked[m] \cup {s} ELSE marked[m]
  BY <1>1 DEF IInv, TypeOK
<1>7. /\ marker' \in [Names -> Markers \cup {None}]
      /\ \A m \in Names : marker'[m] = IF m = n THEN [sid |-> s, step |-> step] ELSE marker[m]
  BY <1>1 DEF IInv, TypeOK, Markers
<1>8. TypeOK' /\ DocsNamed'
  BY <1>1, <1>4, <1>6, <1>7 DEF IInv, TypeOK, DocsNamed, Proceeds
<1>9. /\ proc'[p] = new /\ \A q \in Procs \ {p} : proc'[q] = proc[q]
  BY <1>4 DEF Proceeds
<1>10. /\ ArgsGiven' /\ UnusedIsNowhere' /\ StartIsNew'
       /\ \A q \in Procs, t \in Sids : Starts(q, t)' <=> Starts(q, t)
  BY <1>0, <1>1, <1>2, <1>3, <1>4, <1>6, ConvertStepKeeps
<1>11. OneHome' /\ UnmovedIsAlone'
  BY <1>1, <1>2, <1>3, <1>9 DEF IInv, OneHome, UnmovedIsAlone, Recorded, Converting
<1>12. MarkersMarked'
  <2>1. \A m \in Names : marker'[m] # None => marker'[m].sid \in marked'[m] /\ m \in features'
    BY <1>1, <1>5, <1>6, <1>7 DEF IInv, MarkersMarked
  <2>2. \A q \in Procs :
          /\ proc'[q].pc \in Converting \ {"target"} => proc'[q].name \in features'
          /\ proc'[q].pc \in Converting \ {"target", "mark"} => proc'[q].sid \in marked'[proc[q].name]
    <3>1. n \in features' /\ s \in marked'[n]
      BY <1>1, <1>5, <1>6
    <3>2. \A q \in Procs \ {p} : proc'[q].pc \in Converting => proc[q].name \in Names
      BY <1>9 DEF IInv, ArgsGiven, ArgsOf
    <3> QED
      BY <1>0, <1>1, <1>3, <1>6, <1>9, <3>1, <3>2 DEF IInv, MarkersMarked
  <2>3. \A q \in Procs : proc'[q].name = proc[q].name
    BY <1>0, <1>3, <1>9
  <2> QED
    BY <2>1, <2>2, <2>3 DEF MarkersMarked
<1>13. \A t \in Sids : Settled(t)' <=> Settled(t)
  BY <1>1 DEF Settled
<1>14. BoundIsSettled'
  <2>1. \A q \in Procs : proc'[q].pc \in {"updated", "rematerialize", "clear"} =>
          proc'[q].sid \in Sids /\ Settled(proc'[q].sid)
    BY <1>1, <1>3, <1>5, <1>9 DEF IInv, BoundIsSettled, ArgsGiven, ArgsOf, Converting, Steps
  <2>2. \A m \in Names : marker'[m] # None /\ marker'[m].step = "rematerialize" =>
          marker'[m].sid \in Sids /\ Settled(marker'[m].sid)
    BY <1>5, <1>7 DEF IInv, BoundIsSettled, TypeOK, Markers
  <2> QED
    BY <1>13, <2>1, <2>2 DEF BoundIsSettled
<1>15. MarkerStays'
  <2> SUFFICES ASSUME NEW t \in Sids, NEW m \in Names, OnlyConversion(t, m)', ~Settled(t)'
               PROVE  marker'[m] # None
    BY DEF MarkerStays
  <2>1. CASE m = n
    BY <1>7, <1>2, <2>1, NoMarkerAssumption DEF Markers
  <2>2. CASE m # n
    <3>1. OnlyConversion(t, m)
      BY <1>6, <2>2 DEF OnlyConversion
    <3> QED
      BY <1>7, <1>13, <2>2, <3>1 DEF IInv, MarkerStays
  <2> QED
    BY <2>1, <2>2
<1>16. PrunesTheDead'
  <2> SUFFICES ASSUME NEW q \in Procs, NEW t \in Sids,
                      proc'[q].pc \in {"rescue", "rescueTo", "remove"}, proc'[q].sid = t,
                      proc'[q].prunes, ~proc'[q].starting
               PROVE  /\ ~Recorded(t, proc[q].place)'
                      /\ proc'[q].place \in Names => ~Recorded(t, "discovery")'
                      /\ \A o \in Procs : ~Starts(o, t)'
    BY DEF PrunesTheDead
  <2>1. proc'[q] = proc[q]
    BY <1>2, <1>3, <1>9 DEF Converting
  <2> QED
    BY <1>1, <1>10, <2>1 DEF IInv, PrunesTheDead, Recorded
<1> QED
  BY <1>8, <1>10, <1>11, <1>12, <1>14, <1>15, <1>16 DEF IInv

-----------------------------------------------------------------------------
(* convert: the move and the binding.                                      *)

(* A discovery record is not bound: a session moves as it is.              *)
LEMMA DiscoveryIsUnbound ==
  ASSUME IInv, NEW s \in Sids
  PROVE  view[s]["discovery"] \notin Names
BY SessionsAssumption DEF IInv, OneHome, Places, Names

(* move_session renames the View Dir.                                      *)
LEMMA MoveSessionInv ==
  ASSUME IInv, NEW p \in Procs, MoveSession(p)
  PROVE  IInv'
<1>0. PICK s \in Sids, n \in Names : s = proc[p].sid /\ n = proc[p].name
  BY DEF MoveSession, At, IInv, ArgsGiven, ArgsOf, Converting
<1>1. /\ proc[p].pc = "move" /\ Goes(p, "moved")
      /\ UNCHANGED <<kept, features, marker, used, topic, begun, late, marked>>
      /\ \/ /\ Sees(s, "discovery") /\ ~Sees(s, n)
            /\ view' = [view EXCEPT ![s]["discovery"] = "absent", ![s][n] = view[s]["discovery"]]
            /\ inside' = [inside EXCEPT ![s]["discovery"] = None, ![s][n] = inside[s]["discovery"]]
         \/ UNCHANGED <<view, inside>>
  BY <1>0 DEF MoveSession, At, past
<1>2. s \in marked[n] /\ n \in features
  BY <1>0, <1>1 DEF IInv, MarkersMarked, Converting
<1>3. PICK new \in Commands : /\ Proceeds(p, new) /\ Fits(new)
                              /\ new.pc = "moved" /\ new.sid = s /\ new.name = n
  <2>1. /\ proc[p].pc \in Converting /\ "moved" \in Converting
        /\ "moved" \notin {"updated", "rematerialize", "clear"}
        /\ proc[p].sid \in marked[proc[p].name]
    BY <1>0, <1>1, <1>2 DEF Converting
  <2>2. \E new \in Commands :
          /\ Proceeds(p, new) /\ Fits(new)
          /\ new.pc = "moved" /\ new.sid = proc[p].sid /\ new.name = proc[p].name
    BY <1>1, <2>1, ConvertGoesOn
  <2> QED
    BY <1>0, <2>2
<1>4. CASE UNCHANGED <<view, inside>>
  <2>1. UNCHANGED disk /\ begun' \in 0 .. MaxBegun
    BY <1>1, <1>4 DEF disk, IInv, TypeOK
  <2> QED
    BY <1>0, <1>1, <1>2, <1>3, <2>1, LookingStep
<1>5. CASE /\ Sees(s, "discovery") /\ ~Sees(s, n)
           /\ view' = [view EXCEPT ![s]["discovery"] = "absent", ![s][n] = view[s]["discovery"]]
           /\ inside' = [inside EXCEPT ![s]["discovery"] = None, ![s][n] = inside[s]["discovery"]]
  <2>1. "discovery" \in Places /\ "discovery" \notin Names /\ n \in Places /\ TypeOK
    BY SessionsAssumption DEF Places, Names, IInv
  <2>2. /\ view' \in [Sids -> [Places -> {"absent", "bare"} \cup Records]]
        /\ \A t \in Sids, x \in Places :
             view'[t][x] = IF t = s /\ x = n THEN view[s]["discovery"]
                           ELSE IF t = s /\ x = "discovery" THEN "absent" ELSE view[t][x]
    BY <1>5, <2>1 DEF TypeOK
  <2>3. /\ inside' \in [Sids -> [Places -> Docs \cup {None}]]
        /\ \A t \in Sids, x \in Places :
             inside'[t][x] = IF t = s /\ x = n THEN inside[s]["discovery"]
                             ELSE IF t = s /\ x = "discovery" THEN None ELSE inside[t][x]
    BY <1>5, <2>1 DEF TypeOK
  <2>4. \A t \in Sids, x \in Places : inside'[t][x] # None => view'[t][x] # "absent"
    <3>1. view'[s][n] # "absent" /\ inside'[s]["discovery"] = None
      BY <1>5, <2>1, <2>2, <2>3 DEF Sees
    <3>2. \A t \in Sids, x \in Places : ~(t = s /\ x \in {n, "discovery"}) =>
            inside'[t][x] = inside[t][x] /\ view'[t][x] = view[t][x]
      BY <2>2, <2>3
    <3>3. \A t \in Sids, x \in Places : inside[t][x] # None => view[t][x] # "absent"
      BY <2>1 DEF TypeOK
    <3> QED
      BY <3>1, <3>2, <3>3
  <2>a. DocsNamed'
    <3>1. \A t \in Sids, x \in Places : \/ inside'[t][x] = None
                                         \/ inside'[t][x] = inside[s]["discovery"]
                                         \/ inside'[t][x] = inside[t][x]
      BY <2>3
    <3> QED
      BY <1>1, <2>1, <3>1 DEF IInv, DocsNamed
  <2>5. TypeOK' /\ DocsNamed'
    BY <1>1, <1>3, <2>1, <2>2, <2>3, <2>4, <2>a DEF TypeOK, Proceeds
  <2>6. /\ ArgsGiven' /\ UnusedIsNowhere' /\ StartIsNew'
        /\ s \in used /\ \A q \in Procs : ~Starts(q, s)
        /\ \A q \in Procs, t \in Sids : Starts(q, t)' <=> Starts(q, t)
    BY <1>0, <1>1, <1>3, <2>2, ConvertStepKeeps DEF Converting
  <2>7. /\ proc'[p] = new /\ \A q \in Procs \ {p} : proc'[q] = proc[q]
    BY <1>3 DEF Proceeds
  <2>8. "absent" \notin Records
    BY SessionsAssumption DEF Records, Names
  <2>9. /\ \A t \in Sids \ {s}, x \in Places : Recorded(t, x)' <=> Recorded(t, x)
        /\ \A x \in Places : Recorded(s, x)' =>
             /\ x # "discovery"
             /\ x # n => Recorded(s, x) /\ ~Recorded(s, "discovery")
             /\ x = n => Recorded(s, "discovery")
    BY <2>1, <2>2, <2>8 DEF Recorded, IInv, UnmovedIsAlone, Places
  <2>10. OneHome'
    <3>1. \A x \in Places : view'[s][x] \in Names => view'[s][x] = x
      BY <2>1, <2>2, DiscoveryIsUnbound, SessionsAssumption DEF IInv, OneHome, Names
    <3>2. \A t \in Sids \ {s}, x \in Places : view'[t][x] = view[t][x]
      BY <2>2
    <3>3. \A t \in Sids, x \in Places : view'[t][x] \in Names => view'[t][x] = x
      BY <3>1, <3>2 DEF IInv, OneHome
    <3>4. \A t \in Sids, x, y \in Places : Recorded(t, x)' /\ Recorded(t, y)' => x = y
      BY <2>1, <2>9 DEF IInv, OneHome
    <3> QED
      BY <3>3, <3>4 DEF OneHome
  <2>11. UnmovedIsAlone'
    <3> SUFFICES ASSUME NEW t \in Sids, Recorded(t, "discovery")'
                 PROVE  /\ \A m \in Names : view'[t][m] = "absent"
                        /\ \A q \in Procs : proc'[q].sid = t /\ proc'[q].pc = "connect"
                                             => proc'[q].place = "discovery"
      BY DEF UnmovedIsAlone
    <3>1. t # s /\ Recorded(t, "discovery")
      BY <2>1, <2>9
    <3>2. \A m \in Names : m \in Places
      BY DEF Places
    <3> QED
      BY <1>3, <2>2, <2>7, <3>1, <3>2 DEF IInv, UnmovedIsAlone
  <2>12. MarkersMarked'
    BY <1>1, <1>2, <1>3, <2>7 DEF IInv, MarkersMarked, Converting
  <2>13. \A t \in Sids : Settled(t)' <=> Settled(t)
    <3>1. \A t \in Sids \ {s} : Settled(t)' <=> Settled(t)
      BY <2>2 DEF Settled
    <3>2. Settled(s)' <=> Settled(s)
      BY <1>5, <2>1, <2>2 DEF Settled, Sees
    <3> QED
      BY <3>1, <3>2
  <2>14. BoundIsSettled'
    <3>1. \A q \in Procs : proc'[q].pc \in {"updated", "rematerialize", "clear"} =>
            proc'[q].sid \in Sids /\ Settled(proc'[q].sid)
      BY <1>3, <2>7 DEF IInv, BoundIsSettled, ArgsGiven, ArgsOf, Converting
    <3>2. \A m \in Names : marker'[m] # None /\ marker'[m].step = "rematerialize" =>
            marker'[m].sid \in Sids /\ Settled(marker'[m].sid)
      BY <1>1 DEF IInv, BoundIsSettled, TypeOK, Markers
    <3> QED
      BY <2>13, <3>1, <3>2 DEF BoundIsSettled
  <2>15. MarkerStays'
    BY <1>1, <2>13 DEF IInv, MarkerStays, OnlyConversion
  <2>16. PrunesTheDead'
    <3> SUFFICES ASSUME NEW q \in Procs, NEW t \in Sids,
                        proc'[q].pc \in {"rescue", "rescueTo", "remove"}, proc'[q].sid = t,
                        proc'[q].prunes, ~proc'[q].starting
                 PROVE  /\ ~Recorded(t, proc[q].place)'
                        /\ proc'[q].place \in Names => ~Recorded(t, "discovery")'
                        /\ \A o \in Procs : ~Starts(o, t)'
      BY DEF PrunesTheDead
    <3>1. proc'[q] = proc[q] /\ proc[q].place \in Places
      BY <1>3, <2>7 DEF IInv, ArgsGiven, ArgsOf
    <3>2. /\ ~Recorded(t, proc[q].place)
          /\ proc[q].place \in Names => ~Recorded(t, "discovery")
          /\ \A o \in Procs : ~Starts(o, t)
      BY <3>1 DEF IInv, PrunesTheDead
    <3> QED
      BY <2>1, <2>6, <2>9, <3>1, <3>2
  <2> QED
    BY <2>5, <2>6, <2>10, <2>11, <2>12, <2>14, <2>15, <2>16 DEF IInv
<1> QED
  BY <1>1, <1>4, <1>5

(* update_state binds the record to its feature.                           *)
LEMMA UpdateStateInv ==
  ASSUME IInv, NEW p \in Procs, UpdateState(p)
  PROVE  IInv'
<1>0. PICK s \in Sids, n \in Names : s = proc[p].sid /\ n = proc[p].name
  BY DEF UpdateState, At, IInv, ArgsGiven, ArgsOf, Converting
<1>1. /\ proc[p].pc = "update" /\ Goes(p, "updated") /\ Recorded(s, n)
      /\ SetView(s, n, IF view[s][n] = "unbound" THEN n ELSE view[s][n])
      /\ UNCHANGED <<inside, kept, features, marker, used, topic, begun, late, marked>>
  BY <1>0 DEF UpdateState, At, past
<1>2. s \in marked[n] /\ n \in features
  BY <1>0, <1>1 DEF IInv, MarkersMarked, Converting
<1>3. "discovery" \notin Names /\ n \in Places /\ TypeOK
  BY SessionsAssumption DEF Places, Names, IInv
<1>4. view[s][n] \in {"unbound", n}
  BY <1>1, <1>3 DEF IInv, OneHome, Recorded, Records
<1>5. SetView(s, n, n) /\ n \in {"absent", "bare"} \cup Records
  BY <1>1, <1>4 DEF Records
<1>6. /\ view' \in [Sids -> [Places -> {"absent", "bare"} \cup Records]]
      /\ \A t \in Sids, x \in Places :
           view'[t][x] = IF t = s /\ x = n THEN n ELSE view[t][x]
  BY <1>3, <1>5 DEF SetView, TypeOK
<1> DEFINE new == [proc[p] EXCEPT !.pc = "updated"]
<1>7. "updated" \in Pcs
  BY DEF Pcs
<1>8. new \in Commands /\ new.pc = "updated" /\ new.sid = s /\ new.name = n
  BY <1>0, <1>7, GoesOnAs DEF IInv
<1>9. Proceeds(p, new)
  BY <1>1, <1>7, GoesOn DEF IInv
<1> HIDE DEF new
<1>10. /\ proc'[p] = new /\ \A q \in Procs \ {p} : proc'[q] = proc[q]
  BY <1>9 DEF Proceeds
<1>11. n # "absent" /\ n # "unbound" /\ n \in Records
  BY SessionsAssumption DEF Names, Records
<1>12. TypeOK' /\ DocsNamed'
  <2>1. \A t \in Sids, x \in Places : inside[t][x] # None => view'[t][x] # "absent"
    BY <1>3, <1>6, <1>11 DEF TypeOK
  <2> QED
    BY <1>1, <1>6, <1>9, <2>1 DEF IInv, TypeOK, DocsNamed, Proceeds
<1>13. /\ ArgsGiven' /\ UnusedIsNowhere' /\ StartIsNew'
       /\ s \in used /\ \A q \in Procs : ~Starts(q, s)
       /\ \A q \in Procs, t \in Sids : Starts(q, t)' <=> Starts(q, t)
  BY <1>0, <1>1, <1>6, <1>8, <1>9, ConvertStepKeeps DEF Converting
<1>14. /\ \A t \in Sids, x \in Places : Recorded(t, x)' <=> Recorded(t, x)
       /\ \A t \in Sids, x \in Places : view[t][x] = "absent" => view'[t][x] = "absent"
  BY <1>1, <1>6, <1>11, SessionsAssumption DEF Recorded, Records, Names
<1>15. OneHome'
  <2>1. \A t \in Sids, x \in Places : view'[t][x] \in Names => view'[t][x] = x
    BY <1>6 DEF IInv, OneHome
  <2> QED
    BY <1>14, <2>1 DEF IInv, OneHome
<1>16. UnmovedIsAlone'
  <2>1. "discovery" \in Places /\ \A m \in Names : m \in Places
    BY DEF Places
  <2> QED
    BY <1>8, <1>10, <1>14, <2>1 DEF IInv, UnmovedIsAlone
<1>17. MarkersMarked'
  BY <1>1, <1>2, <1>8, <1>10 DEF IInv, MarkersMarked, Converting
<1>18. Settled(s)' /\ \A t \in Sids \ {s} : Settled(t)' <=> Settled(t)
  <2>1. \A x \in Places \ {n} : ~Recorded(s, x)
    BY <1>1, <1>3 DEF IInv, OneHome
  <2>2. \A x \in Places \ {n} : view[s][x] # "unbound"
    BY <2>1 DEF Recorded, Records
  <2>3. Settled(s)'
    BY <1>6, <1>11, <2>2 DEF Settled
  <2> QED
    BY <1>6, <2>3 DEF Settled
<1>19. BoundIsSettled'
  <2>1. \A q \in Procs \ {p} : proc'[q].pc \in {"updated", "rematerialize", "clear"} =>
          proc'[q].sid \in Sids /\ Settled(proc'[q].sid)
    BY <1>10 DEF IInv, BoundIsSettled, ArgsGiven, ArgsOf, Converting
  <2>2. \A m \in Names : marker'[m] # None /\ marker'[m].step = "rematerialize" =>
          marker'[m].sid \in Sids /\ Settled(marker'[m].sid)
    BY <1>1 DEF IInv, BoundIsSettled, TypeOK, Markers
  <2>3. proc'[p].sid = s
    BY <1>8, <1>10
  <2> QED
    BY <1>18, <2>1, <2>2, <2>3 DEF BoundIsSettled
<1>20. MarkerStays'
  BY <1>1, <1>18 DEF IInv, MarkerStays, OnlyConversion
<1>21. PrunesTheDead'
  <2> SUFFICES ASSUME NEW q \in Procs, NEW t \in Sids,
                      proc'[q].pc \in {"rescue", "rescueTo", "remove"}, proc'[q].sid = t,
                      proc'[q].prunes, ~proc'[q].starting
               PROVE  /\ ~Recorded(t, proc[q].place)'
                      /\ proc'[q].place \in Names => ~Recorded(t, "discovery")'
                      /\ \A o \in Procs : ~Starts(o, t)'
    BY DEF PrunesTheDead
  <2>1. proc'[q] = proc[q] /\ proc[q].place \in Places /\ "discovery" \in Places
    BY <1>8, <1>10 DEF IInv, ArgsGiven, ArgsOf, Places
  <2>2. /\ ~Recorded(t, proc[q].place)
        /\ proc[q].place \in Names => ~Recorded(t, "discovery")
        /\ \A o \in Procs : ~Starts(o, t)
    BY <2>1 DEF IInv, PrunesTheDead
  <2> QED
    BY <1>13, <1>14, <2>1, <2>2
<1> QED
  BY <1>12, <1>13, <1>15, <1>16, <1>17, <1>19, <1>20, <1>21 DEF IInv

-----------------------------------------------------------------------------
(* The invariant, and what follows from it.                                *)

(* The initial states: no session, no command.                             *)
LEMMA InitIInv == Init => IInv
<1> SUFFICES ASSUME Init
             PROVE  IInv
  OBVIOUS
<1>1. \A p \in Procs : proc[p] = Idle /\ Idle.pc = "idle" /\ Idle.sid = None /\ ~Idle.prunes
  BY IdleIsCommand DEF Init
<1>2. /\ \A s \in Sids, at \in Places : view[s][at] = "absent" /\ inside[s][at] = None
      /\ \A n \in Names : kept[n] = None /\ marker[n] = None /\ marked[n] = {}
  BY DEF Init
<1>3. TypeOK
  BY IdleIsCommand, SessionsAssumption DEF Init, TypeOK, Names
<1>4. ArgsGiven
  BY <1>1 DEF ArgsGiven, ArgsOf, Converting
<1>5. \A s \in Sids, at \in Places : ~Recorded(s, at) /\ view[s][at] \notin Names
  BY <1>2, SessionsAssumption DEF Recorded, Records, Names
<1>6. DocsNamed /\ OneHome /\ UnusedIsNowhere
  BY <1>1, <1>2, <1>5, SessionsAssumption DEF DocsNamed, OneHome, UnusedIsNowhere
<1>7. StartIsNew /\ PrunesTheDead
  BY <1>1 DEF StartIsNew, PrunesTheDead, Starts
<1>8. UnmovedIsAlone /\ MarkersMarked
  BY <1>1, <1>2, <1>5 DEF UnmovedIsAlone, MarkersMarked, Converting, Places
<1>9. BoundIsSettled /\ MarkerStays
  BY <1>1, <1>2 DEF BoundIsSettled, MarkerStays, OnlyConversion
<1> QED
  BY <1>3, <1>4, <1>6, <1>7, <1>8, <1>9 DEF IInv

(* A step in which nothing happens.                                        *)
LEMMA StutterIInv == IInv /\ UNCHANGED vars => IInv'
<1> SUFFICES ASSUME IInv, UNCHANGED vars
             PROVE  IInv'
  OBVIOUS
<1>1. TypeOK' /\ DocsNamed'
  BY DEF IInv, TypeOK, DocsNamed, vars
<1> QED
  BY <1>1, DocWritten DEF vars

(* Every step of a convert.                                                *)
LEMMA ConvertStepInv ==
  ASSUME IInv, NEW p \in Procs, ConvertStep(p)
  PROVE  IInv'
<1>1. CASE EnsureFeature(p)                 BY <1>1, EnsureFeatureInv
<1>2. CASE WriteMarker(p, "mark", "lift")   BY <1>2, WriteMarkerInv DEF Steps
<1>3. CASE LiftDiscovery(p)                 BY <1>3, LiftDiscoveryInv
<1>4. CASE WriteMarker(p, "lifted", "move") BY <1>4, WriteMarkerInv DEF Steps
<1>5. CASE MoveSession(p)                   BY <1>5, MoveSessionInv
<1>6. CASE WriteMarker(p, "moved", "update")  BY <1>6, WriteMarkerInv DEF Steps
<1>7. CASE UpdateState(p)                   BY <1>7, UpdateStateInv
<1>8. CASE WriteMarker(p, "updated", "rematerialize")
  BY <1>8, WriteMarkerInv DEF Steps
<1>9. CASE Rematerialize(p)                 BY <1>9, RematerializeInv
<1>10. CASE ClearMarker(p)                  BY <1>10, ClearMarkerInv
<1> QED
  BY <1>1, <1>2, <1>3, <1>4, <1>5, <1>6, <1>7, <1>8, <1>9, <1>10 DEF ConvertStep

(* Every step.                                                             *)
LEMMA NextIInv == IInv /\ [Next]_vars => IInv'
<1> SUFFICES ASSUME IInv, [Next]_vars
             PROVE  IInv'
  OBVIOUS
<1>1. ASSUME NEW p \in Procs, NEW s \in Sids, NEW at \in Places,
             Start(p, s, at) \/ ConnectFinds(p, s, at) \/ StopFinds(p, s, at) \/ PruneFinds(p, s, at)
      PROVE  IInv'
  BY <1>1, StartInv, ConnectFindsInv, StopFindsInv, PruneFindsInv
<1>2. ASSUME NEW p \in Procs, NEW s \in Sids, ConvertResolves(p, s) \/ AmendReads(p, s)
      PROVE  IInv'
  BY <1>2, ConvertResolvesInv, AmendReadsInv
<1>3. ASSUME NEW p \in Procs, NEW s \in Sids, NEW n \in Names, ConvertResumes(p, s, n)
      PROVE  IInv'
  BY <1>3, ConvertResumesInv
<1>4. ASSUME NEW p \in Procs, NEW n \in Names, AmendReadsKept(p, n)
      PROVE  IInv'
  BY <1>4, AmendReadsKeptInv
<1>5. ASSUME NEW p \in Procs, \/ MakeView(p) \/ WriteRecord(p) \/ ConnectMaterialises(p)
                              \/ MarkReads(p) \/ Rewrite(p) \/ Dies(p)
      PROVE  IInv'
  BY <1>5, MakeViewInv, WriteRecordInv, ConnectMaterialisesInv, MarkReadsInv, RewriteInv, DiesInv
<1>6. ASSUME NEW p \in Procs, ConvertStep(p) \/ EndStep(p)
      PROVE  IInv'
  BY <1>6, ConvertStepInv, RescueLooksInv, RescueMovesInv, RemoveViewInv DEF EndStep
<1>7. ASSUME NEW n \in Topics, CreateOutside(n) \/ \E s \in Sids : CreateInside(s, n)
      PROVE  IInv'
  BY <1>7, CreateOutsideInv, CreateInsideInv
<1>8. CASE UNCHANGED vars
  BY <1>8, StutterIInv
<1> QED
  BY <1>1, <1>2, <1>3, <1>4, <1>5, <1>6, <1>7, <1>8 DEF Next

(* The inductive invariant holds.                                          *)
THEOREM Inductive == Spec => []IInv
  BY InitIInv, NextIInv, PTL DEF Spec

(* Every session has one record, wherever the commands stopped, in the     *)
(* tree it is bound to.                                                    *)
THEOREM InvariantHolds == Spec => []SessionsInv
<1>1. IInv => SessionsInv
  BY DEF IInv, SessionsInv
<1> QED
  BY <1>1, Inductive, PTL

(* A session that was moved and not bound is one a marker names: a convert *)
(* resumes it.                                                             *)
THEOREM HalfMovedAreResumed == Spec => []HalfMovedResumes
<1>1. IInv => HalfMovedResumes
  <2> SUFFICES ASSUME IInv, NEW s \in Sids, NEW n \in Names, view[s][n] = "unbound",
                      OnlyConversion(s, n)
               PROVE  Pending(s) = {n} /\ n \in features
    BY DEF HalfMovedResumes
  <2>1. ~Settled(s)
    BY DEF Settled, Places
  <2>2. marker[n] # None /\ marker[n].sid \in marked[n] /\ n \in features
    BY <2>1 DEF IInv, MarkerStays, MarkersMarked
  <2>3. n \in Pending(s)
    BY <2>2 DEF OnlyConversion, Pending
  <2>4. \A m \in Pending(s) : m = n
    BY DEF IInv, MarkersMarked, OnlyConversion, Pending
  <2> QED
    BY <2>2, <2>3, <2>4
<1> QED
  BY <1>1, Inductive, PTL

(* prune removes a session with a record only if that was being started    *)
(* when prune looked at it.                                                *)
THEOREM PruneSpares == Spec => PruneSparesTheLiving
<1>1. IInv => \A p \in Procs, s \in Sids, at \in Places :
                At(p, "remove") /\ proc[p].prunes /\ proc[p].sid = s /\ proc[p].place = at
                /\ Recorded(s, at) => proc[p].starting
  BY DEF IInv, PrunesTheDead, At
<1> DEFINE Spares == \A p \in Procs, s \in Sids, at \in Places :
                       /\ At(p, "remove") /\ proc[p].prunes /\ proc[p].sid = s /\ proc[p].place = at
                       /\ Recorded(s, at) /\ view'[s][at] # view[s][at]
                       => proc[p].starting
<1>2. IInv /\ [Next]_vars => [Spares]_vars
  BY <1>1
<1>3. PruneSparesTheLiving <=> [][Spares]_vars
  BY DEF PruneSparesTheLiving
<1> HIDE DEF Spares
<1> QED
  BY <1>2, <1>3, Inductive, PTL DEF Spec

-----------------------------------------------------------------------------
(* The docs: what takes one's place has its name, and one nobody replaces  *)
(* is kept, or in a View Dir nobody takes away as it is.                   *)

(* What holds of one step of a doc's owners for as long as names stay.     *)
LEMMA OwnsStays ==
  ASSUME NEW n \in Names, NEW d, Owns(n, d), topic'[d] = topic[d] \/ topic[d] = None
  PROVE  Owns(n, d)'
<1>1. n # None
  BY SessionsAssumption DEF Names
<1> QED
  BY <1>1 DEF Owns

(* Two docs of one name are one doc, or namesakes.                         *)
LEMMA OwnersMeet ==
  ASSUME TypeOK, NEW n \in Names, NEW d \in Docs, NEW e \in Docs, Owns(n, d), Owns(n, e), d # e
  PROVE  Namesake(d)
<1>1. n # None
  BY SessionsAssumption DEF Names
<1>2. topic[d] \in Topics \cup {None} /\ topic[e] \in Topics \cup {None}
  BY DEF TypeOK
<1>3. n = topic[d] /\ n = topic[e]
  BY <1>1, <1>2, SessionsAssumption DEF Owns, Docs, Names
<1> QED
  BY <1>3 DEF Namesake

(* A command that goes on with docs where they belong, and markers.        *)
LEMMA DocsOwnedStep ==
  ASSUME DocsOwned, NEW p \in Procs, NEW new, Proceeds(p, new), OwnedBy(new), UNCHANGED topic,
         \A s \in Sids, at \in Places : inside'[s][at] \in {inside[s][at], None, s},
         \A n \in Names : kept'[n] = kept[n] \/ (kept'[n] # None /\ Owns(n, kept'[n])),
         \A n \in Names : marker'[n] \in {marker[n], None} \/ Owns(n, marker'[n].sid)
  PROVE  DocsOwned'
<1>1. \A s \in Sids, at \in Places : inside'[s][at] \in {s, None}
  BY DEF DocsOwned
<1>2. \A n \in Names : kept'[n] # None => Owns(n, kept[n])'
  BY DEF DocsOwned, Owns
<1>3. \A n \in Names : marker'[n] # None => Owns(n, marker[n].sid)'
  BY DEF DocsOwned, Owns
<1>4. \A q \in Procs : OwnedBy(proc'[q])
  BY DEF DocsOwned, Proceeds
<1>5. \A q \in Procs : OwnedBy(proc[q])'
  BY <1>4 DEF OwnedBy, Owns
<1> QED
  BY <1>1, <1>2, <1>3, <1>5 DEF DocsOwned

(* ... keeps the docs safe that were in a View Dir nobody would take, if   *)
(* those stay there or are kept.                                           *)
LEMMA DocsStep ==
  ASSUME IInv, IInv', DocsInv, NEW p \in Procs, NEW new, Proceeds(p, new), OwnedBy(new),
         UNCHANGED <<topic, late>>,
         \A s \in Sids, at \in Places : inside'[s][at] \in {inside[s][at], None, s},
         \A n \in Names : kept'[n] = kept[n] \/ (kept'[n] # None /\ Owns(n, kept'[n])),
         \A n \in Names : marker'[n] \in {marker[n], None} \/ Owns(n, marker'[n].sid),
         \A s \in Sids : inside[s]["discovery"] = s /\ ~Threatened(s) =>
           \/ IsKept(s)'
           \/ inside'[s]["discovery"] = s /\ ~Threatened(s)'
  PROVE  DocsInv'
<1>1. DocsOwned'
  BY DocsOwnedStep DEF DocsInv
<1>2. \A n \in Names : kept'[n] \in Docs \cup {None}
  BY DEF IInv, TypeOK
<1>3. ASSUME NEW d \in Docs, topic'[d] # None, ~Namesake(d)', d \notin late'
      PROVE  \/ IsKept(d)'
             \/ d \in Sids /\ inside'[d]["discovery"] = d /\ ~Threatened(d)'
  <2>1. ~Namesake(d)
    BY <1>3 DEF Namesake
  <2>2. CASE IsKept(d)
    <3>1. PICK n \in Names : kept[n] = d
      BY <2>2 DEF IsKept
    <3>2. d # None
      BY SessionsAssumption DEF Docs
    <3>3. Owns(n, d) /\ kept'[n] \in Docs /\ (kept'[n] = d \/ Owns(n, kept'[n]))
      BY <1>2, <3>1, <3>2 DEF DocsInv, DocsOwned
    <3>4. kept'[n] = d
      BY <2>1, <3>3, OwnersMeet DEF IInv
    <3> QED
      BY <3>4 DEF IsKept
  <2>3. CASE d \in Sids /\ inside[d]["discovery"] = d /\ ~Threatened(d)
    BY <2>3
  <2> QED
    BY <1>3, <2>1, <2>2, <2>3 DEF DocsInv, DocsSafe
<1> QED
  BY <1>1, <1>3 DEF DocsInv, DocsSafe

(* A View Dir nobody threatened is threatened only by this step.           *)
LEMMA NoNewThreat ==
  ASSUME NEW p \in Procs, NEW new, Proceeds(p, new), NEW s \in Sids, ~Threatened(s),
         new.sid = s => ~Threatens(new),
         \A n \in Names : \/ marker'[n] \in {marker[n], None}
                          \/ marker'[n].sid # s \/ marker'[n].step # "move"
  PROVE  ~Threatened(s)'
<1>1. \A q \in Procs : ~(proc'[q].sid = s /\ Threatens(proc'[q]))
  BY DEF Threatened, Proceeds
<1>2. \A q \in Procs : ~(proc'[q].sid = s /\ Threatens(proc[q])')
  BY <1>1 DEF Threatens
<1>3. \A n \in Names : ~(marker'[n] # None /\ marker'[n].sid = s /\ marker'[n].step = "move")
  BY DEF Threatened
<1> QED
  BY <1>2, <1>3 DEF Threatened

(* A step that moves no doc and sets no marker.                            *)
LEMMA DocsRest ==
  ASSUME IInv, IInv', DocsInv, NEW p \in Procs, NEW new, Proceeds(p, new), OwnedBy(new),
         UNCHANGED <<inside, kept, topic, late>>,
         \A n \in Names : marker'[n] \in {marker[n], None},
         new.sid \in Sids /\ Threatens(new) =>
           inside[new.sid]["discovery"] # new.sid \/ Threatened(new.sid)
  PROVE  DocsInv'
<1>1. \A s \in Sids : inside[s]["discovery"] = s /\ ~Threatened(s) => ~Threatened(s)'
  BY NoNewThreat
<1> QED
  BY <1>1, DocsStep

(* Commands that only look, as a new session or at one.                    *)
LEMMA BeginDocs ==
  ASSUME IInv, IInv', DocsInv, NEW p \in Procs, NEW s \in Sids, NEW at \in Places,
         Start(p, s, at) \/ ConnectFinds(p, s, at) \/ StopFinds(p, s, at) \/ PruneFinds(p, s, at)
  PROVE  DocsInv'
<1> DEFINE As(pc)  == [Idle EXCEPT !.pc = pc, !.sid = s, !.place = at]
           Pruning == [Idle EXCEPT !.pc = "rescue", !.sid = s, !.place = at, !.prunes = TRUE,
                         !.starting = \E q \in Procs : At(q, "record") /\ proc[q].sid = s]
<1>a. \A pc \in Pcs : As(pc) \in Commands /\ As(pc).pc = pc
  BY DEF Idle, Commands
<1>b. Pruning \in Commands /\ Pruning.pc = "rescue"
  <2> DEFINE starting == \E q \in Procs : At(q, "record") /\ proc[q].sid = s
  <2> HIDE DEF starting
  <2> QED
    BY DEF Idle, Commands, Pcs
<1>c. \/ Begins(p, As("view")) \/ Begins(p, As("connect"))
      \/ Begins(p, As("rescue")) \/ Begins(p, Pruning)
  BY DEF Start, ConnectFinds, StopFinds, PruneFinds
<1>d. {"view", "connect", "rescue"} \subseteq Pcs
  BY DEF Pcs
<1> HIDE DEF As, Pruning
<1>1. PICK new \in Commands : Begins(p, new) /\ new.pc \in {"view", "connect", "rescue"}
  BY <1>a, <1>b, <1>c, <1>d
<1>2. Proceeds(p, new)
  BY <1>1, BeginsNew DEF IInv
<1>3. OwnedBy(new) /\ ~Threatens(new)
  BY <1>1 DEF OwnedBy, Threatens, Converting
<1>4. UNCHANGED <<inside, kept, topic, late, marker>>
  BY DEF Start, ConnectFinds, StopFinds, PruneFinds, disk
<1> QED
  BY <1>2, <1>3, <1>4, DocsRest

(* convert takes the name from the doc that lists the session, ...         *)
LEMMA ConvertResolvesDocs ==
  ASSUME IInv, IInv', DocsInv, NEW p \in Procs, NEW s \in Sids, ConvertResolves(p, s)
  PROVE  DocsInv'
<1>1. PICK owner \in NamesOf(s) :
        Begins(p, [Idle EXCEPT !.pc = "target", !.sid = s, !.name = owner.name])
  BY DEF ConvertResolves
<1>2. owner.name \in Names /\ Owns(owner.name, s)
  <2>1. CASE owner \in {[doc |-> "kept", name |-> n] : n \in {n \in Names : kept[n] = s}}
    <3>1. s # None
      BY SessionsAssumption
    <3> QED
      BY <2>1, <3>1 DEF DocsInv, DocsOwned
  <2>2. CASE inside[s]["discovery"] = s /\ owner = [doc |-> "inside", name |-> topic[s]]
    <3>1. topic[s] # None /\ topic[s] \in Topics \cup {None}
      BY <2>2, SessionsAssumption DEF IInv, DocsNamed, TypeOK, Places, Docs
    <3> QED
      BY <2>2, <3>1 DEF Names, Owns
  <2> QED
    BY <2>1, <2>2 DEF NamesOf
<1> DEFINE new == [Idle EXCEPT !.pc = "target", !.sid = s, !.name = owner.name]
<1>3. new \in Commands /\ new.pc = "target" /\ new.sid = s /\ new.name = owner.name
  BY <1>2 DEF Idle, Commands, Pcs
<1>4. Begins(p, new) /\ UNCHANGED <<inside, kept, topic, late, marker>>
  BY <1>1 DEF ConvertResolves, disk
<1> HIDE DEF new
<1>5. Proceeds(p, new)
  BY <1>3, <1>4, BeginsNew DEF IInv
<1>6. OwnedBy(new) /\ ~Threatens(new)
  BY <1>2, <1>3 DEF OwnedBy, Threatens
<1> QED
  BY <1>4, <1>5, <1>6, DocsRest

(* ... or from the marker, whose step it takes up: the marker threatened   *)
(* what the command threatens now.                                         *)
LEMMA ConvertResumesDocs ==
  ASSUME IInv, IInv', DocsInv, NEW p \in Procs, NEW s \in Sids, NEW n \in Names,
         ConvertResumes(p, s, n)
  PROVE  DocsInv'
<1> DEFINE new == [Idle EXCEPT !.pc = marker[n].step, !.sid = s, !.name = n]
<1>1. marker[n] # None /\ marker[n].sid = s /\ marker[n].step \in Steps
  BY DEF ConvertResumes, Pending, IInv, TypeOK, Markers
<1>2. new \in Commands /\ new.pc = marker[n].step /\ new.sid = s /\ new.name = n
  BY <1>1 DEF Idle, Commands, Pcs, Steps
<1>3. Begins(p, new) /\ UNCHANGED <<inside, kept, topic, late, marker>>
  BY DEF ConvertResumes, disk
<1> HIDE DEF new
<1>4. Proceeds(p, new)
  BY <1>2, <1>3, BeginsNew DEF IInv
<1>5. OwnedBy(new)
  BY <1>1, <1>2 DEF OwnedBy, DocsInv, DocsOwned, Steps
<1>6. Threatens(new) => Threatened(s)
  BY <1>1, <1>2 DEF Threatens, Threatened, Steps
<1> QED
  BY <1>2, <1>3, <1>4, <1>5, <1>6, DocsRest

(* A command that goes on with what it has takes its doc where it belongs. *)
LEMMA GoesOnOwned ==
  ASSUME IInv, DocsOwned, NEW p \in Procs, NEW pc \in Pcs \ {"rewrite"}, Goes(p, pc),
         pc \in Converting \cup {"rescueTo"} => proc[p].pc \in Converting \cup {"rescueTo"}
  PROVE  \E new \in Commands :
           /\ Proceeds(p, new) /\ OwnedBy(new)
           /\ new.pc = pc /\ new.sid = proc[p].sid /\ new.place = proc[p].place
<1> DEFINE new == [proc[p] EXCEPT !.pc = pc]
<1>1. /\ new \in Commands /\ new.pc = pc /\ new.sid = proc[p].sid /\ new.place = proc[p].place
      /\ new.name = proc[p].name
  BY GoesOnAs DEF IInv
<1>2. Proceeds(p, new)
  BY GoesOn DEF IInv
<1> HIDE DEF new
<1>3. OwnedBy(new)
  BY <1>1 DEF OwnedBy, DocsOwned
<1> QED
  BY <1>1, <1>2, <1>3

(* Steps of starts, connects and converts that move no doc.                *)
LEMMA QuietDocs ==
  ASSUME IInv, IInv', DocsInv, NEW p \in Procs,
         \/ MakeView(p) \/ WriteRecord(p) \/ ConnectMaterialises(p) \/ Dies(p)
         \/ EnsureFeature(p) \/ UpdateState(p) \/ Rematerialize(p)
  PROVE  DocsInv'
<1>1. UNCHANGED <<inside, kept, topic, late, marker>>
  BY DEF MakeView, WriteRecord, ConnectMaterialises, Dies, EnsureFeature, UpdateState,
         Rematerialize, past, disk
<1>2. \/ Ends(p)
      \/ Goes(p, "record")
      \/ proc[p].pc = "target" /\ Goes(p, "mark")
      \/ proc[p].pc = "update" /\ Goes(p, "updated")
      \/ proc[p].pc = "rematerialize" /\ Goes(p, "clear")
  BY DEF MakeView, WriteRecord, ConnectMaterialises, Dies, EnsureFeature, UpdateState,
         Rematerialize, At
<1>3. PICK new \in Commands : Proceeds(p, new) /\ OwnedBy(new) /\ ~Threatens(new)
  <2>1. CASE Ends(p)
    BY <2>1, EndsNow, IdleIsCommand DEF IInv, OwnedBy, Threatens, Converting
  <2>2. ASSUME NEW pc \in {"record", "mark", "updated", "clear"}, Goes(p, pc),
               pc \in Converting => proc[p].pc \in Converting
        PROVE  \E new \in Commands : Proceeds(p, new) /\ OwnedBy(new) /\ ~Threatens(new)
    <3>1. pc \in Pcs \ {"rewrite"} /\ pc \notin {"rescueTo", "lifted", "move", "remove"}
      BY DEF Pcs
    <3> QED
      BY <2>2, <3>1, GoesOnOwned DEF DocsInv, Threatens
  <2> QED
    BY <1>2, <2>1, <2>2 DEF Converting
<1> QED
  BY <1>1, <1>3, DocsRest

(* The marker threatens what its command threatened, and names the session *)
(* the command converts.                                                   *)
LEMMA WriteMarkerDocs ==
  ASSUME IInv, IInv', DocsInv, NEW p \in Procs, NEW at \in Converting, NEW step \in Steps,
         WriteMarker(p, at, step), step = "move" => at = "lifted"
  PROVE  DocsInv'
<1> DEFINE s == proc[p].sid  n == proc[p].name
<1>1. /\ proc[p].pc = at /\ Goes(p, step)
      /\ marker' = [marker EXCEPT ![n] = [sid |-> s, step |-> step]]
      /\ UNCHANGED <<inside, kept, topic, late>>
  BY DEF WriteMarker, At
<1>2. s \in Sids /\ n \in Names /\ Owns(n, s)
  BY <1>1 DEF IInv, ArgsGiven, ArgsOf, DocsInv, DocsOwned, OwnedBy
<1>3. step \in Pcs \ {"rewrite"} /\ (Threatens([proc[p] EXCEPT !.pc = step]) => step = "move")
  BY DEF Steps, Pcs, Threatens, IInv, TypeOK, Commands
<1>4. PICK new \in Commands : /\ Proceeds(p, new) /\ OwnedBy(new)
                              /\ new.pc = step /\ new.sid = s
  BY <1>1, <1>3, GoesOnOwned DEF DocsInv
<1>5. Threatens(new) => step = "move"
  BY <1>4 DEF Threatens, Steps
<1>6. step = "move" => Threatened(s)
  BY <1>1 DEF Threatened, Threatens
<1> HIDE DEF s, n
<1>7. \A m \in Names : \/ marker'[m] = marker[m]
                       \/ m = n /\ marker'[m].sid = s /\ marker'[m].step = step
  BY <1>1, <1>2 DEF IInv, TypeOK
<1>8. \A t \in Sids : ~Threatened(t) => ~Threatened(t)'
  BY <1>4, <1>5, <1>6, <1>7, NoNewThreat
<1> QED
  BY <1>1, <1>2, <1>4, <1>7, <1>8, DocsStep

(* A doc that goes from its View Dir to a feature is kept there.           *)
LEMMA DocMovesDocs ==
  ASSUME IInv, IInv', DocsInv, NEW p \in Procs, NEW new, Proceeds(p, new), OwnedBy(new),
         NEW s \in Sids, NEW n \in Names, Owns(n, s), new.sid = s,
         UNCHANGED <<marker, topic, late>>,
         inside[s]["discovery"] # None, kept' = [kept EXCEPT ![n] = inside[s]["discovery"]],
         inside' = [inside EXCEPT ![s]["discovery"] = None]
  PROVE  DocsInv'
<1>1. "discovery" \in Places /\ s # None /\ None \in Docs \cup {None} /\ s \in Docs
  BY SessionsAssumption DEF Places, Docs
<1>2. inside[s]["discovery"] = s
  BY <1>1 DEF DocsInv, DocsOwned
<1>3. \A m \in Names : kept'[m] = IF m = n THEN s ELSE kept[m]
  BY <1>1, <1>2, KeptSet DEF IInv
<1>4. \A t \in Sids, x \in Places :
        inside'[t][x] = IF t = s /\ x = "discovery" THEN None ELSE inside[t][x]
  BY <1>1, InsideSet DEF IInv
<1>5. IsKept(s)'
  BY <1>3 DEF IsKept
<1>6. \A t \in Sids \ {s} : ~Threatened(t) => ~Threatened(t)'
  BY NoNewThreat
<1> QED
  BY <1>1, <1>3, <1>4, <1>5, <1>6, DocsStep

(* lift_discovery puts the doc in the feature, or finds none.              *)
LEMMA LiftDiscoveryDocs ==
  ASSUME IInv, IInv', DocsInv, NEW p \in Procs, LiftDiscovery(p)
  PROVE  DocsInv'
<1> DEFINE s == proc[p].sid  n == proc[p].name
<1>1. proc[p].pc = "lift" /\ Goes(p, "lifted") /\ UNCHANGED <<marker, topic, late>>
  BY DEF LiftDiscovery, At, past
<1>2. s \in Sids /\ n \in Names /\ Owns(n, s)
  BY <1>1 DEF IInv, ArgsGiven, ArgsOf, Converting, DocsInv, DocsOwned, OwnedBy
<1>3. PICK new \in Commands : /\ Proceeds(p, new) /\ OwnedBy(new)
                              /\ new.pc = "lifted" /\ new.sid = s
  BY <1>1, GoesOnOwned DEF DocsInv, Converting, Pcs
<1>4. CASE inside[s]["discovery"] # None
  BY <1>1, <1>2, <1>3, <1>4, DocMovesDocs DEF LiftDiscovery
<1>5. CASE inside[s]["discovery"] = None
  <2>1. s # None /\ UNCHANGED <<kept, inside>>
    BY <1>2, <1>5, SessionsAssumption DEF LiftDiscovery
  <2> QED
    BY <1>1, <1>3, <1>5, <2>1, DocsRest
<1> QED
  BY <1>4, <1>5

(* move_session takes a View Dir it threatened before.                     *)
LEMMA MoveSessionDocs ==
  ASSUME IInv, IInv', DocsInv, NEW p \in Procs, MoveSession(p)
  PROVE  DocsInv'
<1> DEFINE s == proc[p].sid  n == proc[p].name
<1>1. /\ proc[p].pc = "move" /\ Goes(p, "moved") /\ UNCHANGED <<kept, marker, topic, late>>
      /\ \/ UNCHANGED inside
         \/ inside' = [inside EXCEPT ![s]["discovery"] = None, ![s][n] = inside[s]["discovery"]]
  BY DEF MoveSession, At, past
<1>2. s \in Sids /\ n \in Names /\ "discovery" \in Places /\ n # "discovery" /\ n \in Places
  BY <1>1, SessionsAssumption DEF IInv, ArgsGiven, ArgsOf, Converting, Places, Names
<1>3. PICK new \in Commands : /\ Proceeds(p, new) /\ OwnedBy(new)
                              /\ new.pc = "moved" /\ new.sid = s
  BY <1>1, GoesOnOwned DEF DocsInv, Converting, Pcs
<1>4. Threatened(s)
  BY <1>1 DEF Threatened, Threatens
<1> HIDE DEF s, n
<1>5. inside[s]["discovery"] \in {s, None}
  BY <1>2 DEF DocsInv, DocsOwned
<1>6. \A t \in Sids, x \in Places :
        /\ inside'[t][x] \in {inside[t][x], None, t}
        /\ t # s => inside'[t][x] = inside[t][x]
  <2>1. CASE UNCHANGED inside
    BY <2>1
  <2>2. CASE inside' = [inside EXCEPT ![s]["discovery"] = None, ![s][n] = inside[s]["discovery"]]
    BY <1>2, <1>5, <2>2 DEF IInv, TypeOK
  <2> QED
    BY <1>1, <2>1, <2>2
<1>7. ~Threatens(new)
  BY <1>3 DEF Threatens
<1>8. \A t \in Sids : ~Threatened(t) => ~Threatened(t)'
  BY <1>1, <1>3, <1>7, NoNewThreat
<1> QED
  BY <1>1, <1>2, <1>3, <1>4, <1>6, <1>8, DocsStep

(* finish removes the marker.                                              *)
LEMMA ClearMarkerDocs ==
  ASSUME IInv, IInv', DocsInv, NEW p \in Procs, ClearMarker(p)
  PROVE  DocsInv'
<1> DEFINE n == proc[p].name
           new == [Idle EXCEPT !.pc = "reread", !.name = n]
<1>1. /\ proc[p].pc = "clear" /\ Becomes(p, new) /\ marker' = [marker EXCEPT ![n] = None]
      /\ UNCHANGED <<inside, kept, topic, late>>
  BY DEF ClearMarker, At, past
<1>2. new \in Commands /\ new.pc = "reread"
  BY <1>1 DEF Idle, Commands, Pcs, IInv, ArgsGiven, ArgsOf, Converting
<1> HIDE DEF new
<1>3. Proceeds(p, new)
  BY <1>1, <1>2, BecomesNew DEF IInv
<1>4. OwnedBy(new) /\ ~Threatens(new)
  BY <1>2 DEF OwnedBy, Threatens, Converting
<1>5. \A m \in Names : marker'[m] \in {marker[m], None}
  BY <1>1 DEF IInv, TypeOK
<1> QED
  BY <1>1, <1>3, <1>4, <1>5, DocsRest

-----------------------------------------------------------------------------
(* stop and prune: what is removed has no doc, or its doc was taken out.   *)

(* The name a doc is saved under is its own.                               *)
LEMMA RescueLooksDocs ==
  ASSUME IInv, IInv', DocsInv, NEW p \in Procs, RescueLooks(p)
  PROVE  DocsInv'
<1> DEFINE s == proc[p].sid
<1>1. proc[p].pc = "rescue" /\ UNCHANGED <<inside, kept, marker, topic, late>>
  BY DEF RescueLooks, At, past, disk
<1>2. s \in Sids /\ proc[p] \in Commands /\ s # None /\ "discovery" \in Places
  BY <1>1, SessionsAssumption DEF IInv, ArgsGiven, ArgsOf, TypeOK, Places
<1>3. CASE inside[s]["discovery"] # None
           /\ Becomes(p, [proc[p] EXCEPT !.pc = "rescueTo", !.name = Target(s)])
  <2> DEFINE new == [proc[p] EXCEPT !.pc = "rescueTo", !.name = Target(s)]
  <2>1. inside[s]["discovery"] = s
    BY <1>2, <1>3 DEF DocsInv, DocsOwned
  <2>2. topic[s] \in Topics
    BY <1>2, <2>1 DEF IInv, DocsNamed, TypeOK, Docs
  <2>3. Target(s) \in Names /\ Owns(Target(s), s)
    BY <1>2, <2>1, <2>2 DEF Target, Names, Owns
  <2>4. new \in Commands /\ new.pc = "rescueTo" /\ new.name = Target(s) /\ new.sid = s
    BY <1>2, <2>3 DEF Commands, Pcs
  <2> HIDE DEF new
  <2>5. Proceeds(p, new)
    BY <1>3, <2>4, BecomesNew DEF IInv, new
  <2>6. OwnedBy(new) /\ ~Threatens(new)
    BY <2>3, <2>4 DEF OwnedBy, Threatens
  <2> QED
    BY <1>1, <2>5, <2>6, DocsRest
<1>4. CASE Goes(p, "remove") /\ ~(proc[p].place = "discovery" /\ inside[s]["discovery"] # None)
  <2>1. PICK new \in Commands : /\ Proceeds(p, new) /\ OwnedBy(new) /\ new.pc = "remove"
                                /\ new.sid = s /\ new.place = proc[p].place
    BY <1>4, GoesOnOwned DEF DocsInv, Converting, Pcs
  <2>2. Threatens(new) => inside[s]["discovery"] # s
    BY <1>2, <1>4, <2>1 DEF Threatens
  <2> QED
    BY <1>1, <2>1, <2>2, DocsRest
<1> QED
  BY <1>3, <1>4 DEF RescueLooks

(* rescue_session_doc moves the doc.                                       *)
LEMMA RescueMovesDocs ==
  ASSUME IInv, IInv', DocsInv, NEW p \in Procs, RescueMoves(p)
  PROVE  DocsInv'
<1> DEFINE s == proc[p].sid  n == proc[p].name
<1>1. /\ proc[p].pc = "rescueTo" /\ Goes(p, "remove") /\ inside[s]["discovery"] # None
      /\ kept' = [kept EXCEPT ![n] = inside[s]["discovery"]]
      /\ inside' = [inside EXCEPT ![s]["discovery"] = None]
      /\ UNCHANGED <<marker, topic, late>>
  BY DEF RescueMoves, At, past
<1>2. s \in Sids /\ n \in Names /\ Owns(n, s)
  BY <1>1 DEF IInv, ArgsGiven, ArgsOf, DocsInv, DocsOwned, OwnedBy
<1>3. PICK new \in Commands : Proceeds(p, new) /\ OwnedBy(new) /\ new.sid = s
  BY <1>1, GoesOnOwned DEF DocsInv, Converting, Pcs
<1> QED
  BY <1>1, <1>2, <1>3, DocMovesDocs

(* remove_dir_all takes a View Dir it threatened before, or one that holds *)
(* no doc of a discovery.                                                  *)
LEMMA RemoveViewDocs ==
  ASSUME IInv, IInv', DocsInv, NEW p \in Procs, RemoveView(p)
  PROVE  DocsInv'
<1> DEFINE s == proc[p].sid  at == proc[p].place
<1>1. /\ proc[p].pc = "remove" /\ Ends(p) /\ UNCHANGED <<kept, marker, topic, late>>
      /\ inside' \in {inside, [inside EXCEPT ![s][at] = None]}
  BY DEF RemoveView, At, past
<1>2. s \in Sids /\ at \in Places /\ "discovery" \in Places /\ None \in Docs \cup {None}
  BY <1>1 DEF IInv, ArgsGiven, ArgsOf, Places
<1>3. Proceeds(p, Idle) /\ OwnedBy(Idle) /\ ~Threatens(Idle)
  BY <1>1, EndsNow, IdleIsCommand DEF IInv, OwnedBy, Threatens, Converting
<1>4. at = "discovery" => Threatened(s)
  BY <1>1 DEF Threatened, Threatens
<1> HIDE DEF s, at
<1>5. \A t \in Sids, x \in Places : \/ inside'[t][x] = inside[t][x]
                                    \/ t = s /\ x = at /\ inside'[t][x] = None
  <2>1. CASE inside' = [inside EXCEPT ![s][at] = None]
    BY <1>2, <2>1, InsideSet DEF IInv
  <2> QED
    BY <1>1, <2>1
<1>6. \A t \in Sids : ~Threatened(t) => ~Threatened(t)'
  BY <1>1, <1>3, NoNewThreat
<1> QED
  BY <1>1, <1>2, <1>3, <1>4, <1>5, <1>6, DocsStep

-----------------------------------------------------------------------------
(* Docs written: new ones, and whole ones written back.                    *)

(* amend reads a doc to write it back where it was, in a View Dir ...      *)
LEMMA AmendReadsDocs ==
  ASSUME IInv, IInv', DocsInv, NEW p \in Procs, NEW s \in Sids, AmendReads(p, s)
  PROVE  DocsInv'
<1> DEFINE doc == inside[s]["discovery"]
           new == [Idle EXCEPT !.pc = "rewrite", !.sid = s, !.doc = doc]
<1>1. doc # None /\ Begins(p, new) /\ UNCHANGED <<inside, kept, marker, topic, late>>
  BY DEF AmendReads, disk
<1>2. doc = s /\ s \in Docs /\ s # None
  BY <1>1, SessionsAssumption DEF DocsInv, DocsOwned, Places, Docs
<1>3. new \in Commands /\ new.pc = "rewrite" /\ new.sid = s /\ new.doc = s
  BY <1>2 DEF Idle, Commands, Pcs
<1> HIDE DEF new
<1>4. Proceeds(p, new)
  BY <1>1, <1>3, BeginsNew DEF IInv
<1>5. OwnedBy(new) /\ ~Threatens(new)
  BY <1>2, <1>3 DEF OwnedBy, Threatens, Converting
<1> QED
  BY <1>1, <1>4, <1>5, DocsRest

(* ... or in a feature.                                                    *)
LEMMA KeptReadDocs ==
  ASSUME IInv, IInv', DocsInv, NEW p \in Procs,
         MarkReads(p) \/ \E n \in Names : AmendReadsKept(p, n)
  PROVE  DocsInv'
<1>1. PICK n \in Names : /\ kept[n] # None
                         /\ Becomes(p, RewritesKept(n)) /\ UNCHANGED <<disk, topic, late>>
  BY DEF MarkReads, AmendReadsKept, Begins, At, past, IInv, ArgsGiven, ArgsOf
<1>2. Owns(n, kept[n]) /\ kept[n] \in Docs
  BY <1>1 DEF DocsInv, DocsOwned, IInv, TypeOK
<1>3. /\ RewritesKept(n).pc = "rewrite" /\ RewritesKept(n).sid = None
      /\ RewritesKept(n).name = n /\ RewritesKept(n).doc = kept[n]
  BY <1>2 DEF RewritesKept, Idle, Commands, Pcs
<1>4. Proceeds(p, RewritesKept(n))
  BY <1>1, KeptFits, BecomesNew DEF IInv
<1>5. OwnedBy(RewritesKept(n)) /\ ~Threatens(RewritesKept(n))
  BY <1>2, <1>3 DEF OwnedBy, Threatens, Converting
<1> QED
  BY <1>1, <1>4, <1>5, DocsRest DEF disk

(* The whole doc is written back, over itself or a namesake.               *)
LEMMA RewriteDocs ==
  ASSUME IInv, IInv', DocsInv, NEW p \in Procs, Rewrite(p)
  PROVE  DocsInv'
<1> DEFINE s == proc[p].sid  n == proc[p].name  d == proc[p].doc
<1>1. /\ proc[p].pc = "rewrite" /\ Ends(p) /\ UNCHANGED <<marker, topic, late>>
      /\ \/ s = None /\ kept' = [kept EXCEPT ![n] = d] /\ UNCHANGED inside
         \/ s # None /\ inside' = [inside EXCEPT ![s]["discovery"] = d] /\ UNCHANGED kept
  BY DEF Rewrite, At, past
<1>2. /\ d \in Docs /\ d # None /\ (s = None => n \in Names /\ Owns(n, d)) /\ (s # None => d = s)
      /\ s \in Sids \cup {None} /\ "discovery" \in Places
  BY <1>1, SessionsAssumption DEF IInv, ArgsGiven, ArgsOf, TypeOK, Commands, Places, Docs,
         DocsInv, DocsOwned, OwnedBy
<1>3. Proceeds(p, Idle) /\ OwnedBy(Idle) /\ ~Threatens(Idle)
  BY <1>1, EndsNow, IdleIsCommand DEF IInv, OwnedBy, Threatens, Converting
<1> HIDE DEF s, n, d
<1>4. \A m \in Names : kept'[m] = kept[m] \/ (kept'[m] = d /\ Owns(m, d))
  <2>1. CASE s = None /\ kept' = [kept EXCEPT ![n] = d]
    BY <1>2, <2>1, KeptSet DEF IInv
  <2> QED
    BY <1>1, <2>1
<1>5. \A t \in Sids, x \in Places : inside'[t][x] \in {inside[t][x], t}
  <2>1. CASE s # None /\ inside' = [inside EXCEPT ![s]["discovery"] = d]
    BY <1>2, <2>1, InsideSet DEF IInv
  <2> QED
    BY <1>1, <2>1
<1>6. \A t \in Sids : ~Threatened(t) => ~Threatened(t)'
  BY <1>1, <1>3, NoNewThreat
<1> QED
  BY <1>1, <1>2, <1>3, <1>4, <1>5, <1>6, DocsStep

(* A doc is new: what belongs somewhere still does, and a doc that had no  *)
(* namesake had none before.                                               *)
LEMMA NewDocOwned ==
  ASSUME IInv, DocsOwned, NEW d \in Docs, topic[d] = None, UNCHANGED <<marker, proc>>,
         \A e \in Docs \ {d} : topic'[e] = topic[e],
         \A s \in Sids, at \in Places : inside'[s][at] \in {inside[s][at], s},
         \A n \in Names : kept'[n] = kept[n] \/ Owns(n, kept[n])'
  PROVE  DocsOwned'
<1>1. \A n \in Names, e \in Docs : Owns(n, e) => Owns(n, e)'
  BY OwnsStays
<1>2. \A s \in Sids, at \in Places : inside'[s][at] \in {s, None}
  BY DEF DocsOwned
<1>3. ASSUME NEW n \in Names, kept'[n] # None
      PROVE  Owns(n, kept[n])'
  <2>1. CASE kept'[n] = kept[n]
    <3>1. kept[n] \in Docs /\ Owns(n, kept[n])
      BY <1>3, <2>1 DEF IInv, TypeOK, DocsOwned
    <3>2. Owns(n, kept[n])'
      BY <2>1, <3>1, OwnsStays DEF Owns
    <3> QED
      BY <3>2
  <2> QED
    BY <2>1
<1>4. ASSUME NEW n \in Names, marker'[n] # None
      PROVE  Owns(n, marker[n].sid)'
  <2>1. marker[n].sid \in Docs /\ Owns(n, marker[n].sid)
    BY <1>4 DEF IInv, TypeOK, Markers, Docs, DocsOwned
  <2> QED
    BY <1>1, <2>1 DEF Owns
<1>5. ASSUME NEW q \in Procs
      PROVE  OwnedBy(proc[q])'
  <2> DEFINE r == proc[q]
  <2>1. OwnedBy(r) /\ ArgsOf(r)
    BY DEF IInv, ArgsGiven, DocsOwned
  <2>2. r.pc \in Converting \cup {"rescueTo"} => Owns(r.name, r.sid)'
    BY <1>1, <2>1 DEF OwnedBy, ArgsOf, Docs
  <2>3. r.pc = "rewrite" /\ r.sid = None => Owns(r.name, r.doc)'
    BY <1>1, <2>1 DEF OwnedBy, ArgsOf
  <2>4. r.pc = "rewrite" /\ r.sid # None => r.doc = r.sid
    BY <2>1 DEF OwnedBy
  <2> QED
    BY <2>2, <2>3, <2>4 DEF OwnedBy, Owns
<1> QED
  BY <1>2, <1>3, <1>4, <1>5 DEF DocsOwned

(* discovery create in a View Dir: if a stop or a convert is past its look *)
(* for a doc the new one is late, and if not nobody threatens it.          *)
LEMMA CreateInsideDocs ==
  ASSUME IInv, DocsInv, NEW s \in Sids, NEW n \in Topics, CreateInside(s, n)
  PROVE  DocsInv'
<1>1. /\ topic[s] = None /\ topic' = [topic EXCEPT ![s] = n]
      /\ inside' = [inside EXCEPT ![s]["discovery"] = s]
      /\ late' = IF Passed(s) THEN late \cup {s} ELSE late
      /\ UNCHANGED <<kept, marker, proc>>
  BY DEF CreateInside
<1>2. s \in Docs /\ "discovery" \in Places
  BY DEF Docs, Places
<1>3. \A e \in Docs \ {s} : topic'[e] = topic[e]
  BY <1>1 DEF IInv, TypeOK
<1>4. \A t \in Sids, x \in Places :
        inside'[t][x] = IF t = s /\ x = "discovery" THEN s ELSE inside[t][x]
  BY <1>1, <1>2, InsideSet DEF IInv
<1>5. DocsOwned'
  BY <1>1, <1>2, <1>3, <1>4, NewDocOwned DEF DocsInv
<1>6. \A t \in Sids : Threatened(t)' <=> Threatened(t)
  BY <1>1 DEF Threatened, Threatens
<1>7. Threatened(s) => Passed(s)
  BY DEF Threatened, Threatens, Passed, Pending
<1>8. ASSUME NEW d \in Docs, topic'[d] # None, ~Namesake(d)', d \notin late'
      PROVE  \/ IsKept(d)'
             \/ d \in Sids /\ inside'[d]["discovery"] = d /\ ~Threatened(d)'
  <2>1. CASE d = s
    BY <1>1, <1>4, <1>6, <1>7, <1>8, <1>2, <2>1
  <2>2. CASE d # s
    <3>1. topic[d] # None /\ d \notin late
      BY <1>1, <1>3, <1>8, <2>2
    <3>2. ~Namesake(d)
      BY <1>1, <1>3, <1>8, <2>2, <3>1 DEF Namesake
    <3>3. \/ IsKept(d)
          \/ d \in Sids /\ inside[d]["discovery"] = d /\ ~Threatened(d)
      BY <3>1, <3>2 DEF DocsInv, DocsSafe
    <3> QED
      BY <1>1, <1>2, <1>4, <1>6, <2>2, <3>3 DEF IsKept
  <2> QED
    BY <2>1, <2>2
<1> QED
  BY <1>5, <1>8 DEF DocsInv, DocsSafe

(* discovery create elsewhere takes a name no feature's doc has.           *)
LEMMA CreateOutsideDocs ==
  ASSUME IInv, DocsInv, NEW n \in Topics, CreateOutside(n)
  PROVE  DocsInv'
<1>1. /\ topic[Outside] = None /\ kept[n] = None
      /\ topic' = [topic EXCEPT ![Outside] = n] /\ kept' = [kept EXCEPT ![n] = Outside]
      /\ UNCHANGED <<inside, marker, proc, late>>
  BY DEF CreateOutside
<1>2. Outside \in Docs /\ n \in Names
  BY DEF Docs, Names
<1>3. topic'[Outside] = n /\ \A e \in Docs \ {Outside} : topic'[e] = topic[e]
  BY <1>1, <1>2 DEF IInv, TypeOK
<1>4. \A m \in Names : kept'[m] = IF m = n THEN Outside ELSE kept[m]
  BY <1>1, <1>2, KeptSet DEF IInv
<1>5. DocsOwned'
  BY <1>1, <1>2, <1>3, <1>4, NewDocOwned DEF DocsInv, Owns
<1>6. \A t \in Sids : Threatened(t)' <=> Threatened(t)
  BY <1>1 DEF Threatened, Threatens
<1>7. ASSUME NEW d \in Docs, topic'[d] # None, ~Namesake(d)', d \notin late'
      PROVE  \/ IsKept(d)'
             \/ d \in Sids /\ inside'[d]["discovery"] = d /\ ~Threatened(d)'
  <2>1. CASE d = Outside
    BY <1>2, <1>4, <2>1 DEF IsKept
  <2>2. CASE d # Outside
    <3>1. topic[d] # None /\ d \notin late
      BY <1>1, <1>3, <1>7, <2>2
    <3>2. ~Namesake(d)
      BY <1>1, <1>3, <1>7, <2>2, <3>1 DEF Namesake
    <3>3. \/ IsKept(d)
          \/ d \in Sids /\ inside[d]["discovery"] = d /\ ~Threatened(d)
      BY <3>1, <3>2 DEF DocsInv, DocsSafe
    <3>4. IsKept(d) => IsKept(d)'
      BY <1>1, <1>2, <1>4, SessionsAssumption DEF IsKept, Docs
    <3> QED
      BY <1>1, <1>6, <3>3, <3>4
  <2> QED
    BY <2>1, <2>2
<1> QED
  BY <1>5, <1>7 DEF DocsInv, DocsSafe

-----------------------------------------------------------------------------
(* The docs in every step.                                                 *)

(* The initial states: no doc, no marker, no command.                      *)
LEMMA InitDocs == Init => DocsInv
<1> SUFFICES ASSUME Init
             PROVE  DocsInv
  OBVIOUS
<1>1. \A p \in Procs : proc[p].pc = "idle"
  BY IdleIsCommand DEF Init
<1>2. /\ \A s \in Sids, at \in Places : inside[s][at] = None
      /\ \A n \in Names : kept[n] = None /\ marker[n] = None
      /\ \A d \in Docs : topic[d] = None
  BY DEF Init
<1> QED
  BY <1>1, <1>2 DEF DocsInv, DocsOwned, DocsSafe, OwnedBy, Converting

(* Every step.                                                             *)
LEMMA NextDocs == IInv /\ IInv' /\ DocsInv /\ [Next]_vars => DocsInv'
<1> SUFFICES ASSUME IInv, IInv', DocsInv, [Next]_vars
             PROVE  DocsInv'
  OBVIOUS
<1>1. ASSUME NEW p \in Procs, NEW s \in Sids, NEW at \in Places,
             Start(p, s, at) \/ ConnectFinds(p, s, at) \/ StopFinds(p, s, at) \/ PruneFinds(p, s, at)
      PROVE  DocsInv'
  BY <1>1, BeginDocs
<1>2. ASSUME NEW p \in Procs, NEW s \in Sids, ConvertResolves(p, s) \/ AmendReads(p, s)
      PROVE  DocsInv'
  BY <1>2, ConvertResolvesDocs, AmendReadsDocs
<1>3. ASSUME NEW p \in Procs, NEW s \in Sids, NEW n \in Names, ConvertResumes(p, s, n)
      PROVE  DocsInv'
  BY <1>3, ConvertResumesDocs
<1>4. ASSUME NEW p \in Procs, NEW n \in Names, AmendReadsKept(p, n)
      PROVE  DocsInv'
  BY <1>4, KeptReadDocs
<1>5. ASSUME NEW p \in Procs, \/ MakeView(p) \/ WriteRecord(p) \/ ConnectMaterialises(p)
                              \/ MarkReads(p) \/ Rewrite(p) \/ Dies(p)
      PROVE  DocsInv'
  BY <1>5, QuietDocs, KeptReadDocs, RewriteDocs
<1>6. ASSUME NEW p \in Procs, ConvertStep(p)
      PROVE  DocsInv'
  <2>1. CASE EnsureFeature(p) \/ UpdateState(p) \/ Rematerialize(p)
    BY <2>1, QuietDocs
  <2>2. CASE \/ WriteMarker(p, "mark", "lift")   \/ WriteMarker(p, "lifted", "move")
             \/ WriteMarker(p, "moved", "update") \/ WriteMarker(p, "updated", "rematerialize")
    BY <2>2, WriteMarkerDocs DEF Steps, Converting
  <2>3. CASE LiftDiscovery(p) \/ MoveSession(p) \/ ClearMarker(p)
    BY <2>3, LiftDiscoveryDocs, MoveSessionDocs, ClearMarkerDocs
  <2> QED
    BY <1>6, <2>1, <2>2, <2>3 DEF ConvertStep
<1>7. ASSUME NEW p \in Procs, EndStep(p)
      PROVE  DocsInv'
  BY <1>7, RescueLooksDocs, RescueMovesDocs, RemoveViewDocs DEF EndStep
<1>8. ASSUME NEW n \in Topics, CreateOutside(n) \/ \E s \in Sids : CreateInside(s, n)
      PROVE  DocsInv'
  BY <1>8, CreateOutsideDocs, CreateInsideDocs
<1>9. CASE UNCHANGED vars
  BY <1>9 DEF vars, DocsInv, DocsOwned, DocsSafe, OwnedBy, Owns, IsKept, Namesake, Threatened,
              Threatens
<1> QED
  BY <1>1, <1>2, <1>3, <1>4, <1>5, <1>6, <1>7, <1>8, <1>9 DEF Next

(* A discovery doc lies somewhere for good, unless a doc of the same name  *)
(* took its place or it was written behind the back of a stop or a         *)
(* convert: what removes or moves a View Dir takes no doc with it.         *)
THEOREM DocsAreKept == Spec => []DocsKept
<1>1. DocsInv => DocsKept
  BY DEF DocsInv, DocsSafe, DocsKept, Lies, IsKept, Places
<1> QED
  BY <1>1, Inductive, InitDocs, NextDocs, PTL DEF Spec
=============================================================================
