---------------------------- MODULE SessionPages ----------------------------
(***************************************************************************)
(* The session pages of one hall: hooks spool what happens in the provider *)
(* conversations of one ivar session, a drain turns the spool into rows of *)
(* observations, the consolidation renders one Markdown page per closed    *)
(* conversation and marks how far it got, the sweep deletes old rows and   *)
(* old pages, and the page index in memory.db follows the files            *)
(* (action/memory/{drain,consolidate,sweep,reindex,clean}).                *)
(*                                                                         *)
(* Everything but the hooks runs under memory.lock, so a drain, a pass, a  *)
(* sweep, a patch and a refresh are each one step; a pass or a sweep that  *)
(* fails or is killed midway stops after some of its pages.  The spool's   *)
(* own protocol is module MemorySpool.                                     *)
(***************************************************************************)
EXTENDS Integers, Sequences, FiniteSets, FiniteSetsExt

CONSTANTS
  ConvCount,   \* provider conversations, in the order of their ids
  MaxObs,      \* bound: observations captured
  MaxTime,     \* bound: the clock
  Idle,        \* IDLE_SECS: a conversation silent that long is closed
  Ttl,         \* SESSION_RETENTION_DAYS and PAGE_TTL_DAYS
  Tended,      \* bound: conversations whose pages people patch
  Dates,       \* bound: the expiry dates people set, and Absent
  MaxMishaps,  \* bound: passes, sweeps and patches that fail or are killed
  Absent

ASSUME SessionPagesAssumption ==
  /\ ConvCount \in Nat \ {0} /\ MaxObs \in Nat /\ MaxTime \in Nat
  /\ Idle \in Nat /\ Ttl \in Nat /\ Idle < Ttl /\ MaxMishaps \in Nat
  /\ Absent \notin Int /\ Dates \subseteq 0 .. MaxTime \cup {Absent}
  /\ Tended \subseteq 1 .. ConvCount

Convs == 1 .. ConvCount
Positions  == 1 .. MaxObs
Times == 0 .. MaxTime

VARIABLES
  now,
  observed,  \* what the hooks captured: a key is a position in it
  spool,     \* keys not drained yet
  table,      \* the observations table: [id, key]
  page,      \* .ivar/memory/session/<conversation>.md
  index,     \* its row in pages
  marker,    \* _consolidate.json
  exists,    \* memory.db is there
  mishaps,
  swept,     \* history: what a page showed when the sweep removed it, and whether
             \* its marker told of all of it
  skipped    \* history: conversations with a row numbered at or below their marker

pagesVars == <<now, observed, spool, table, page, index, marker, exists, mishaps, swept, skipped>>

(* "quiet": importance under 4; "delivery": a delivery.* or memory.* row of *)
(* the ivar session, which names no conversation.                           *)
Observations ==
  [conv : Convs, kind : {"quiet", "work", "ended"}, at : Times]
    \cup [conv : {Absent}, kind : {"delivery"}, at : Times]

Pages == [body : SUBSET Positions, pinned : BOOLEAN, expires : Times \cup {Absent}, mtime : Times,
          touched : BOOLEAN]   \* its mtime is not the one the index recorded
IndexRows == [body : SUBSET Positions, pinned : BOOLEAN, expires : Times \cup {Absent}]
Markers == [id : Nat, at : Times]

ASSUME NoPageAssumption ==
  Absent \notin Pages \cup IndexRows \cup Markers \cup [body : SUBSET Positions, told : BOOLEAN]

PagesInit ==
  /\ now = 0
  /\ observed = <<>>
  /\ spool = {} /\ table = {}
  /\ page = [c \in Convs |-> Absent]
  /\ index = [c \in Convs |-> Absent]
  /\ marker = [c \in Convs |-> Absent]
  /\ exists = FALSE
  /\ mishaps = 0
  /\ swept = [c \in Convs |-> Absent]
  /\ skipped = {}

-----------------------------------------------------------------------------
(* The observations table.                                                 *)

At(row)   == observed[row.key].at
Kind(row) == observed[row.key].kind
KeysOf(R) == {row.key : row \in R}
IdsOf(R)  == {row.id : row \in R}

Own(c)     == {row \in table : observed[row.key].conv = c}
Unattached == {row \in table : observed[row.key].conv = Absent}
FirstAt(c) == Min({At(row) : row \in Own(c)})
LastAt(c)  == Max({At(row) : row \in Own(c)})
LastId(c)  == Max(IdsOf(Own(c)))
HasEnded(c) == \E row \in Own(c) : Kind(row) = "ended"

(* cutoff_before, with the saturation at the epoch. *)
Cutoff == IF now < Ttl THEN 0 ELSE now - Ttl

Heads == {c \in Convs : Own(c) # {} /\ LastAt(c) >= Cutoff}

(* INTEGER PRIMARY KEY without AUTOINCREMENT: the number after the largest *)
(* one in the table, so deleting the newest rows gives their numbers away. *)
Top == IF table = {} THEN 0 ELSE Max(IdsOf(table))

-----------------------------------------------------------------------------
(* Rendering: which rows a conversation's page shows.                      *)

(* attribute: the conversation whose window holds the event and started    *)
(* last, else the one that ended last before it, else none; of equals the  *)
(* last one.                                                               *)
Latest(C, rank(_)) == Max({c \in C : \A d \in C : rank(d) <= rank(c)})

Attributed(row) ==
  LET holding == {c \in Heads : FirstAt(c) <= At(row) /\ At(row) <= LastAt(c) + Idle}
      before  == {c \in Heads : LastAt(c) <= At(row)} IN
  IF holding # {} THEN Latest(holding, FirstAt)
  ELSE IF before # {} THEN Latest(before, LastAt) ELSE Absent

Attached(c) == {row \in Unattached : Attributed(row) = c}

Shown(c) == Own(c) \cup Attached(c)

Newest(c) == Max({LastId(c)} \cup IdsOf(Attached(c)))

Important(R) == \E row \in R : Kind(row) \in {"work", "delivery"}

(* What a pass leaves of a page: the body is the conversation's, pinned    *)
(* and expires_at are the ones the page had.                               *)
Rendered(c) ==
  IF ~ Important(Shown(c)) THEN Absent
  ELSE IF page[c] = Absent
    THEN [body |-> KeysOf(Shown(c)), pinned |-> FALSE, expires |-> Absent,
          mtime |-> now, touched |-> TRUE]
  ELSE IF page[c].body = KeysOf(Shown(c)) THEN page[c]
  ELSE [page[c] EXCEPT !.body = KeysOf(Shown(c)), !.mtime = now, !.touched = TRUE]

-----------------------------------------------------------------------------
(* The index: reindex::refresh.                                            *)

Size(p) == <<p.body, p.pinned, p.expires = Absent>>

Row(p)  == [body |-> p.body, pinned |-> p.pinned, expires |-> p.expires]

(* Two dates are of one length: a page of the same size is read again only *)
(* when its mtime differs, and indexed again when its text does.           *)
Unchanged(p, row) ==
  /\ row # Absent
  /\ Size(p) = Size(row)
  /\ ~ p.touched \/ Row(p) = row

Reindexed(P) ==
  [c \in Convs |->
     IF P[c] = Absent THEN Absent
     ELSE IF Unchanged(P[c], index[c]) THEN index[c] ELSE Row(P[c])]

Settled(P) ==
  [c \in Convs |-> IF P[c] = Absent THEN Absent ELSE [P[c] EXCEPT !.touched = FALSE]]

(* The pages became P, with a refresh or without one. *)
IndexNow(P)   == index' = Reindexed(P) /\ page' = Settled(P)
IndexLater(P) == index' = index /\ page' = P

-----------------------------------------------------------------------------
(* The hooks and the drain.                                                *)

Capture(o) ==
  /\ Len(observed) < MaxObs
  /\ observed' = Append(observed, o)
  /\ spool' = spool \cup {Len(observed) + 1}
  /\ UNCHANGED <<now, table, page, index, marker, exists, mishaps, swept, skipped>>

(* One spool file: a conversation's or, for Absent, the deliveries'.       *)
Drain(c) ==
  LET keys == {k \in spool : observed[k].conv = c}
      new  == {[id |-> Top + Cardinality({j \in keys : j <= k}), key |-> k] : k \in keys} IN
  /\ keys # {}
  /\ spool' = spool \ keys
  /\ table' = table \cup new
  /\ exists' = TRUE
  /\ skipped' = skipped \cup
       {d \in Convs \cap {c} : marker[d] # Absent /\ \E row \in new : row.id <= marker[d].id}
  /\ UNCHANGED <<now, observed, page, index, marker, mishaps, swept>>

-----------------------------------------------------------------------------
(* The consolidation.                                                      *)

SeenOnce(c) == marker[c] # Absent  \* mutant: a conversation is consolidated once

Seen(c) == marker[c] # Absent /\ marker[c].id >= Newest(c)

Closed(c) == HasEnded(c) \/ now - LastAt(c) >= Idle

FirstMark(c) == [id |-> Newest(c), at |-> FirstAt(c)]  \* mutant: dated by the first row

Mark(c) == [id |-> Newest(c), at |-> LastAt(c)]

(* Every open conversation is regenerated when its session stops.          *)
Todo(forced) == {c \in Heads : ~ Seen(c) /\ (forced \/ Closed(c))}

(* The pages of done are regenerated; a page that came back answers for no *)
(* earlier removal.                                                        *)
Regenerated(done) == [c \in Convs |-> IF c \in done THEN Rendered(c) ELSE page[c]]

MarksAll(done) ==  \* mutant: marked before they are written
  [c \in Convs |-> IF c \in Heads THEN Mark(c) ELSE marker[c]]

Marked(done) == [c \in Convs |-> IF c \in done THEN Mark(c) ELSE marker[c]]

Pruned(M) == [c \in Convs |-> IF M[c] # Absent /\ M[c].at < Cutoff THEN Absent ELSE M[c]]

Returned(P) == [c \in Convs |-> IF P[c] # Absent THEN Absent ELSE swept[c]]

(* A pass that reached its end: markers pruned, the index refreshed when a *)
(* page was written or removed.                                            *)
Pass(forced) ==
  LET P == Regenerated(Todo(forced)) IN
  /\ exists
  /\ marker' = Pruned(Marked(Todo(forced)))
  /\ \/ P = page /\ IndexLater(P) /\ UNCHANGED mishaps
     \/ P # page /\ IndexNow(P) /\ UNCHANGED mishaps
     \/ P # page /\ IndexLater(P) /\ mishaps < MaxMishaps /\ mishaps' = mishaps + 1
  /\ swept' = Returned(P)
  /\ UNCHANGED <<now, observed, spool, table, exists, skipped>>

(* A pass that stopped before the page of some conversation.  It failed,   *)
(* and the markers of the pages behind it are kept, or it was killed, even *)
(* behind its last page, and they are lost with it.                        *)
BrokenPass(forced) ==
  /\ exists
  /\ mishaps < MaxMishaps
  /\ mishaps' = mishaps + 1
  /\ \E done \in {{c \in Todo(forced) : c <= last} : last \in 0 .. ConvCount} :
       /\ marker' \in {Marked(done)} \cup {marker}
       /\ done = Todo(forced) => marker' = marker
       /\ page' = Regenerated(done)
       /\ swept' = Returned(Regenerated(done))
  /\ UNCHANGED <<now, observed, spool, table, index, exists, skipped>>

-----------------------------------------------------------------------------
(* The sweep.                                                              *)

AgedSince(c) == IF marker[c] # Absent THEN marker[c].at ELSE page[c].mtime

Expired(c) ==
  /\ page[c] # Absent
  /\ IF page[c].expires # Absent
       THEN page[c].expires <= now
       ELSE ~ page[c].pinned /\ now - AgedSince(c) >= Ttl

(* The rows of conversations that fell silent before the cutoff; rows of   *)
(* deliveries are kept for good.                                           *)
Outdated == UNION {Own(c) : c \in {d \in Convs : Own(d) # {} /\ LastAt(d) < Cutoff}}

DropsMarkers(gone) ==  \* mutant: the marker goes with its page
  [c \in Convs |-> IF c \in gone THEN Absent ELSE marker[c]]

(* The marker stays so consolidation does not recreate the page.           *)
KeptMarkers(gone) == marker

(* history: the page's marker told of every row the page showed. *)
Told(c) ==
  marker[c] # Absent /\ \A row \in table : row.key \in page[c].body => row.id <= marker[c].id

(* The page files are removed one after another, in any order: a removal   *)
(* that fails, or a kill, ends the sweep without a refresh.                *)
Sweep ==
  \E gone \in SUBSET {c \in Convs : Expired(c)} :
    LET P    == [c \in Convs |-> IF c \in gone THEN Absent ELSE page[c]]
        whole == gone = {c \in Convs : Expired(c)} IN
    /\ table' = table \ Outdated
    /\ marker' = KeptMarkers(gone)
    /\ \/ whole /\ (gone = {} \/ ~ exists) /\ IndexLater(P) /\ UNCHANGED mishaps
       \/ whole /\ gone # {} /\ exists /\ IndexNow(P) /\ UNCHANGED mishaps
       \/ /\ ~ whole \/ gone # {}
          /\ mishaps < MaxMishaps /\ mishaps' = mishaps + 1
          /\ IndexLater(P)
    /\ swept' = [c \in Convs |->
                   IF c \in gone THEN [body |-> page[c].body, told |-> Told(c)] ELSE swept[c]]
    /\ UNCHANGED <<now, observed, spool, exists, skipped>>

-----------------------------------------------------------------------------
(* The other holders of memory.lock.                                       *)

(* memory_patch_page on a session page: pinned and expires_at only, under  *)
(* the mtime the file had; then a refresh.  One that stops between the     *)
(* two leaves the file with the mtime of its writing.                      *)
Patched(c, pinned, expires) == [page[c] EXCEPT !.pinned = pinned, !.expires = expires]

Patch(c) ==
  /\ page[c] # Absent
  /\ \E pinned \in BOOLEAN, expires \in Dates :
       LET P == [page EXCEPT ![c] = Patched(c, pinned, expires)] IN
       /\ P # page
       /\ \/ IndexNow(P) /\ exists' = TRUE /\ UNCHANGED mishaps
          \/ /\ mishaps < MaxMishaps
             /\ mishaps' = mishaps + 1
             /\ page' = [P EXCEPT ![c].mtime = now, ![c].touched = TRUE]
             /\ UNCHANGED <<index, exists>>
  /\ UNCHANGED <<now, observed, spool, table, marker, swept, skipped>>

(* Every query, the watcher's clock, sync, lint and status. *)
Refresh ==
  /\ IndexNow(page)
  /\ exists' = TRUE
  /\ UNCHANGED <<now, observed, spool, table, marker, mishaps, swept, skipped>>

(* ivar memory clean deletes memory.db; the pages and the markers stay.    *)
Clean ==
  /\ exists
  /\ exists' = FALSE
  /\ table' = {}
  /\ index' = [c \in Convs |-> Absent]
  /\ UNCHANGED <<now, observed, spool, page, marker, mishaps, swept, skipped>>

Tick ==
  /\ now < MaxTime
  /\ now' = now + 1
  /\ UNCHANGED <<observed, spool, table, page, index, marker, exists, mishaps, swept, skipped>>

PagesNext ==
  \/ \E o \in Observations : o.at = now /\ Capture(o)
  \/ \E c \in Convs \cup {Absent} : Drain(c)
  \/ \E forced \in BOOLEAN : Pass(forced) \/ BrokenPass(forced)
  \/ Sweep
  \/ \E c \in Tended : Patch(c)
  \/ Refresh \/ Clean \/ Tick

PagesSpec == PagesInit /\ [][PagesNext]_pagesVars

-----------------------------------------------------------------------------
(* Properties.                                                             *)

PagesTypeOK ==
  /\ now \in Times
  /\ observed \in Seq(Observations) /\ Len(observed) <= MaxObs
  /\ spool \subseteq DOMAIN observed
  /\ table \subseteq [id : Nat, key : DOMAIN observed]
  /\ page \in [Convs -> Pages \cup {Absent}]
  /\ index \in [Convs -> IndexRows \cup {Absent}]
  /\ marker \in [Convs -> Markers \cup {Absent}]
  /\ exists \in BOOLEAN
  /\ mishaps \in 0 .. MaxMishaps
  /\ swept \in [Convs -> [body : SUBSET Positions, told : BOOLEAN] \cup {Absent}]
  /\ skipped \subseteq Convs

(* A row a marker counts as consolidated is on its conversation's page, or *)
(* was when the sweep removed that page, or it was not worth a page.       *)
Consolidated(c) == {row \in Own(c) : row.id <= marker[c].id}

Accounted(c) ==
  marker[c] # Absent =>
    IF page[c] # Absent
      THEN KeysOf(Consolidated(c)) \subseteq page[c].body
      ELSE \/ swept[c] # Absent /\ KeysOf(Consolidated(c)) \subseteq swept[c].body
           \/ ~ Important(Consolidated(c))

MarkedIsShown == \A c \in Convs \ skipped : Accounted(c)

(* A pass leaves nothing behind: had it run now, every closed conversation *)
(* within the retention would be on a page in full, or was when the sweep  *)
(* removed that page, whatever failed or was killed before.                *)
PassLeavesNothing ==
  \A forced \in BOOLEAN, c \in Heads \ skipped :
    (forced \/ Closed(c)) /\ Important(Own(c)) =>
      LET after == Regenerated(Todo(forced))[c] IN
      \/ after # Absent /\ KeysOf(Own(c)) \subseteq after.body
      \/ swept[c] # Absent /\ KeysOf(Own(c)) \subseteq swept[c].body

(* sweep.rs: "The marker stays so consolidation does not recreate the page *)
(* without its expires_at": a page the sweep removed comes back only with  *)
(* a row it did not show.  Not so for one whose marker was lost to a kill. *)
ExpiredStaysGone ==
  [][\A c \in Convs :
       page[c] = Absent /\ page'[c] # Absent /\ swept[c] # Absent /\ swept[c].told
         => ~ (page'[c].body \subseteq swept[c].body)]_pagesVars

(* A page removed for its age belongs to a conversation without a row      *)
(* younger than the retention.  Not so for one whose marker was lost to a  *)
(* kill, which the next pass writes again, or with a row numbered as if    *)
(* the marker told of it (NothingSkipped).                                 *)
OnlyOldPagesAge ==
  [][\A c \in Convs \ skipped :
       (/\ page[c] # Absent /\ page'[c] = Absent /\ swept'[c] # Absent
        /\ page[c].expires = Absent \/ page[c].expires > now
        /\ \E own \in Own(c) : own.key \in page[c].body /\ At(own) > now - Ttl)
       => ~ Seen(c)']_pagesVars

(* limitations-memory.md: "The index follows the disk".  A refresh, had it *)
(* run now, would leave one row per page, with the page's body and pin.    *)
IndexShowsPages ==
  \A c \in Convs :
    LET row == Reindexed(page)[c] IN
    /\ (page[c] = Absent) = (row = Absent)
    /\ page[c] # Absent => row.body = page[c].body /\ row.pinned = page[c].pinned

(* The invariant of the pages: well formed, the markers true of the pages  *)
(* and the index of the disk.                                              *)
SessionPagesInv == PagesTypeOK /\ MarkedIsShown /\ IndexShowsPages

(* The inductive invariant of the state properties. *)
PagesIInv == PagesTypeOK /\ IsFiniteSet(table) /\ MarkedIsShown

(* What dates the rows a marker counts: the inductive invariant of the     *)
(* step properties.  A page that went is judged by what it showed.         *)
ShownKeys(c) ==
  IF page[c] # Absent THEN page[c].body ELSE IF swept[c] # Absent THEN swept[c].body ELSE {}

ShownRows(c) == {row \in table : row.key \in ShownKeys(c)}

(* A page shows its conversation's rows and deliveries, drained before. *)
ShowsDrained(c) ==
  \A k \in ShownKeys(c) : k \in DOMAIN observed \ spool /\ observed[k].conv \in {c, Absent}

(* Rows that came since a page was rendered have higher numbers. *)
ShownFirst(c) ==
  \A row \in ShownRows(c), own \in Own(c) : own.key \notin ShownKeys(c) => row.id < own.id

(* No row a marker tells of is younger than the marker, or a number was    *)
(* used again, or the page shows more than the marker tells.               *)
MarkerDates(c) ==
  marker[c] # Absent =>
    /\ c \notin skipped => \A row \in Consolidated(c) : At(row) <= marker[c].at
    /\ \/ \E row \in ShownRows(c) : row.id > marker[c].id
       \/ \A row \in Own(c) \cap ShownRows(c) : At(row) <= marker[c].at

(* A swept page whose marker told of all of it: what is left of its rows   *)
(* is counted, or too old to be rendered.                                  *)
SweptIsOver(c) ==
  swept[c] # Absent =>
    /\ page[c] = Absent
    /\ swept[c].told =>
         IF marker[c] # Absent THEN \A row \in ShownRows(c) : row.id <= marker[c].id
         ELSE \A row \in Own(c) \cap ShownRows(c) : At(row) < Cutoff

RowsAreDated ==
  /\ \A row \in table : row.key \notin spool
  /\ \A c \in Convs : ShowsDrained(c) /\ ShownFirst(c) /\ MarkerDates(c) /\ SweptIsOver(c)

-----------------------------------------------------------------------------
(* What the documentation says and the code does not do.                   *)

(* on-disk-format-pages.md: `memory query` omits a page past its           *)
(* expires_at: a refresh gives the index the date the page carries.        *)
IndexFollowsDisk == \A c \in Convs : page[c] # Absent => Reindexed(page)[c] = Row(page[c])

(* limitations-memory.md: "pinned: true keeps a page past 30 days".        *)
PinnedKept ==
  [][\A c \in Convs :
       page[c] # Absent /\ page[c].pinned /\ page[c].expires = Absent => page'[c] # Absent]_pagesVars

(* No row is numbered as if its conversation's page already showed it.     *)
NothingSkipped == skipped = {}
=============================================================================
