------------------------------ MODULE Calendar ------------------------------
(***************************************************************************)
(* One calendar kept in step with Google's: local events, an outbox of     *)
(* writes the worker pushes, and pulls of what changed at Google.          *)
(*                                                                         *)
(*   packages/connectors/src/calendarSync.ts    events, outbox, pulls      *)
(*   packages/db/migrations/0051_calendar_sync.sql                         *)
(*                                                                         *)
(* The worker does one thing at a time (apps/worker/src/main.ts: a tick    *)
(* does not begin before the last one ended): it drafts approved events,   *)
(* pushes the outbox and pulls.  The API pulls beside it.  A text stands   *)
(* for all of an event that is synchronized.                               *)
(***************************************************************************)
EXTENDS Naturals

CONSTANTS
  Events,         \* local events; also the id each has at Google once pushed
  Foreign,        \* ids of events that were made at Google
  Texts,
  Apis,           \* requests of the API that pull
  Worker,         \* the worker, where it pulls
  MaxEdits, MaxChanges, MaxTrouble,  \* bounds of a behaviour
  None

ASSUME IdsAssumption == Events \cap Foreign = {} /\ None \notin Events \cup Foreign /\ None \notin Texts
ASSUME WorkerAssumption == Worker \notin Apis
ASSUME BoundsAssumption == MaxEdits \in Nat /\ MaxChanges \in Nat /\ MaxTrouble \in Nat

VARIABLES
  event,          \* calendar_events
  link,           \* calendar_event_links: by event, unique by Google's id
  outbox,         \* calendar_outbox: the last row of each event
  cursor,         \* sync_cursor of the origin; 0 without one
  remote,         \* Google's events; v is the etag, and what a cursor counts
  clock,          \* the last version Google gave out
  work,           \* what the worker is at, when it does not pull
  pull,           \* the pulls under way
  taken,          \* history: versions of Google's that a pull put to the calendar
  edits, changes, trouble  \* so far

bounds == <<edits, changes, trouble>>
vars == <<event, link, outbox, cursor, remote, clock, work, pull, taken, bounds>>

Ids == Events \cup Foreign
Pullers == Apis \cup {Worker}

NoEvent == [there |-> FALSE, text |-> None, deleted |-> FALSE, state |-> "pending"]
NoMark == [side |-> "none", text |-> None, deleted |-> FALSE]
NoLink == [id |-> None, v |-> 0, remoteMark |-> NoMark, localMark |-> NoMark]
NoRow == [status |-> "none", op |-> "create", v |-> 0]
Nowhere == [v |-> 0, text |-> None, live |-> FALSE, for |-> None]
Idle == [pc |-> "idle", e |-> None, op |-> "create", v |-> 0, id |-> None, text |-> None,
         deleted |-> FALSE, batch |-> {}]
NoItems == [g \in Ids |-> Nowhere]
NoPull == [pc |-> "idle", cursor |-> 0, next |-> 0, todo |-> {}, items |-> NoItems,
           g |-> None, e |-> None]

EventRow == [there : BOOLEAN, text : Texts \cup {None}, deleted : BOOLEAN,
             state : {"pending", "synced", "failed", "conflict"}]
Marks == [side : {"none", "row", "item"}, text : Texts \cup {None}, deleted : BOOLEAN]
Link == [id : Ids \cup {None}, v : Nat, remoteMark : Marks, localMark : Marks]
Row == [status : {"none", "queued", "running", "failed", "conflict", "done"},
        op : {"create", "update"}, v : Nat]
Item == [v : Nat, text : Texts \cup {None}, live : BOOLEAN, for : Events \cup {None}]
Work == [pc : {"idle", "enqueue", "batch", "send", "adopt", "answered", "linked"},
         e : Events \cup {None}, op : {"create", "update"}, v : Nat, id : Ids \cup {None},
         text : Texts \cup {None}, deleted : BOOLEAN, batch : SUBSET Events]
PullState == [pc : {"idle", "ask", "items", "cancel", "conflict", "take", "add", "relink", "insert"},
              cursor : Nat, next : Nat, todo : SUBSET Ids, items : [Ids -> Item],
              g : Ids \cup {None}, e : Events \cup {None}]

Active == {"queued", "running", "failed"}

\* calendarFingerprint.  A row of the database has its times as Date objects, an
\* item of Google's as the strings Google sent: the same event does not give the
\* same fingerprint on the two sides.
Mark(side, text, deleted) == [side |-> side, text |-> text, deleted |-> deleted]
MarkOf(e) == Mark("row", event[e].text, event[e].deleted)

LinkOf(g, item) ==
  LET mark == Mark("item", item.text, FALSE) IN
  [id |-> g, v |-> item.v, remoteMark |-> mark, localMark |-> mark]
LinkedTo(g) == {e \in Events : link[e].id = g}

----------------------------------------------------------------------------
(* The calendar of the person: createInternalEvent, updateInternalEvent.   *)

WorkerFree == work.pc = "idle" /\ pull[Worker].pc = "idle"

Write(e, t, op) ==
  /\ WorkerFree /\ edits < MaxEdits
  /\ event' = [event EXCEPT ![e] = [there |-> TRUE, text |-> t, deleted |-> FALSE, state |-> "pending"]]
  /\ work' = [Idle EXCEPT !.pc = "enqueue", !.e = e, !.op = op, !.v = link[e].v]
  /\ edits' = edits + 1
  /\ UNCHANGED <<link, outbox, cursor, remote, clock, pull, taken, changes, trouble>>

Create(e, t) == ~event[e].there /\ Write(e, t, "create")
Update(e, t) ==
  /\ event[e].there /\ ~event[e].deleted
  /\ Write(e, t, IF link[e].v = 0 THEN "create" ELSE "update")

\* enqueueOutbox: one row per event is in progress; a second write joins it.
Enqueue ==
  /\ work.pc = "enqueue"
  /\ LET row == outbox[work.e] IN
     outbox' = [outbox EXCEPT ![work.e] =
       [status |-> "queued", v |-> work.v,
        op |-> IF row.status \in Active /\ row.op = "create" THEN "create" ELSE work.op]]
  /\ work' = Idle
  /\ UNCHANGED <<event, link, cursor, remote, clock, pull, taken, bounds>>

----------------------------------------------------------------------------
(* processCalendarOutbox.                                                  *)

Claim(S) ==
  /\ WorkerFree
  /\ S # {} /\ \A e \in S : outbox[e].status \in {"queued", "failed"}
  /\ outbox' = [e \in Events |-> IF e \in S THEN [outbox[e] EXCEPT !.status = "running"] ELSE outbox[e]]
  /\ work' = [Idle EXCEPT !.pc = "batch", !.batch = S]
  /\ UNCHANGED <<event, link, cursor, remote, clock, pull, taken, bounds>>

\* The event and its link are read; the row is as it was claimed.
Read(e) ==
  /\ work.pc = "batch" /\ e \in work.batch
  /\ work' = [work EXCEPT !.pc = "send", !.e = e, !.op = outbox[e].op, !.v = outbox[e].v,
                          !.id = link[e].id, !.text = event[e].text,
                          !.deleted = event[e].deleted]
  /\ UNCHANGED <<event, link, outbox, cursor, remote, clock, pull, taken, bounds>>

\* What is left of the batch.
Rest == LET S == work.batch \ {work.e} IN
        IF S = {} THEN Idle ELSE [Idle EXCEPT !.pc = "batch", !.batch = S]

Ended(status, state) ==
  /\ outbox' = [outbox EXCEPT ![work.e].status = status]
  /\ event' = [event EXCEPT ![work.e].state = state]
  /\ work' = Rest

\* Google has it; the answer arrives, or it does not and the row is tried again.
Answer(version) ==
  \/ /\ work' = [work EXCEPT !.pc = "answered", !.v = version,
                             !.id = IF @ = None THEN work.e ELSE @]
     /\ UNCHANGED <<event, outbox, trouble>>
  \/ /\ trouble < MaxTrouble /\ trouble' = trouble + 1
     /\ Ended("failed", "failed")

Stored(g, row) == remote' = [remote EXCEPT ![g] = row] /\ clock' = clock + 1

\* Google names the new event itself.
PostUnnamed ==
  /\ work.pc = "send" /\ work.op = "create" /\ work.id = None
  /\ \E g \in Ids :
       /\ remote[g].v = 0
       /\ Stored(g, [v |-> clock + 1, text |-> work.text, live |-> TRUE, for |-> work.e])
  /\ Answer(clock + 1)
  /\ UNCHANGED <<link, cursor, pull, taken, edits, changes>>

\* The id of the event is the id it is to have at Google.
Post ==
  /\ work.pc = "send" /\ work.op = "create" /\ work.id = None
  /\ remote[work.e].v = 0
  /\ Stored(work.e, [v |-> clock + 1, text |-> work.text, live |-> TRUE, for |-> work.e])
  /\ Answer(clock + 1)
  /\ UNCHANGED <<link, cursor, pull, taken, edits, changes>>

\* 409: Google has that id, and the event it has is read.
AlreadyThere ==
  /\ work.pc = "send" /\ work.op = "create" /\ work.id = None
  /\ remote[work.e].v # 0
  /\ work' = [work EXCEPT !.pc = "adopt"]
  /\ UNCHANGED <<event, link, outbox, cursor, remote, clock, pull, taken, bounds>>

Adopt ==
  /\ work.pc = "adopt"
  /\ Answer(remote[work.e].v)
  /\ UNCHANGED <<link, cursor, remote, clock, pull, taken, edits, changes>>

\* If-Match: the etag of the link when the write was queued.
Patch ==
  /\ work.pc = "send" /\ work.op = "update"
  /\ remote[work.id].v = work.v
  /\ Stored(work.id, [remote[work.id] EXCEPT !.v = clock + 1, !.text = work.text, !.live = TRUE])
  /\ Answer(clock + 1)
  /\ UNCHANGED <<link, cursor, pull, taken, edits, changes>>

\* 412
PatchRefused ==
  /\ work.pc = "send" /\ work.op = "update"
  /\ remote[work.id].v # work.v
  /\ Ended("conflict", "conflict")
  /\ UNCHANGED <<link, cursor, remote, clock, pull, taken, bounds>>

\* A create of an event that a pull linked meanwhile is posted to that event's own
\* address, where Google takes no POST.
PostMisplaced ==
  /\ work.pc = "send" /\ work.op = "create" /\ work.id # None
  /\ Ended("failed", "failed")
  /\ UNCHANGED <<link, cursor, remote, clock, pull, taken, bounds>>

\* No session, no connection, another refusal.
NotSent ==
  /\ work.pc = "send" /\ trouble < MaxTrouble
  /\ trouble' = trouble + 1
  /\ Ended("failed", "failed")
  /\ UNCHANGED <<link, cursor, remote, clock, pull, taken, edits, changes>>

\* The link, then the event; Google's id has one link.
Linked ==
  /\ work.pc = "answered"
  /\ IF LinkedTo(work.id) \subseteq {work.e}
       THEN /\ link' = [link EXCEPT ![work.e] =
                 LET mark == Mark("row", work.text, work.deleted) IN
                 [id |-> work.id, v |-> work.v, remoteMark |-> mark, localMark |-> mark]]
            /\ event' = [event EXCEPT ![work.e].state = "synced"]
            /\ work' = [work EXCEPT !.pc = "linked"]
            /\ UNCHANGED outbox
       ELSE Ended("failed", "failed") /\ UNCHANGED link
  /\ UNCHANGED <<cursor, remote, clock, pull, taken, bounds>>

Done ==
  /\ work.pc = "linked"
  /\ outbox' = [outbox EXCEPT ![work.e].status = "done"]
  /\ work' = Rest
  /\ UNCHANGED <<event, link, cursor, remote, clock, pull, taken, bounds>>

----------------------------------------------------------------------------
(* syncCalendarOrigin.                                                     *)

Begin(p) ==
  /\ pull[p].pc = "idle" /\ (p = Worker => work.pc = "idle")
  /\ pull' = [pull EXCEPT ![p] = [NoPull EXCEPT !.pc = "ask", !.cursor = cursor]]
  /\ UNCHANGED <<event, link, outbox, cursor, remote, clock, work, taken, bounds>>

\* The cursor is moved before what it stands for is in the calendar.
ListAndMove(p) ==
  /\ pull[p].pc = "ask"
  /\ pull' = [pull EXCEPT ![p].pc = "items", ![p].next = clock, ![p].items = remote,
       ![p].todo = {g \in Ids : remote[g].v > pull[p].cursor}]
  /\ cursor' = clock
  /\ UNCHANGED <<event, link, outbox, remote, clock, work, taken, bounds>>

\* What changed since the cursor, cancelled events with it, and the next cursor.
List(p) ==
  /\ pull[p].pc = "ask"
  /\ pull' = [pull EXCEPT ![p].pc = "items", ![p].next = clock, ![p].items = remote,
       ![p].todo = {g \in Ids : remote[g].v > pull[p].cursor}]
  /\ UNCHANGED <<event, link, outbox, cursor, remote, clock, work, taken, bounds>>

\* 410: the cursor is dropped, and everything is listed again.
CursorGone(p) ==
  /\ pull[p].pc = "ask" /\ pull[p].cursor # 0
  /\ trouble < MaxTrouble /\ trouble' = trouble + 1
  /\ cursor' = 0
  /\ pull' = [pull EXCEPT ![p].cursor = 0]
  /\ UNCHANGED <<event, link, outbox, remote, clock, work, taken, edits, changes>>

\* applyRemote: what it makes of an item, from the link and the event it reads.
Ahead(p, g, pc, e) == pull' = [pull EXCEPT ![p].pc = pc, ![p].g = g, ![p].e = e]
Put(p, g) == taken' = taken \cup {<<g, pull[p].items[g].v>>}
NextItem(p, g) == pull' = [pull EXCEPT ![p].pc = "items", ![p].g = None, ![p].e = None, ![p].todo = @ \ {g}]

Look(p, g) ==
  /\ pull[p].pc = "items" /\ g \in pull[p].todo
  /\ LET item == pull[p].items[g] IN
     \/ \E e \in LinkedTo(g) :
          /\ UNCHANGED taken
          /\ IF ~item.live THEN Ahead(p, g, "cancel", e)
             ELSE IF /\ Mark("item", item.text, FALSE) # link[e].remoteMark
                     /\ MarkOf(e) # link[e].localMark
               THEN Ahead(p, g, "conflict", e) ELSE Ahead(p, g, "take", e)
     \/ /\ LinkedTo(g) = {}
        /\ IF item.live THEN Ahead(p, g, "add", None) /\ UNCHANGED taken
           ELSE NextItem(p, g) /\ Put(p, g)
  /\ UNCHANGED <<event, link, outbox, cursor, remote, clock, work, bounds>>

Cancelled(p) ==
  /\ pull[p].pc = "cancel"
  /\ event' = [event EXCEPT ![pull[p].e].deleted = TRUE, ![pull[p].e].state = "synced"]
  /\ NextItem(p, pull[p].g) /\ Put(p, pull[p].g)
  /\ UNCHANGED <<link, outbox, cursor, remote, clock, work, bounds>>

Conflict(p) ==
  /\ pull[p].pc = "conflict"
  /\ event' = [event EXCEPT ![pull[p].e].state = "conflict"]
  /\ NextItem(p, pull[p].g) /\ Put(p, pull[p].g)
  /\ UNCHANGED <<link, outbox, cursor, remote, clock, work, bounds>>

\* Google's text is written over the event, or into a new one.
Take(p) ==
  /\ pull[p].pc \in {"take", "add"}
  /\ \E e \in Events :
       /\ IF pull[p].pc = "take" THEN e = pull[p].e ELSE ~event[e].there /\ remote[e].v = 0
       /\ event' = [event EXCEPT ![e] =
            [there |-> TRUE, text |-> pull[p].items[pull[p].g].text, deleted |-> FALSE, state |-> "synced"]]
       /\ Ahead(p, pull[p].g, IF pull[p].pc = "take" THEN "relink" ELSE "insert", e)
  /\ UNCHANGED <<link, outbox, cursor, remote, clock, work, taken, bounds>>

\* Then the link that Google's id has by now, if it has one.
Relink(p) ==
  /\ pull[p].pc = "relink"
  /\ link' = [e \in Events |-> IF e \in LinkedTo(pull[p].g)
                               THEN LinkOf(pull[p].g, pull[p].items[pull[p].g]) ELSE link[e]]
  /\ NextItem(p, pull[p].g) /\ Put(p, pull[p].g)
  /\ UNCHANGED <<event, outbox, cursor, remote, clock, work, bounds>>

\* A link for the new event; if it or Google's id has one by now, the pull ends in an
\* error.
Insert(p) ==
  /\ pull[p].pc = "insert"
  /\ IF link[pull[p].e].id = None /\ LinkedTo(pull[p].g) = {}
       THEN /\ link' = [link EXCEPT ![pull[p].e] = LinkOf(pull[p].g, pull[p].items[pull[p].g])]
            /\ NextItem(p, pull[p].g) /\ Put(p, pull[p].g)
       ELSE /\ pull' = [pull EXCEPT ![p] = NoPull]
            /\ UNCHANGED <<link, taken>>
  /\ UNCHANGED <<event, outbox, cursor, remote, clock, work, bounds>>

End(p) ==
  /\ pull[p].pc = "items" /\ pull[p].todo = {}
  /\ cursor' = pull[p].next
  /\ pull' = [pull EXCEPT ![p] = NoPull]
  /\ UNCHANGED <<event, link, outbox, remote, clock, work, taken, bounds>>

\* A request that fails, a process that dies.
PullFails(p) ==
  /\ pull[p].pc # "idle" /\ trouble < MaxTrouble
  /\ trouble' = trouble + 1
  /\ pull' = [pull EXCEPT ![p] = NoPull]
  /\ UNCHANGED <<event, link, outbox, cursor, remote, clock, work, taken, edits, changes>>

Die ==
  /\ work.pc # "idle" /\ trouble < MaxTrouble
  /\ trouble' = trouble + 1
  /\ work' = Idle
  /\ UNCHANGED <<event, link, outbox, cursor, remote, clock, pull, taken, edits, changes>>

----------------------------------------------------------------------------
(* Google's own users.                                                     *)

GoogleEdits(g, t) ==
  /\ changes < MaxChanges /\ changes' = changes + 1
  /\ IF remote[g].v = 0 THEN g \in Foreign ELSE remote[g].live /\ remote[g].text # t
  /\ Stored(g, [remote[g] EXCEPT !.v = clock + 1, !.text = t, !.live = TRUE])
  /\ UNCHANGED <<event, link, outbox, cursor, work, pull, taken, edits, trouble>>

GoogleCancels(g) ==
  /\ changes < MaxChanges /\ changes' = changes + 1
  /\ remote[g].live
  /\ Stored(g, [remote[g] EXCEPT !.v = clock + 1, !.live = FALSE])
  /\ UNCHANGED <<event, link, outbox, cursor, work, pull, taken, edits, trouble>>

----------------------------------------------------------------------------
Init ==
  /\ event = [e \in Events |-> NoEvent] /\ link = [e \in Events |-> NoLink]
  /\ outbox = [e \in Events |-> NoRow] /\ cursor = 0
  /\ remote = [g \in Ids |-> Nowhere] /\ clock = 0
  /\ work = Idle /\ pull = [p \in Pullers |-> NoPull] /\ taken = {}
  /\ edits = 0 /\ changes = 0 /\ trouble = 0

Push ==
  \/ \E S \in SUBSET Events : Claim(S)
  \/ \E e \in Events : Read(e)
  \/ Post \/ AlreadyThere \/ Adopt \/ Patch \/ PatchRefused \/ PostMisplaced \/ NotSent
  \/ Linked \/ Done

Pull(p) ==
  \/ Begin(p) \/ List(p) \/ CursorGone(p)
  \/ \E g \in Ids : Look(p, g)
  \/ Cancelled(p) \/ Conflict(p) \/ Take(p) \/ Relink(p) \/ Insert(p) \/ End(p) \/ PullFails(p)

Next ==
  \/ \E e \in Events, t \in Texts : Create(e, t) \/ Update(e, t)
  \/ Enqueue \/ Push \/ Die
  \/ \E p \in Pullers : Pull(p)
  \/ \E g \in Ids : GoogleCancels(g) \/ \E t \in Texts : GoogleEdits(g, t)

Spec == Init /\ [][Next]_vars

----------------------------------------------------------------------------
(* Properties.                                                             *)

\* The rows, the requests and the pulls are what the code's queries and types let
\* them be.
TypeOK ==
  /\ event \in [Events -> EventRow] /\ link \in [Events -> Link] /\ outbox \in [Events -> Row]
  /\ cursor \in Nat /\ remote \in [Ids -> Item] /\ clock \in Nat
  /\ work \in Work /\ pull \in [Pullers -> PullState] /\ taken \subseteq Ids \X Nat
  /\ edits \in 0..MaxEdits /\ changes \in 0..MaxChanges /\ trouble \in 0..MaxTrouble

\* However often a create is tried, and wherever the worker dies, an event made
\* here is made at Google once.
MadeOnce ==
  \A g, h \in Ids : remote[g].for # None /\ remote[g].for = remote[h].for => g = h

\* The cursor never passes a version of Google's that was not put to the calendar,
\* however pulls overlap and wherever they end.
NothingSkipped ==
  \A g \in Ids : remote[g].v # 0 /\ remote[g].v <= cursor => <<g, remote[g].v>> \in taken

\* What the calendar shows as synced, with the version its link names still the
\* last at Google, is what Google has.
SyncedIsPushed ==
  \A e \in Events :
    /\ event[e].there /\ event[e].state = "synced" /\ outbox[e].status \notin Active
    /\ link[e].id # None /\ link[e].v = remote[link[e].id].v
    /\ work.e # e /\ \A p \in Pullers : pull[p].e # e
    => event[e].text = remote[link[e].id].text
=============================================================================
