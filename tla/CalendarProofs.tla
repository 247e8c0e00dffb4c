--------------------------- MODULE CalendarProofs ---------------------------
(***************************************************************************)
(* What holds of Calendar for any number of events, texts, requests of the *)
(* API, edits on either side and lost answers.                             *)
(***************************************************************************)
EXTENDS Calendar, TLAPS

----------------------------------------------------------------------------
(* The inductive invariant.                                                *)

\* All that Google gave out up to c was put to the calendar.
Known(c) == \A g \in Ids : remote[g].v # 0 /\ remote[g].v <= c => <<g, remote[g].v>> \in taken

\* Of what a pull has listed, the rest is still to do, and as it was listed.
Listed(p) == pull[p].pc \notin {"idle", "ask"}
Covers(p) ==
  Listed(p) => \A g \in Ids : remote[g].v # 0 /\ remote[g].v <= pull[p].next =>
    \/ <<g, remote[g].v>> \in taken
    \/ g \in pull[p].todo /\ pull[p].items[g].v = remote[g].v

AtItsItem(p) ==
  /\ pull[p].pc \in {"cancel", "conflict", "take", "add", "relink", "insert"} => pull[p].g \in Ids
  /\ pull[p].pc \in {"cancel", "conflict", "take", "relink", "insert"} => pull[p].e \in Events

PullInv(p) ==
  /\ pull[p].cursor <= clock /\ pull[p].next <= clock
  /\ Known(pull[p].cursor) /\ Covers(p) /\ AtItsItem(p)

AtItsEvent == work.pc \notin {"idle", "batch"} => work.e \in Events
MadeById == \A g \in Ids : remote[g].for \in {None, g}
NoneAhead == cursor <= clock /\ \A g \in Ids : remote[g].v <= clock

IInv ==
  /\ TypeOK /\ AtItsEvent /\ MadeById /\ NoneAhead
  /\ Known(cursor) /\ \A p \in Pullers : PullInv(p)

----------------------------------------------------------------------------
(* Steps that leave what was pulled as it is.                              *)

\* Neither Google nor a pull moves.
LEMMA NothingPulled ==
  ASSUME IInv, UNCHANGED <<cursor, remote, clock, pull, taken>>
  PROVE  MadeById' /\ NoneAhead' /\ Known(cursor)' /\ \A p \in Pullers : PullInv(p)'
BY DEF IInv, MadeById, NoneAhead, Known, PullInv, Listed, Covers, AtItsItem

\* Google gives out a new version, which no cursor has passed.
LEMMA GoogleMoves ==
  ASSUME IInv, NEW h \in Ids, NEW row, row.v = clock + 1, row.for \in {None, h}, Stored(h, row),
         UNCHANGED <<cursor, pull, taken>>
  PROVE  MadeById' /\ NoneAhead' /\ Known(cursor)' /\ \A p \in Pullers : PullInv(p)'
<1>1. /\ \A g \in Ids : remote'[g] = IF g = h THEN row ELSE remote[g]
      /\ clock' = clock + 1 /\ clock \in Nat /\ cursor \in Nat
      /\ \A g \in Ids : remote[g].v \in Nat
      /\ \A p \in Pullers : pull[p].cursor \in Nat /\ pull[p].next \in Nat
  BY DEF IInv, TypeOK, Stored, Item, PullState
<1>2. MadeById' /\ NoneAhead'
  BY <1>1 DEF IInv, MadeById, NoneAhead
<1>3. \A c \in Nat : c <= clock /\ Known(c) =>
         \A g \in Ids : remote'[g].v # 0 /\ remote'[g].v <= c => <<g, remote'[g].v>> \in taken
  BY <1>1 DEF Known
<1>4. Known(cursor)'
  BY <1>1, <1>3 DEF IInv, NoneAhead, Known
<1>5. ASSUME NEW p \in Pullers
      PROVE  PullInv(p)'
  <2>1. PullInv(p) /\ pull[p].cursor \in Nat /\ pull[p].next \in Nat /\ pull'[p] = pull[p]
    BY <1>1 DEF IInv
  <2>2. (pull[p].cursor <= clock /\ pull[p].next <= clock)' /\ AtItsItem(p)'
    BY <1>1, <2>1 DEF PullInv, AtItsItem
  <2>3. Known(pull[p].cursor)'
    BY <1>1, <1>3, <2>1 DEF PullInv, Known
  <2>4. Covers(p)'
    BY <1>1, <2>1 DEF PullInv, Covers, Listed
  <2> QED  BY <2>2, <2>3, <2>4 DEF PullInv
<1> QED  BY <1>2, <1>4, <1>5

----------------------------------------------------------------------------
(* The types.                                                              *)

LEMMA InitIInv == Init => IInv
<1> SUFFICES ASSUME Init PROVE IInv
  OBVIOUS
<1>1. TypeOK
  BY BoundsAssumption, IdsAssumption DEF Init, TypeOK, NoEvent, EventRow, NoLink, NoMark, Link, Marks, NoRow, Row, Nowhere,
     Item, Idle, Work, NoPull, NoItems, PullState
<1>2. AtItsEvent /\ MadeById /\ NoneAhead /\ Known(cursor)
  BY DEF Init, AtItsEvent, MadeById, NoneAhead, Known, Idle, Nowhere
<1>3. \A p \in Pullers : PullInv(p)
  BY DEF Init, PullInv, Known, Covers, Listed, AtItsItem, NoPull, Nowhere
<1> QED  BY <1>1, <1>2, <1>3 DEF IInv

\* What a step of the worker, of the calendar or of Google may make of the rows.
RowTypes ==
  /\ event \in [Events -> EventRow] /\ link \in [Events -> Link] /\ outbox \in [Events -> Row]
  /\ remote \in [Ids -> Item] /\ clock \in Nat /\ work \in Work
  /\ edits \in 0..MaxEdits /\ changes \in 0..MaxChanges /\ trouble \in 0..MaxTrouble

LEMMA RowTypesDo ==
  ASSUME IInv, RowTypes', AtItsEvent', UNCHANGED <<cursor, pull, taken>>,
         MadeById' /\ NoneAhead' /\ Known(cursor)' /\ \A p \in Pullers : PullInv(p)'
  PROVE  IInv'
<1>1. TypeOK'
  BY DEF IInv, RowTypes, TypeOK
<1> QED  BY <1>1 DEF IInv

\* An edit, a claim, a refusal, a link: Google does not move.
LEMMA QuietStep ==
  ASSUME IInv, RowTypes', AtItsEvent', UNCHANGED <<cursor, remote, clock, pull, taken>>
  PROVE  IInv'
BY NothingPulled, RowTypesDo

LEMMA RestTypes == ASSUME IInv PROVE Rest \in Work /\ Rest.pc \in {"idle", "batch"}
BY IdsAssumption DEF IInv, TypeOK, Rest, Idle, Work

LEMMA EndedTypes ==
  ASSUME IInv, work.e \in Events,
         NEW status \in {"failed", "conflict"}, NEW state \in {"failed", "conflict"},
         Ended(status, state)
  PROVE  /\ event' \in [Events -> EventRow] /\ outbox' \in [Events -> Row]
         /\ work' \in Work /\ AtItsEvent'
<1>1. event' \in [Events -> EventRow]
  BY DEF IInv, TypeOK, Ended, EventRow
<1>2. outbox' \in [Events -> Row]
  BY DEF IInv, TypeOK, Ended, Row
<1> QED  BY <1>1, <1>2, RestTypes DEF Ended, AtItsEvent

LEMMA AnswerTypes ==
  ASSUME IInv, work.e \in Events, NEW version \in Nat, Answer(version)
  PROVE  /\ event' \in [Events -> EventRow] /\ outbox' \in [Events -> Row]
         /\ work' \in Work /\ AtItsEvent' /\ trouble' \in 0..MaxTrouble
<1>1. CASE UNCHANGED <<event, outbox, trouble>>
           /\ work' = [work EXCEPT !.pc = "answered", !.v = version,
                                   !.id = IF @ = None THEN work.e ELSE @]
  <2>1. work' \in Work /\ work'.e = work.e
    BY <1>1 DEF IInv, TypeOK, Work, Ids
  <2> QED  BY <1>1, <2>1 DEF IInv, TypeOK, AtItsEvent
<1>2. CASE trouble < MaxTrouble /\ trouble' = trouble + 1 /\ Ended("failed", "failed")
  <2>1. trouble' \in 0..MaxTrouble
    BY <1>2, BoundsAssumption DEF IInv, TypeOK
  <2> QED  BY <1>2, <2>1, EndedTypes
<1> QED  BY <1>1, <1>2 DEF Answer

----------------------------------------------------------------------------
(* The calendar of the person and the outbox.                              *)

LEMMA EditStep ==
  ASSUME IInv, NEW e \in Events, NEW t \in Texts, Create(e, t) \/ Update(e, t)
  PROVE  IInv'
<1>1. PICK op \in {"create", "update"} : Write(e, t, op)
  BY DEF Create, Update
<1>2. event' \in [Events -> EventRow]
  BY <1>1 DEF Write, IInv, TypeOK, EventRow
<1>3. work' \in Work /\ work'.e = e
  BY <1>1 DEF Write, IInv, TypeOK, Work, Idle, Link
<1>4. edits' \in 0..MaxEdits
  BY <1>1, BoundsAssumption DEF Write, IInv, TypeOK
<1>5. RowTypes' /\ AtItsEvent'
  BY <1>1, <1>2, <1>3, <1>4 DEF Write, IInv, TypeOK, RowTypes, AtItsEvent
<1> QED  BY <1>1, <1>5, QuietStep DEF Write

LEMMA IdleTypes == Idle \in Work /\ Idle.pc = "idle"
BY DEF Idle, Work

LEMMA EnqueueStep == ASSUME IInv, Enqueue PROVE IInv'
<1>1. work.e \in Events
  BY DEF IInv, AtItsEvent, Enqueue
<1>2. outbox' \in [Events -> Row]
  BY <1>1 DEF Enqueue, IInv, TypeOK, Row, Work
<1>3. RowTypes' /\ AtItsEvent'
  BY <1>2, IdleTypes DEF Enqueue, bounds, IInv, TypeOK, RowTypes, AtItsEvent
<1> QED  BY <1>3, QuietStep DEF Enqueue

LEMMA ClaimStep == ASSUME IInv, NEW S \in SUBSET Events, Claim(S) PROVE IInv'
<1>1. outbox' \in [Events -> Row]
  BY DEF Claim, IInv, TypeOK, Row
<1>2. work' \in Work /\ work'.pc = "batch"
  BY DEF Claim, Idle, Work
<1>3. RowTypes' /\ AtItsEvent'
  BY <1>1, <1>2 DEF Claim, bounds, IInv, TypeOK, RowTypes, AtItsEvent
<1> QED  BY <1>3, QuietStep DEF Claim

LEMMA ReadStep == ASSUME IInv, NEW e \in Events, Read(e) PROVE IInv'
<1>1. work' \in Work /\ work'.e = e
  BY DEF Read, IInv, TypeOK, Work, Row, Link, EventRow
<1>2. RowTypes' /\ AtItsEvent'
  BY <1>1 DEF Read, bounds, IInv, TypeOK, RowTypes, AtItsEvent
<1> QED  BY <1>2, QuietStep DEF Read

LEMMA PostStep == ASSUME IInv, Post PROVE IInv'
<1> DEFINE row == [v |-> clock + 1, text |-> work.text, live |-> TRUE, for |-> work.e]
<1>1. work.e \in Events /\ work.e \in Ids /\ Stored(work.e, row) /\ Answer(clock + 1)
  BY DEF IInv, AtItsEvent, Post, Ids
<1>2. row \in Item /\ clock + 1 \in Nat
  BY <1>1 DEF IInv, TypeOK, Item, Work
<1>3. remote' \in [Ids -> Item] /\ clock' \in Nat
  BY <1>1, <1>2 DEF IInv, TypeOK, Stored
<1>4. RowTypes' /\ AtItsEvent'
  BY <1>1, <1>2, <1>3, AnswerTypes DEF Post, IInv, TypeOK, RowTypes
<1>5. row.v = clock + 1 /\ row.for \in {None, work.e} /\ UNCHANGED <<cursor, pull, taken>>
  BY DEF Post
<1>6. MadeById' /\ NoneAhead' /\ Known(cursor)' /\ \A p \in Pullers : PullInv(p)'
  BY <1>1, <1>5, GoogleMoves
<1> QED  BY <1>4, <1>5, <1>6, RowTypesDo

LEMMA PatchStep == ASSUME IInv, Patch PROVE IInv'
<1> DEFINE row == [remote[work.id] EXCEPT !.v = clock + 1, !.text = work.text, !.live = TRUE]
<1>1. work.e \in Events /\ Stored(work.id, row) /\ Answer(clock + 1) /\ UNCHANGED <<cursor, pull, taken>>
  BY DEF IInv, AtItsEvent, Patch
<1>2. clock + 1 \in Nat
  BY DEF IInv, TypeOK
<1>3. CASE work.id \in Ids
  <2>1. row \in Item /\ row.v = clock + 1 /\ row.for \in {None, work.id}
    <3>1. remote[work.id] \in Item /\ clock \in Nat /\ work.text \in Texts \cup {None}
      BY <1>3 DEF IInv, TypeOK, Work
    <3>2. row \in Item /\ row.v = clock + 1 /\ row.for = remote[work.id].for
      <4>1. row \in Item
        BY <1>2, <3>1 DEF Item
      <4>2. row.v = clock + 1
        BY <1>2, <3>1 DEF Item
      <4>3. row.for = remote[work.id].for
        BY <3>1 DEF Item
      <4> QED  BY <4>1, <4>2, <4>3
    <3> QED  BY <1>3, <3>2 DEF IInv, MadeById
  <2>2. remote' \in [Ids -> Item] /\ clock' \in Nat
    BY <1>1, <1>2, <1>3, <2>1 DEF IInv, TypeOK, Stored
  <2>3. RowTypes' /\ AtItsEvent'
    BY <1>1, <1>2, <2>2, AnswerTypes DEF Patch, IInv, TypeOK, RowTypes
  <2>4. MadeById' /\ NoneAhead' /\ Known(cursor)' /\ \A p \in Pullers : PullInv(p)'
    BY <1>1, <1>3, <2>1, GoogleMoves
  <2> QED  BY <1>1, <2>3, <2>4, RowTypesDo
<1>4. CASE work.id \notin Ids
  <2>1. remote' = remote /\ clock' = clock + 1
    BY <1>1, <1>4 DEF Stored, IInv, TypeOK
  <2>2. RowTypes' /\ AtItsEvent'
    BY <1>1, <1>2, <2>1, AnswerTypes DEF Patch, IInv, TypeOK, RowTypes
  <2>3. MadeById' /\ NoneAhead' /\ Known(cursor)'
    BY <1>1, <2>1 DEF IInv, TypeOK, MadeById, NoneAhead, Known, Item
  <2>4. ASSUME NEW p \in Pullers PROVE PullInv(p)'
    <3>1. PullInv(p) /\ pull[p].cursor \in Nat /\ pull[p].next \in Nat /\ clock \in Nat
      BY DEF IInv, TypeOK, PullState
    <3> QED  BY <1>1, <2>1, <3>1 DEF PullInv, Known, Covers, Listed, AtItsItem
  <2> QED  BY <1>1, <2>2, <2>3, <2>4, RowTypesDo
<1> QED  BY <1>3, <1>4

LEMMA AdoptStep == ASSUME IInv, Adopt PROVE IInv'
<1>1. work.e \in Events /\ work.e \in Ids
  BY DEF IInv, AtItsEvent, Adopt, Ids
<1>2. remote[work.e].v \in Nat
  BY <1>1 DEF IInv, TypeOK, Item
<1>3. RowTypes' /\ AtItsEvent'
  BY <1>1, <1>2, AnswerTypes DEF Adopt, IInv, TypeOK, RowTypes
<1> QED  BY <1>3, QuietStep DEF Adopt

LEMMA AlreadyThereStep == ASSUME IInv, AlreadyThere PROVE IInv'
<1>1. work.e \in Events /\ work' \in Work /\ work'.e = work.e
  BY DEF IInv, AtItsEvent, AlreadyThere, TypeOK, Work
<1>2. RowTypes' /\ AtItsEvent'
  BY <1>1 DEF AlreadyThere, bounds, IInv, TypeOK, RowTypes, AtItsEvent
<1> QED  BY <1>2, QuietStep DEF AlreadyThere

LEMMA RefusedStep == ASSUME IInv, PatchRefused \/ PostMisplaced \/ NotSent PROVE IInv'
<1>1. work.e \in Events /\ trouble' \in 0..MaxTrouble
  BY BoundsAssumption DEF IInv, AtItsEvent, PatchRefused, PostMisplaced, NotSent, TypeOK, bounds
<1>2. Ended("conflict", "conflict") \/ Ended("failed", "failed")
  BY DEF PatchRefused, PostMisplaced, NotSent
<1>3. RowTypes' /\ AtItsEvent'
  BY <1>1, <1>2, EndedTypes DEF PatchRefused, PostMisplaced, NotSent, bounds, IInv, TypeOK, RowTypes
<1> QED  BY <1>3, QuietStep DEF PatchRefused, PostMisplaced, NotSent

LEMMA LinkedStep == ASSUME IInv, Linked PROVE IInv'
<1>1. work.e \in Events
  BY DEF IInv, AtItsEvent, Linked
<1>2. CASE LinkedTo(work.id) \subseteq {work.e}
  <2>1. link' \in [Events -> Link]
    BY <1>1, <1>2 DEF Linked, IInv, TypeOK, Link, Marks, Mark, Work
  <2>2. event' \in [Events -> EventRow]
    <3>1. event' = [event EXCEPT ![work.e].state = "synced"] /\ event \in [Events -> EventRow]
      BY <1>2 DEF Linked, IInv, TypeOK
    <3> QED  BY <1>1, <3>1 DEF EventRow
  <2>3. work' \in Work /\ work'.e = work.e
    BY <1>2 DEF Linked, IInv, TypeOK, Work
  <2>4. RowTypes' /\ AtItsEvent'
    BY <1>1, <1>2, <2>1, <2>2, <2>3 DEF Linked, bounds, IInv, TypeOK, RowTypes, AtItsEvent
  <2> QED  BY <2>4, QuietStep DEF Linked
<1>3. CASE ~(LinkedTo(work.id) \subseteq {work.e})
  <2>1. RowTypes' /\ AtItsEvent'
    BY <1>1, <1>3, EndedTypes DEF Linked, bounds, IInv, TypeOK, RowTypes
  <2> QED  BY <2>1, QuietStep DEF Linked
<1> QED  BY <1>2, <1>3

LEMMA DoneStep == ASSUME IInv, Done \/ Die PROVE IInv'
<1>1. CASE Done
  <2>1. outbox' \in [Events -> Row]
    BY <1>1 DEF Done, IInv, TypeOK, Row
  <2>2. RowTypes' /\ AtItsEvent'
    BY <1>1, <2>1, RestTypes DEF Done, bounds, IInv, TypeOK, RowTypes, AtItsEvent
  <2> QED  BY <1>1, <2>2, QuietStep DEF Done
<1>2. CASE Die
  <2>1. RowTypes' /\ AtItsEvent'
    BY <1>2, IdleTypes, BoundsAssumption DEF Die, IInv, TypeOK, RowTypes, AtItsEvent
  <2> QED  BY <1>2, <2>1, QuietStep DEF Die
<1> QED  BY <1>1, <1>2

----------------------------------------------------------------------------
(* Google's own users.                                                     *)

LEMMA GoogleStep ==
  ASSUME IInv, NEW g \in Ids, GoogleCancels(g) \/ \E t \in Texts : GoogleEdits(g, t)
  PROVE  IInv'
<1>1. PICK t \in Texts \cup {None}, live \in BOOLEAN :
        /\ Stored(g, [remote[g] EXCEPT !.v = clock + 1, !.text = t, !.live = live])
        /\ changes < MaxChanges /\ changes' = changes + 1
        /\ UNCHANGED <<event, link, outbox, cursor, work, pull, taken, edits, trouble>>
  <2>1. CASE GoogleCancels(g)
    <3>1. remote[g] \in Item
      BY DEF IInv, TypeOK
    <3>2. remote[g].text \in Texts \cup {None}
      BY <3>1 DEF Item
    <3>3. [remote[g] EXCEPT !.v = clock + 1, !.live = FALSE]
            = [remote[g] EXCEPT !.v = clock + 1, !.text = remote[g].text, !.live = FALSE]
      BY <3>1 DEF Item
    <3> QED  BY <2>1, <3>2, <3>3 DEF GoogleCancels
  <2>2. CASE \E t \in Texts : GoogleEdits(g, t)
    BY <2>2 DEF GoogleEdits
  <2> QED  BY <2>1, <2>2
<1> DEFINE row == [remote[g] EXCEPT !.v = clock + 1, !.text = t, !.live = live]
<1>2. remote[g] \in Item /\ clock \in Nat
  BY DEF IInv, TypeOK
<1>3. row \in Item /\ row.v = clock + 1 /\ row.for = remote[g].for
  <2>1. clock + 1 \in Nat /\ t \in Texts \cup {None} /\ live \in BOOLEAN
    BY <1>1, <1>2
  <2>2. row \in Item
    BY <1>2, <2>1 DEF Item
  <2>3. row.v = clock + 1
    BY <1>2, <2>1 DEF Item
  <2>4. row.for = remote[g].for
    BY <1>2 DEF Item
  <2> QED  BY <2>2, <2>3, <2>4
<1>4. row.for \in {None, g}
  BY <1>3 DEF IInv, MadeById
<1>5. changes' \in 0..MaxChanges
  BY <1>1, BoundsAssumption DEF IInv, TypeOK
<1>6. remote' \in [Ids -> Item] /\ clock' \in Nat
  BY <1>1, <1>2, <1>3 DEF Stored, IInv, TypeOK
<1>7. RowTypes' /\ AtItsEvent'
  BY <1>1, <1>5, <1>6 DEF IInv, TypeOK, RowTypes, AtItsEvent
<1>8. MadeById' /\ NoneAhead' /\ Known(cursor)' /\ \A p \in Pullers : PullInv(p)'
  BY <1>1, <1>3, <1>4, GoogleMoves
<1> QED  BY <1>1, <1>7, <1>8, RowTypesDo

----------------------------------------------------------------------------
(* Pulls.                                                                  *)

\* What is put to the calendar stays put.
LEMMA KnownStays ==
  ASSUME NEW c, Known(c), UNCHANGED remote, taken \subseteq taken'
  PROVE  Known(c)'
BY DEF Known

\* A pull that does not move the cursor concerns itself only.
LEMMA PullDoes ==
  ASSUME IInv, NEW p \in Pullers, NEW q \in PullState, pull' = [pull EXCEPT ![p] = q],
         event' \in [Events -> EventRow], link' \in [Events -> Link],
         taken \subseteq taken', taken' \subseteq Ids \X Nat,
         trouble' \in 0..MaxTrouble, cursor' \in {cursor, 0},
         UNCHANGED <<outbox, remote, clock, work, edits, changes>>,
         PullInv(p)'
  PROVE  IInv'
<1>1. pull' \in [Pullers -> PullState]
  BY DEF IInv, TypeOK
<1>2. TypeOK'
  BY <1>1 DEF IInv, TypeOK
<1>3. AtItsEvent' /\ MadeById'
  BY DEF IInv, AtItsEvent, MadeById
<1>4. NoneAhead' /\ Known(cursor)'
  <2>1. CASE cursor' = cursor
    BY <2>1, KnownStays DEF IInv, NoneAhead, Known
  <2>2. CASE cursor' = 0
    <3>1. \A g \in Ids : remote'[g].v \in Nat
      BY DEF IInv, TypeOK, Item
    <3>2. Known(0)'
      BY <3>1 DEF Known
    <3> QED  BY <2>2, <3>2 DEF IInv, TypeOK, NoneAhead, Known
  <2> QED  BY <2>1, <2>2
<1>5. ASSUME NEW r \in Pullers
      PROVE  PullInv(r)'
  <2>1. CASE r = p
    BY <2>1
  <2>2. CASE r # p
    <3>1. pull'[r] = pull[r] /\ PullInv(r)
      BY <2>2 DEF IInv, TypeOK
    <3>2. Known(pull[r].cursor)' /\ Covers(r)'
      BY <3>1 DEF PullInv, Known, Covers, Listed
    <3> QED  BY <3>1, <3>2 DEF PullInv, AtItsItem
  <2> QED  BY <2>1, <2>2
<1> QED  BY <1>2, <1>3, <1>4, <1>5 DEF IInv

LEMMA PullTypes ==
  ASSUME IInv, NEW p \in Pullers
  PROVE  /\ pull[p] \in PullState /\ PullInv(p) /\ pull[p].next \in Nat /\ pull[p].cursor \in Nat
         /\ pull[p].todo \subseteq Ids /\ pull[p].items \in [Ids -> Item]
         /\ event \in [Events -> EventRow] /\ link \in [Events -> Link]
         /\ taken \subseteq Ids \X Nat /\ trouble \in 0..MaxTrouble
         /\ clock \in Nat /\ cursor \in Nat /\ remote \in [Ids -> Item]
         /\ DOMAIN pull = Pullers
BY DEF IInv, TypeOK, PullState

LEMMA NoPullInv == ASSUME IInv PROVE NoPull \in PullState
BY DEF NoPull, PullState, NoItems, Nowhere, Item

LEMMA EndsTypes ==
  ASSUME IInv, NEW p \in Pullers, pull' = [pull EXCEPT ![p] = NoPull],
         UNCHANGED <<remote, clock>>
  PROVE  PullInv(p)'
<1>1. pull'[p] = NoPull /\ clock \in Nat /\ \A g \in Ids : remote[g].v \in Nat
  BY DEF IInv, TypeOK, Item
<1> QED  BY <1>1 DEF NoPull, PullInv, Known, Covers, Listed, AtItsItem

LEMMA BeginStep == ASSUME IInv, NEW p \in Pullers, Begin(p) PROVE IInv'
<1> DEFINE q == [NoPull EXCEPT !.pc = "ask", !.cursor = cursor]
<1>1. q \in PullState /\ q.pc = "ask" /\ q.cursor = cursor /\ q.next = 0
  BY NoPullInv, PullTypes DEF NoPull, PullState
<1>2. pull'[p] = q
  BY PullTypes DEF Begin
<1>3. PullInv(p)'
  BY <1>1, <1>2, PullTypes DEF Begin, IInv, NoneAhead, PullInv, Known, Covers, Listed, AtItsItem
<1>4. q \in PullState /\ pull' = [pull EXCEPT ![p] = q]
  BY <1>1 DEF Begin
<1> HIDE DEF q
<1> QED  BY <1>3, <1>4, PullTypes, PullDoes DEF Begin, bounds

LEMMA ListStep == ASSUME IInv, NEW p \in Pullers, List(p) PROVE IInv'
<1> DEFINE todo == {g \in Ids : remote[g].v > pull[p].cursor}
           q == [pull[p] EXCEPT !.pc = "items", !.next = clock, !.items = remote, !.todo = todo]
<1>1. q \in PullState /\ q.pc = "items" /\ q.cursor = pull[p].cursor /\ q.next = clock
        /\ q.items = remote /\ q.todo = todo
  BY PullTypes DEF PullState
<1>2. pull' = [pull EXCEPT ![p] = q] /\ pull'[p] = q
  BY PullTypes DEF List
<1>3. Covers(p)'
  <2> SUFFICES ASSUME NEW g \in Ids, remote'[g].v # 0
               PROVE  \/ <<g, remote'[g].v>> \in taken'
                      \/ g \in pull'[p].todo /\ pull'[p].items[g].v = remote'[g].v
    BY DEF Covers
  <2>1. remote[g].v \in Nat /\ pull[p].cursor \in Nat
    BY PullTypes DEF Item
  <2>2. CASE remote[g].v > pull[p].cursor
    BY <1>1, <1>2, <2>2 DEF List
  <2>3. CASE remote[g].v <= pull[p].cursor
    BY <2>3, PullTypes DEF List, PullInv, Known
  <2> QED  BY <2>1, <2>2, <2>3
<1>4. PullInv(p)'
  <2>1. PullInv(p) /\ clock \in Nat
    BY PullTypes
  <2>2. Known(pull[p].cursor)' /\ AtItsItem(p)'
    BY <1>1, <1>2, <2>1 DEF List, PullInv, Known, AtItsItem
  <2>3. (pull[p].cursor <= clock /\ pull[p].next <= clock)'
    <3> HIDE DEF q
    <3> QED  BY <1>1, <1>2, <2>1 DEF List, PullInv
  <2> QED  BY <1>3, <2>2, <2>3 DEF PullInv
<1> HIDE DEF q
<1> QED  BY <1>1, <1>2, <1>4, PullTypes, PullDoes DEF List, bounds

LEMMA CursorGoneStep == ASSUME IInv, NEW p \in Pullers, CursorGone(p) PROVE IInv'
<1> DEFINE q == [pull[p] EXCEPT !.cursor = 0]
<1>1. q \in PullState /\ q.pc = "ask" /\ q.cursor = 0 /\ q.next = pull[p].next
  BY PullTypes DEF PullState, CursorGone
<1>2. pull' = [pull EXCEPT ![p] = q] /\ pull'[p] = q
  BY PullTypes DEF CursorGone
<1>3. \A g \in Ids : remote'[g].v \in Nat
  BY PullTypes DEF CursorGone, Item
<1>4. PullInv(p)'
  <2>1. PullInv(p) /\ clock \in Nat
    BY PullTypes
  <2> QED  BY <1>1, <1>2, <1>3, <2>1 DEF CursorGone, PullInv, Known, Covers, Listed, AtItsItem
<1>5. trouble' \in 0..MaxTrouble
  BY BoundsAssumption, PullTypes DEF CursorGone
<1> HIDE DEF q
<1> QED  BY <1>1, <1>2, <1>4, <1>5, PullTypes, PullDoes DEF CursorGone

\* The item is not done yet: the pull is ahead with it.
LEMMA AheadDoes ==
  ASSUME IInv, NEW p \in Pullers, Listed(p), NEW g \in Ids, NEW e \in Events \cup {None},
         NEW pc \in {"cancel", "conflict", "take", "add", "relink", "insert"}, pc = "add" \/ e \in Events,
         Ahead(p, g, pc, e), event' \in [Events -> EventRow],
         UNCHANGED <<link, outbox, cursor, remote, clock, work, taken, bounds>>
  PROVE  IInv'
<1> DEFINE q == [pull[p] EXCEPT !.pc = pc, !.g = g, !.e = e]
<1>1. q \in PullState /\ q.pc = pc /\ q.g = g /\ q.e = e /\ q.cursor = pull[p].cursor
        /\ q.next = pull[p].next /\ q.todo = pull[p].todo /\ q.items = pull[p].items
  BY PullTypes DEF PullState
<1>2. pull' = [pull EXCEPT ![p] = q] /\ pull'[p] = q
  BY PullTypes DEF Ahead
<1>3. PullInv(p)'
  <2>1. PullInv(p)
    BY PullTypes
  <2> QED  BY <1>1, <1>2, <2>1 DEF PullInv, Known, Covers, Listed, AtItsItem
<1> HIDE DEF q
<1> QED  BY <1>1, <1>2, <1>3, PullTypes, PullDoes DEF bounds

\* The item is done: what was listed of it is put to the calendar.
LEMMA ItemDone ==
  ASSUME IInv, NEW p \in Pullers, Listed(p), NEW g \in Ids, NextItem(p, g), Put(p, g),
         event' \in [Events -> EventRow], link' \in [Events -> Link],
         UNCHANGED <<outbox, cursor, remote, clock, work, bounds>>
  PROVE  IInv'
<1> DEFINE q == [pull[p] EXCEPT !.pc = "items", !.g = None, !.e = None, !.todo = @ \ {g}]
<1>1. q \in PullState /\ q.pc = "items" /\ q.cursor = pull[p].cursor
        /\ q.next = pull[p].next /\ q.todo = pull[p].todo \ {g} /\ q.items = pull[p].items
  BY PullTypes DEF PullState
<1>2. pull' = [pull EXCEPT ![p] = q] /\ pull'[p] = q
  BY PullTypes DEF NextItem
<1>3. taken' = taken \cup {<<g, pull[p].items[g].v>>} /\ pull[p].items[g].v \in Nat
  BY PullTypes DEF Put, Item
<1>4. Covers(p)'
  <2> SUFFICES ASSUME NEW h \in Ids, remote'[h].v # 0, remote'[h].v <= pull'[p].next
               PROVE  \/ <<h, remote'[h].v>> \in taken'
                      \/ h \in pull'[p].todo /\ pull'[p].items[h].v = remote'[h].v
    BY DEF Covers
  <2>1. \/ <<h, remote[h].v>> \in taken
        \/ h \in pull[p].todo /\ pull[p].items[h].v = remote[h].v
    BY <1>1, <1>2, PullTypes DEF PullInv, Covers
  <2> QED  BY <1>1, <1>2, <1>3, <2>1
<1>5. PullInv(p)'
  <2>1. PullInv(p)
    BY PullTypes
  <2> QED  BY <1>1, <1>2, <1>3, <1>4, <2>1 DEF PullInv, Known, AtItsItem
<1>6. taken' \subseteq Ids \X Nat
  BY <1>3, PullTypes
<1> HIDE DEF q
<1> QED  BY <1>1, <1>2, <1>3, <1>5, <1>6, PullTypes, PullDoes DEF bounds

LEMMA LookStep == ASSUME IInv, NEW p \in Pullers, NEW g \in Ids, Look(p, g) PROVE IInv'
<1>1. Listed(p) /\ event' \in [Events -> EventRow] /\ link' \in [Events -> Link]
  BY PullTypes DEF Look, Listed
<1>2. CASE NextItem(p, g) /\ Put(p, g)
  BY <1>1, <1>2, ItemDone DEF Look
<1>3. CASE /\ UNCHANGED taken
           /\ \E pc \in {"cancel", "conflict", "take", "add"}, e \in Events \cup {None} :
                (pc = "add" \/ e \in Events) /\ Ahead(p, g, pc, e)
  <2>1. PICK pc \in {"cancel", "conflict", "take", "add"}, e \in Events \cup {None} :
          (pc = "add" \/ e \in Events) /\ Ahead(p, g, pc, e)
    BY <1>3
  <2> QED  BY <1>1, <1>3, <2>1, AheadDoes DEF Look
<1>4. CASE \E e \in LinkedTo(g) : UNCHANGED taken /\
             (Ahead(p, g, "cancel", e) \/ Ahead(p, g, "conflict", e) \/ Ahead(p, g, "take", e))
  <2>1. PICK e \in LinkedTo(g) : UNCHANGED taken /\
          (Ahead(p, g, "cancel", e) \/ Ahead(p, g, "conflict", e) \/ Ahead(p, g, "take", e))
    BY <1>4
  <2>2. e \in Events
    BY DEF LinkedTo
  <2> QED  BY <1>3, <2>1, <2>2
<1>5. CASE UNCHANGED taken /\ Ahead(p, g, "add", None)
  BY <1>3, <1>5
<1>6. \/ NextItem(p, g) /\ Put(p, g)
      \/ UNCHANGED taken /\ Ahead(p, g, "add", None)
      \/ \E e \in LinkedTo(g) : UNCHANGED taken /\
           (Ahead(p, g, "cancel", e) \/ Ahead(p, g, "conflict", e) \/ Ahead(p, g, "take", e))
  BY Zenon DEF Look
<1> QED  BY <1>2, <1>4, <1>5, <1>6

LEMMA CancelledStep == ASSUME IInv, NEW p \in Pullers, Cancelled(p) \/ Conflict(p) PROVE IInv'
<1>1. Listed(p) /\ pull[p].g \in Ids /\ pull[p].e \in Events
  BY PullTypes DEF Cancelled, Conflict, PullInv, AtItsItem, Listed
<1>2. event' \in [Events -> EventRow]
  <2>1. CASE Cancelled(p)
    BY <1>1, <2>1, PullTypes DEF Cancelled, EventRow
  <2>2. CASE Conflict(p)
    BY <1>1, <2>2, PullTypes DEF Conflict, EventRow
  <2> QED  BY <2>1, <2>2
<1>3. NextItem(p, pull[p].g) /\ Put(p, pull[p].g)
        /\ UNCHANGED <<link, outbox, cursor, remote, clock, work, bounds>>
  BY DEF Cancelled, Conflict
<1> QED  BY <1>1, <1>2, <1>3, PullTypes, ItemDone

LEMMA TakeStep == ASSUME IInv, NEW p \in Pullers, Take(p) PROVE IInv'
<1>1. PICK e \in Events, pc \in {"relink", "insert"} :
        /\ event' = [event EXCEPT ![e] =
             [there |-> TRUE, text |-> pull[p].items[pull[p].g].text, deleted |-> FALSE, state |-> "synced"]]
        /\ Ahead(p, pull[p].g, pc, e)
  BY DEF Take
<1>2. Listed(p) /\ pull[p].g \in Ids
  BY PullTypes DEF Take, PullInv, AtItsItem, Listed
<1>3. pull[p].items[pull[p].g].text \in Texts \cup {None}
  BY <1>2, PullTypes DEF Item
<1>4. event' \in [Events -> EventRow]
  BY <1>1, <1>3, PullTypes DEF EventRow
<1> QED  BY <1>1, <1>2, <1>4, AheadDoes DEF Take

\* A link that is made of an item is a link.
LEMMA LinkOfItem ==
  ASSUME NEW g \in Ids, NEW item \in Item
  PROVE  /\ LinkOf(g, item) \in Link
         /\ LinkOf(g, item).id = g /\ LinkOf(g, item).v = item.v
BY DEF LinkOf, Link, Marks, Mark, Item

LEMMA RelinkStep == ASSUME IInv, NEW p \in Pullers, Relink(p) PROVE IInv'
<1>1. Listed(p) /\ pull[p].g \in Ids /\ pull[p].items[pull[p].g] \in Item
  BY PullTypes DEF Relink, PullInv, AtItsItem, Listed
<1>2. link' \in [Events -> Link]
  BY <1>1, LinkOfItem, PullTypes DEF Relink
<1> QED  BY <1>1, <1>2, PullTypes, ItemDone DEF Relink

LEMMA InsertStep == ASSUME IInv, NEW p \in Pullers, Insert(p) PROVE IInv'
<1>1. Listed(p) /\ pull[p].g \in Ids /\ pull[p].e \in Events /\ pull[p].items[pull[p].g] \in Item
  BY PullTypes DEF Insert, PullInv, AtItsItem, Listed
<1>2. CASE /\ link' = [link EXCEPT ![pull[p].e] = LinkOf(pull[p].g, pull[p].items[pull[p].g])]
           /\ NextItem(p, pull[p].g) /\ Put(p, pull[p].g)
  <2>1. link' \in [Events -> Link]
    BY <1>1, <1>2, LinkOfItem, PullTypes
  <2> QED  BY <1>1, <1>2, <2>1, PullTypes, ItemDone DEF Insert
<1>3. CASE pull' = [pull EXCEPT ![p] = NoPull] /\ UNCHANGED <<link, taken>>
  <2>1. PullInv(p)'
    BY <1>3, EndsTypes DEF Insert
  <2> QED  BY <1>3, <2>1, NoPullInv, PullTypes, PullDoes DEF Insert, bounds
<1> QED  BY <1>2, <1>3 DEF Insert

LEMMA PullFailsStep == ASSUME IInv, NEW p \in Pullers, PullFails(p) PROVE IInv'
<1>1. PullInv(p)'
  BY EndsTypes DEF PullFails
<1>2. trouble' \in 0..MaxTrouble
  BY BoundsAssumption, PullTypes DEF PullFails
<1> QED  BY <1>1, <1>2, NoPullInv, PullTypes, PullDoes DEF PullFails

\* The cursor is moved to where the pull has put everything to the calendar.
LEMMA EndStep == ASSUME IInv, NEW p \in Pullers, End(p) PROVE IInv'
<1>1. PullInv(p) /\ Covers(p) /\ Listed(p) /\ pull[p].todo = {}
  BY PullTypes DEF End, Listed, PullInv
<1>2. Known(cursor)'
  BY <1>1 DEF End, Covers, Known
<1>3. pull' \in [Pullers -> PullState] /\ cursor' \in Nat
  BY NoPullInv, PullTypes DEF End, IInv, TypeOK
<1>4. TypeOK'
  BY <1>3 DEF End, bounds, IInv, TypeOK
<1>5. AtItsEvent' /\ MadeById' /\ NoneAhead'
  BY <1>1 DEF End, IInv, AtItsEvent, MadeById, NoneAhead, PullInv
<1>6. ASSUME NEW r \in Pullers PROVE PullInv(r)'
  <2>1. CASE r = p
    BY <2>1, EndsTypes DEF End
  <2>2. CASE r # p
    <3>1. pull'[r] = pull[r] /\ PullInv(r)
      BY <2>2, PullTypes DEF End
    <3>2. Known(pull[r].cursor)' /\ Covers(r)'
      BY <3>1 DEF End, PullInv, Known, Covers, Listed
    <3> QED  BY <3>1, <3>2 DEF End, PullInv, AtItsItem
  <2> QED  BY <2>1, <2>2
<1> QED  BY <1>2, <1>4, <1>5, <1>6 DEF IInv

----------------------------------------------------------------------------
(* The theorems.                                                           *)

LEMMA PullStep == ASSUME IInv, NEW p \in Pullers, Pull(p) PROVE IInv'
BY BeginStep, ListStep, CursorGoneStep, LookStep, CancelledStep, TakeStep, RelinkStep, InsertStep, EndStep,
   PullFailsStep DEF Pull

LEMMA PushStep == ASSUME IInv, Push PROVE IInv'
BY ClaimStep, ReadStep, PostStep, AlreadyThereStep, AdoptStep, PatchStep, RefusedStep, LinkedStep,
   DoneStep DEF Push

LEMMA StepIInv == IInv /\ [Next]_vars => IInv'
<1> SUFFICES ASSUME IInv, [Next]_vars PROVE IInv'
  OBVIOUS
<1>1. CASE UNCHANGED vars
  <2>1. RowTypes' /\ AtItsEvent' /\ UNCHANGED <<cursor, remote, clock, pull, taken>>
    BY <1>1 DEF vars, bounds, IInv, TypeOK, RowTypes, AtItsEvent
  <2> QED  BY <2>1, QuietStep
<1>2. CASE \E e \in Events, t \in Texts : Create(e, t) \/ Update(e, t)
  BY <1>2, EditStep
<1>3. CASE Enqueue \/ Push \/ Die
  BY <1>3, EnqueueStep, PushStep, DoneStep
<1>4. CASE \E p \in Pullers : Pull(p)
  BY <1>4, PullStep
<1>5. CASE \E g \in Ids : GoogleCancels(g) \/ \E t \in Texts : GoogleEdits(g, t)
  BY <1>5, GoogleStep
<1> QED  BY <1>1, <1>2, <1>3, <1>4, <1>5 DEF Next

\* The inductive invariant holds throughout.
THEOREM Invariance == Spec => []IInv
BY InitIInv, StepIInv, PTL DEF Spec

\* Every variable keeps its type.
THEOREM TypeCorrect == Spec => []TypeOK
<1>1. IInv => TypeOK
  BY DEF IInv
<1> QED  BY <1>1, Invariance, PTL

\* An event made here is made at Google once, however many answers are lost and
\* wherever the worker dies between the request and the link.
THEOREM MadeOnceAlways == Spec => []MadeOnce
<1>1. IInv => MadeOnce
  <2> SUFFICES ASSUME IInv, NEW g \in Ids, NEW h \in Ids,
                      remote[g].for # None, remote[g].for = remote[h].for
               PROVE  g = h
    BY DEF MadeOnce
  <2>1. remote[g].for \in {None, g} /\ remote[h].for \in {None, h}
    BY DEF IInv, MadeById
  <2> QED  BY <2>1
<1> QED  BY <1>1, Invariance, PTL

\* No change of Google's is behind the cursor before it is in the calendar, though
\* pulls overlap, break off, lose the cursor and end in another order than they began.
THEOREM NothingIsSkipped == Spec => []NothingSkipped
<1>1. IInv => NothingSkipped
  BY DEF IInv, Known, NothingSkipped
<1> QED  BY <1>1, Invariance, PTL

----------------------------------------------------------------------------
(* One event for each event of Google's.                                   *)

OneLink == \A d, e \in Events : link[d].id = link[e].id => d = e \/ link[d].id = None

\* A link is new where nothing had Google's id.
LEMMA LinkIsNew ==
  ASSUME IInv, OneLink, NEW e \in Events, NEW row, LinkedTo(row.id) \subseteq {e},
         link' = [link EXCEPT ![e] = row]
  PROVE  OneLink'
<1>1. link'[e] = row /\ \A d \in Events \ {e} : link'[d] = link[d]
  BY DEF IInv, TypeOK
<1>2. \A d \in Events \ {e} : link[d].id # row.id
  BY DEF LinkedTo
<1> QED  BY <1>1, <1>2 DEF OneLink

LEMMA OneLinkStep ==
  ASSUME IInv, OneLink, [Next]_vars
  PROVE  OneLink'
<1>1. CASE UNCHANGED link
  BY <1>1 DEF OneLink
<1>2. CASE Linked
  <2> DEFINE mark == Mark("row", work.text, work.deleted)
             row == [id |-> work.id, v |-> work.v, remoteMark |-> mark, localMark |-> mark]
  <2>1. work.e \in Events
    BY <1>2 DEF Linked, IInv, AtItsEvent
  <2>2. \/ UNCHANGED link
        \/ LinkedTo(row.id) \subseteq {work.e} /\ link' = [link EXCEPT ![work.e] = row]
    BY <1>2 DEF Linked
  <2> HIDE DEF row
  <2> QED  BY <1>1, <2>1, <2>2, LinkIsNew
<1>3. ASSUME NEW p \in Pullers, Relink(p) PROVE OneLink'
  <2>1. pull[p].g \in Ids /\ pull[p].items[pull[p].g] \in Item
    BY <1>3, PullTypes DEF Relink, PullInv, AtItsItem
  <2>2. \A e \in Events : link'[e].id = link[e].id
    BY <1>3, <2>1, LinkOfItem DEF Relink, LinkedTo
  <2> QED  BY <2>2 DEF OneLink
<1>4. ASSUME NEW p \in Pullers, Insert(p) PROVE OneLink'
  <2> DEFINE row == LinkOf(pull[p].g, pull[p].items[pull[p].g])
  <2>1. pull[p].g \in Ids /\ pull[p].e \in Events /\ pull[p].items[pull[p].g] \in Item
    BY <1>4, PullTypes DEF Insert, PullInv, AtItsItem
  <2>2. row.id = pull[p].g
    BY <2>1, LinkOfItem
  <2>3. \/ UNCHANGED link
        \/ LinkedTo(row.id) \subseteq {pull[p].e} /\ link' = [link EXCEPT ![pull[p].e] = row]
    BY <1>4, <2>2 DEF Insert
  <2> HIDE DEF row
  <2> QED  BY <1>1, <2>1, <2>3, LinkIsNew
<1>5. CASE Push /\ ~Linked
  BY <1>1, <1>5 DEF Push, Claim, Read, Post, AlreadyThere, Adopt, Patch, PatchRefused, PostMisplaced,
     NotSent, Done
<1>6. ASSUME NEW p \in Pullers, Pull(p), ~Relink(p), ~Insert(p) PROVE OneLink'
  BY <1>1, <1>6 DEF Pull, Begin, List, CursorGone, Look, Cancelled, Conflict, Take, End, PullFails
<1>7. CASE \/ \E e \in Events, t \in Texts : Create(e, t) \/ Update(e, t)
           \/ Enqueue \/ Die \/ UNCHANGED vars
           \/ \E g \in Ids : GoogleCancels(g) \/ \E t \in Texts : GoogleEdits(g, t)
  BY <1>1, <1>7 DEF Create, Update, Write, Enqueue, Die, vars, GoogleCancels, GoogleEdits
<1> QED  BY <1>2, <1>3, <1>4, <1>5, <1>6, <1>7 DEF Next

\* However pulls and pushes overlap, two events of the calendar never stand for one of
\* Google's.
THEOREM OneLinkAlways == Spec => []OneLink
<1>1. Init => OneLink
  BY DEF Init, NoLink, OneLink
<1>2. IInv /\ OneLink /\ [Next]_vars => OneLink'
  BY OneLinkStep
<1> QED  BY <1>1, <1>2, Invariance, PTL DEF Spec

----------------------------------------------------------------------------
(* When what is shown as synced is what Google has.                        *)

\* SyncedIsPushed does not hold of Spec: after a lost answer a create adopts what an
\* earlier try left at Google, whatever the event says by now; and a pull of the API
\* can write its link over that of an event the worker pushed meanwhile.  Without
\* these two it holds, however answers are lost, cursors dropped, processes killed and
\* events edited on both sides.  Here the worker alone pulls, and a create adopts only
\* what it would have posted.
AdoptsItsOwn == Adopt => remote[work.e].live /\ remote[work.e].text = work.text

Latest(e) == link[e].id # None /\ link[e].v = remote[link[e].id].v
Agrees(e) == Latest(e) => event[e].text = remote[link[e].id].text

\* A link does not run ahead of Google, and one to the last version is to a live event
\* of Google's; what is linked or queued is there; what is synced, and not queued
\* again, says what Google says.
Fits(e) ==
  /\ link[e].v <= clock
  /\ link[e].id # None \/ outbox[e].status # "none" => event[e].there
  /\ Latest(e) => remote[link[e].id].live
  /\ event[e].state = "synced" /\ outbox[e].status \notin Active => Agrees(e)

\* The worker pushes or pulls, and while it does nothing else writes to the events.
OneAtATime == work.pc = "idle" \/ pull[Worker].pc = "idle"

Sending == work.pc \in {"send", "adopt", "answered", "linked"}
WorkFits ==
  /\ work.pc = "enqueue" => event[work.e].there /\ event[work.e].state = "pending"
  /\ work.pc # "idle" => \A e \in work.batch : outbox[e].status = "running"
  /\ Sending => /\ event[work.e].there /\ event[work.e].text = work.text
                /\ outbox[work.e].status = "running"
  /\ work.pc = "adopt" => work.id = None
  /\ work.pc = "answered" =>
       /\ work.v <= clock /\ work.id \in Ids
       /\ remote[work.id].v = work.v => remote[work.id].live /\ remote[work.id].text = work.text
  /\ work.pc = "linked" => Agrees(work.e)

\* Since it listed, Google only went on; what the pull is at is as it was listed.
PullFits ==
  LET q == pull[Worker] IN
  Listed(Worker) =>
    /\ \A g \in Ids : q.items[g].v <= q.next /\ (remote[g].v <= q.next => remote[g] = q.items[g])
    /\ \A e \in Events : link[e].v <= q.next
    /\ q.pc \in {"cancel", "take", "relink"} => link[q.e].id = q.g
    /\ q.pc = "cancel" => ~q.items[q.g].live
    /\ q.pc \in {"take", "add", "relink", "insert"} => q.items[q.g].live
    /\ q.pc \in {"relink", "insert"} => event[q.e].there /\ event[q.e].text = q.items[q.g].text

SInv == OneAtATime /\ (\A e \in Events : Fits(e)) /\ WorkFits /\ PullFits

\* While the worker pushes there is no pull, while it pulls there is nothing to push.
LEMMA WorkerWorks ==
  ASSUME UNCHANGED pull, pull[Worker].pc = "idle", \A e \in Events : Fits(e)', WorkFits'
  PROVE  SInv'
BY DEF SInv, OneAtATime, PullFits, Listed

LEMMA WorkerPulls ==
  ASSUME UNCHANGED work, work.pc = "idle", \A e \in Events : Fits(e)', PullFits'
  PROVE  SInv'
BY DEF SInv, OneAtATime, WorkFits, Sending

\* What Google writes is news to every link.
LEMMA NewsToLinks ==
  ASSUME IInv, SInv, NEW h \in Ids, NEW row, row.v = clock + 1, Stored(h, row), UNCHANGED link
  PROVE  /\ \A g \in Ids : remote'[g] = IF g = h THEN row ELSE remote[g]
         /\ \A e \in Events : link[e].v <= clock' /\ (Latest(e)' =>
              Latest(e) /\ remote'[link[e].id] = remote[link[e].id])
<1>1. /\ \A g \in Ids : remote'[g] = IF g = h THEN row ELSE remote[g]
      /\ clock' = clock + 1 /\ clock \in Nat
  BY DEF IInv, TypeOK, Stored
<1>2. \A e \in Events : link[e].v <= clock /\ link[e].v \in Nat /\ link[e].id \in Ids \cup {None}
  BY DEF SInv, Fits, IInv, TypeOK, Link
<1> QED  BY <1>1, <1>2 DEF Latest

LEMMA LinksStay ==
  ASSUME SInv, UNCHANGED <<link, remote, clock>>
  PROVE  \A e \in Events : link[e].v <= clock' /\ (Latest(e)' =>
           Latest(e) /\ remote'[link[e].id] = remote[link[e].id])
BY DEF SInv, Fits, Latest

\* What does not touch an event, nor its row and its link, leaves it as it fits.
LEMMA StillFits ==
  ASSUME SInv, NEW e \in Events, UNCHANGED link, event'[e] = event[e], outbox'[e] = outbox[e],
         link[e].v <= clock' /\ (Latest(e)' => Latest(e) /\ remote'[link[e].id] = remote[link[e].id])
  PROVE  Fits(e)' /\ (Agrees(e) => Agrees(e)')
BY DEF SInv, Fits, Agrees

----------------------------------------------------------------------------
(* The worker pushes.                                                      *)

LEMMA PushingAlone ==
  ASSUME SInv, work.pc # "idle"
  PROVE  pull[Worker].pc = "idle"
BY DEF SInv, OneAtATime

LEMMA EditFits ==
  ASSUME IInv, SInv, NEW e \in Events, NEW t \in Texts, Create(e, t) \/ Update(e, t)
  PROVE  SInv'
<1>1. PICK op \in {"create", "update"} : Write(e, t, op)
  BY DEF Create, Update
<1>2. /\ UNCHANGED <<link, outbox, remote, clock, pull>> /\ pull[Worker].pc = "idle"
      /\ \A d \in Events \ {e} : event'[d] = event[d]
      /\ event'[e].there /\ event'[e].state = "pending"
  BY <1>1 DEF Write, WorkerFree, IInv, TypeOK
<1>3. work'.pc = "enqueue" /\ work'.e = e /\ work'.batch = {}
  BY <1>1 DEF Write, Idle
<1>4. \A d \in Events \ {e} : Fits(d)'
  BY <1>2, LinksStay, StillFits
<1>5. Fits(e)'
  BY <1>2, LinksStay DEF SInv, Fits
<1>6. WorkFits'
  BY <1>2, <1>3 DEF WorkFits, Sending
<1> QED  BY <1>2, <1>4, <1>5, <1>6, WorkerWorks

LEMMA IdleWork ==
  ASSUME work' = Idle
  PROVE  WorkFits'
BY DEF Idle, WorkFits, Sending

LEMMA EnqueueFits ==
  ASSUME IInv, SInv, Enqueue
  PROVE  SInv'
<1> PICK e : e = work.e
  OBVIOUS
<1>1. /\ e \in Events /\ event[e].there /\ event[e].state = "pending"
      /\ pull[Worker].pc = "idle"
  BY PushingAlone DEF Enqueue, IInv, AtItsEvent, SInv, WorkFits
<1>2. /\ UNCHANGED <<event, link, remote, clock, pull>> /\ work' = Idle
      /\ \A d \in Events \ {e} : outbox'[d] = outbox[d]
      /\ outbox'[e].status = "queued"
  BY <1>1 DEF Enqueue, IInv, TypeOK
<1>3. \A d \in Events \ {e} : Fits(d)'
  BY <1>2, LinksStay, StillFits
<1>4. Fits(e)'
  BY <1>1, <1>2, LinksStay DEF SInv, Fits, Active
<1> QED  BY <1>1, <1>2, <1>3, <1>4, IdleWork, WorkerWorks

LEMMA ClaimFits ==
  ASSUME IInv, SInv, NEW S \in SUBSET Events, Claim(S)
  PROVE  SInv'
<1>1. /\ UNCHANGED <<event, link, remote, clock, pull>> /\ pull[Worker].pc = "idle"
      /\ \A d \in Events \ S : outbox'[d] = outbox[d]
      /\ \A d \in S : outbox'[d].status = "running" /\ outbox[d].status # "none"
  BY DEF Claim, WorkerFree, IInv, TypeOK, Row
<1>2. work'.pc = "batch" /\ work'.batch = S
  BY DEF Claim, Idle
<1>3. \A d \in Events \ S : Fits(d)'
  BY <1>1, LinksStay, StillFits
<1>4. \A d \in S : Fits(d)'
  BY <1>1, LinksStay DEF SInv, Fits, Active
<1>5. WorkFits'
  BY <1>1, <1>2 DEF WorkFits, Sending
<1> QED  BY <1>1, <1>3, <1>4, <1>5, WorkerWorks

\* The request goes out, or the id turns out to be taken.
LEMMA ReadFits ==
  ASSUME IInv, SInv, AlreadyThere \/ \E e \in Events : Read(e)
  PROVE  SInv'
<1>1. UNCHANGED <<event, link, outbox, remote, clock, pull>> /\ pull[Worker].pc = "idle"
  BY PushingAlone DEF AlreadyThere, Read
<1>2. \A d \in Events : Fits(d)'
  BY <1>1, LinksStay, StillFits
<1>3. CASE AlreadyThere
  <2>1. /\ work'.pc = "adopt" /\ work'.id = None /\ work'.e = work.e /\ work'.text = work.text
        /\ work'.batch = work.batch /\ work.pc = "send"
    BY <1>3 DEF AlreadyThere, IInv, TypeOK, Work
  <2>2. WorkFits'
    BY <1>1, <2>1 DEF SInv, WorkFits, Sending
  <2> QED  BY <1>1, <1>2, <2>2, WorkerWorks
<1>4. ASSUME NEW e \in Events, Read(e) PROVE SInv'
  <2>1. /\ work'.pc = "send" /\ work'.e = e /\ work'.text = event[e].text
        /\ work'.batch = work.batch /\ work.pc = "batch" /\ e \in work.batch
    BY <1>4 DEF Read, IInv, TypeOK, Work
  <2>2. outbox[e].status = "running" /\ event[e].there
    BY <2>1 DEF SInv, WorkFits, Fits
  <2>3. WorkFits'
    BY <1>1, <2>1, <2>2 DEF SInv, WorkFits, Sending
  <2> QED  BY <1>1, <1>2, <2>3, WorkerWorks
<1> QED  BY <1>3, <1>4

\* The rest of a batch is as it was claimed.
LEMMA RestFits ==
  ASSUME IInv, SInv, work.pc # "idle", work' = Rest,
         \A e \in work.batch \ {work.e} : outbox'[e] = outbox[e]
  PROVE  WorkFits'
<1>1. /\ work'.pc \in {"idle", "batch"} /\ work'.batch \subseteq work.batch \ {work.e}
  BY DEF Rest, Idle
<1> QED  BY <1>1 DEF SInv, WorkFits, Sending

LEMMA EndedFits ==
  ASSUME IInv, SInv, Sending, NEW status \in {"failed", "conflict"},
         NEW state \in {"failed", "conflict"}, Ended(status, state), UNCHANGED <<link, pull>>,
         \A e \in Events : link[e].v <= clock' /\ (Latest(e)' =>
           Latest(e) /\ remote'[link[e].id] = remote[link[e].id])
  PROVE  SInv'
<1> PICK e : e = work.e
  OBVIOUS
<1>1. e \in Events /\ event[e].there /\ pull[Worker].pc = "idle" /\ work.pc # "idle"
  BY PushingAlone DEF Sending, IInv, AtItsEvent, SInv, WorkFits
<1>2. /\ \A d \in Events \ {e} : outbox'[d] = outbox[d] /\ event'[d] = event[d]
      /\ event'[e].there = event[e].there /\ event'[e].state = state
      /\ work' = Rest /\ work.batch \subseteq Events
  BY <1>1 DEF Ended, IInv, TypeOK, EventRow, Work
<1>3. \A d \in Events \ {e} : Fits(d)'
  BY <1>2, StillFits
<1>4. Fits(e)'
  BY <1>1, <1>2 DEF SInv, Fits
<1>5. WorkFits'
  BY <1>1, <1>2, RestFits
<1> QED  BY <1>1, <1>3, <1>4, <1>5, WorkerWorks

\* Google has it: the worker learns the version, unless the answer is lost.
LEMMA AnswerFits ==
  ASSUME IInv, SInv, Sending, NEW version \in Nat, Answer(version), UNCHANGED <<link, pull>>,
         \A e \in Events : link[e].v <= clock' /\ (Latest(e)' =>
           Latest(e) /\ remote'[link[e].id] = remote[link[e].id]),
         version <= clock',
         LET g == IF work.id = None THEN work.e ELSE work.id IN
           remote'[g].v = version => remote'[g].live /\ remote'[g].text = work.text
  PROVE  SInv'
<1>1. work.e \in Events /\ pull[Worker].pc = "idle" /\ work.pc # "idle"
  BY PushingAlone DEF Sending, IInv, AtItsEvent
<1>2. CASE /\ work' = [work EXCEPT !.pc = "answered", !.v = version,
                                   !.id = IF @ = None THEN work.e ELSE @]
           /\ UNCHANGED <<event, outbox, trouble>>
  <2>1. /\ work'.pc = "answered" /\ work'.v = version /\ work'.e = work.e /\ work'.text = work.text
        /\ work'.id = (IF work.id = None THEN work.e ELSE work.id) /\ work'.batch = work.batch
        /\ work.id \in Ids \cup {None}
    BY <1>2 DEF IInv, TypeOK, Work
  <2>2. work'.id \in Ids
    BY <1>1, <2>1 DEF Ids
  <2>3. \A d \in Events : Fits(d)'
    BY <1>2, StillFits
  <2>4. WorkFits'
    BY <1>1, <1>2, <2>1, <2>2 DEF SInv, WorkFits, Sending
  <2> QED  BY <1>1, <2>3, <2>4, WorkerWorks
<1>3. CASE Ended("failed", "failed")
  BY <1>3, EndedFits
<1> QED  BY <1>2, <1>3 DEF Answer

LEMMA PostFits ==
  ASSUME IInv, SInv, Post
  PROVE  SInv'
<1> DEFINE row == [v |-> clock + 1, text |-> work.text, live |-> TRUE, for |-> work.e]
<1>1. /\ work.e \in Events /\ work.e \in Ids /\ Stored(work.e, row) /\ Answer(clock + 1)
      /\ UNCHANGED <<link, pull>> /\ Sending /\ work.id = None /\ clock \in Nat /\ clock' = clock + 1
  BY DEF Post, IInv, AtItsEvent, TypeOK, Ids, Sending, Stored
<1>2. row.v = clock + 1 /\ row.live /\ row.text = work.text
  OBVIOUS
<1> HIDE DEF row
<1>3. remote'[work.e] = row
  BY <1>1, <1>2, NewsToLinks
<1> QED  BY <1>1, <1>2, <1>3, NewsToLinks, AnswerFits

LEMMA PatchFits ==
  ASSUME IInv, SInv, Patch
  PROVE  SInv'
<1> DEFINE row == [remote[work.id] EXCEPT !.v = clock + 1, !.text = work.text, !.live = TRUE]
<1>1. /\ work.e \in Events /\ work.e \in Ids /\ Stored(work.id, row) /\ Answer(clock + 1)
      /\ UNCHANGED <<link, pull>> /\ Sending /\ clock \in Nat /\ clock' = clock + 1
      /\ work.id \in Ids \cup {None}
  BY DEF Patch, IInv, AtItsEvent, TypeOK, Work, Ids, Sending, Stored
<1>2. CASE work.id \in Ids
  <2>1. row.v = clock + 1 /\ row.live /\ row.text = work.text
    BY <1>2 DEF IInv, TypeOK, Item
  <2> HIDE DEF row
  <2>2. remote'[work.id] = row
    BY <1>1, <1>2, <2>1, NewsToLinks
  <2>3. work.id # None
    BY <1>2, IdsAssumption DEF Ids
  <2> QED  BY <1>1, <1>2, <2>1, <2>2, <2>3, NewsToLinks, AnswerFits
<1>3. CASE work.id = None
  <2>1. remote' = remote
    BY <1>1, <1>3, IdsAssumption DEF Stored, IInv, TypeOK, Ids
  <2>2. \A e \in Events : link[e].v <= clock' /\ (Latest(e)' =>
          Latest(e) /\ remote'[link[e].id] = remote[link[e].id])
    BY <1>1, <2>1 DEF SInv, Fits, Latest, IInv, TypeOK, Link
  <2>3. remote'[work.e].v # clock + 1
    BY <1>1, <2>1 DEF IInv, NoneAhead, TypeOK, Item
  <2> QED  BY <1>1, <1>3, <2>2, <2>3, AnswerFits
<1> QED  BY <1>1, <1>2, <1>3

LEMMA AdoptFits ==
  ASSUME IInv, SInv, Adopt, AdoptsItsOwn
  PROVE  SInv'
<1>1. /\ work.e \in Events /\ work.e \in Ids /\ Answer(remote[work.e].v) /\ UNCHANGED <<link, remote, clock, pull>>
      /\ Sending /\ work.id = None
  BY DEF Adopt, IInv, AtItsEvent, Ids, Sending, SInv, WorkFits
<1>2. remote[work.e].v \in Nat /\ remote[work.e].v <= clock
  BY <1>1 DEF IInv, TypeOK, Item, NoneAhead
<1>3. remote[work.e].live /\ remote[work.e].text = work.text
  BY DEF AdoptsItsOwn
<1> QED  BY <1>1, <1>2, <1>3, LinksStay, AnswerFits

LEMMA RefusedFits ==
  ASSUME IInv, SInv, PatchRefused \/ PostMisplaced \/ NotSent
  PROVE  SInv'
<1>1. Sending /\ UNCHANGED <<link, remote, clock, pull>>
  BY DEF PatchRefused, PostMisplaced, NotSent, Sending
<1>2. Ended("conflict", "conflict") \/ Ended("failed", "failed")
  BY DEF PatchRefused, PostMisplaced, NotSent
<1> QED  BY <1>1, <1>2, LinksStay, EndedFits

LEMMA LinkedFits ==
  ASSUME IInv, SInv, Linked
  PROVE  SInv'
<1> PICK e : e = work.e
  OBVIOUS
<1>1. /\ e \in Events /\ work.pc = "answered" /\ Sending /\ pull[Worker].pc = "idle"
      /\ UNCHANGED <<remote, clock, pull>>
  BY PushingAlone DEF Linked, IInv, AtItsEvent, Sending
<1>2. CASE LinkedTo(work.id) \subseteq {work.e}
  <2>1. /\ \A d \in Events \ {e} : link'[d] = link[d] /\ event'[d] = event[d]
        /\ link'[e].id = work.id /\ link'[e].v = work.v
        /\ event'[e].text = event[e].text /\ event'[e].there = event[e].there
        /\ outbox' = outbox
    BY <1>1, <1>2 DEF Linked, IInv, TypeOK, EventRow
  <2>2. /\ work'.pc = "linked" /\ work'.e = e /\ work'.text = work.text
        /\ work'.batch = work.batch
    BY <1>2 DEF Linked, IInv, TypeOK, Work
  <2>3. /\ work.v <= clock /\ event[e].there /\ outbox[e].status = "running"
        /\ event[e].text = work.text
        /\ remote[work.id].v = work.v => remote[work.id].live /\ remote[work.id].text = work.text
    BY <1>1 DEF SInv, WorkFits
  <2>4. \A d \in Events \ {e} : Fits(d)'
    BY <1>1, <2>1 DEF SInv, Fits, Agrees, Latest
  <2>5. Fits(e)' /\ Agrees(e)'
    BY <1>1, <2>1, <2>2, <2>3 DEF Fits, Agrees, Latest, Active
  <2>6. WorkFits'
    BY <1>1, <2>1, <2>2, <2>3, <2>5 DEF SInv, WorkFits, Sending, Agrees, Latest
  <2> QED  BY <1>1, <2>4, <2>5, <2>6, WorkerWorks
<1>3. CASE ~(LinkedTo(work.id) \subseteq {work.e})
  BY <1>1, <1>3, LinksStay, EndedFits DEF Linked
<1> QED  BY <1>2, <1>3

LEMMA DoneFits ==
  ASSUME IInv, SInv, Done \/ Die
  PROVE  SInv'
<1>1. UNCHANGED <<event, link, remote, clock, pull>> /\ pull[Worker].pc = "idle" /\ work.pc # "idle"
  BY PushingAlone DEF Done, Die
<1> PICK e : e = work.e
  OBVIOUS
<1>2. CASE Done
  <2>1. /\ e \in Events /\ work' = Rest /\ event[e].there /\ Agrees(e)
        /\ \A d \in Events \ {e} : outbox'[d] = outbox[d]
        /\ outbox'[e].status = "done"
    BY <1>2 DEF Done, IInv, AtItsEvent, TypeOK, SInv, WorkFits, Sending
  <2>2. \A d \in Events \ {e} : Fits(d)'
    BY <1>1, <2>1, LinksStay, StillFits
  <2>3. Fits(e)'
    BY <1>1, <2>1 DEF SInv, Fits, Agrees, Latest, Active
  <2>4. WorkFits'
    BY <1>1, <2>1, RestFits DEF IInv, TypeOK, Work
  <2> QED  BY <1>1, <2>1, <2>2, <2>3, <2>4, WorkerWorks
<1>3. CASE Die
  <2>1. \A d \in Events : Fits(d)'
    BY <1>1, <1>3, LinksStay, StillFits DEF Die
  <2> QED  BY <1>1, <1>3, <2>1, IdleWork, WorkerWorks DEF Die
<1> QED  BY <1>2, <1>3

----------------------------------------------------------------------------
(* The worker pulls.                                                       *)

\* A pull that ends, or has not listed yet, has nothing to fit.
LEMMA NothingListed ==
  ASSUME pull'[Worker].pc \in {"idle", "ask"}
  PROVE  PullFits'
BY DEF PullFits, Listed

LEMMA PullsAlone ==
  ASSUME SInv, pull[Worker].pc # "idle"
  PROVE  work.pc = "idle"
BY DEF SInv, OneAtATime

\* What the pull knows while it is at its items.
LEMMA Pulling ==
  ASSUME IInv, SInv, pull[Worker].pc \notin {"idle", "ask"}
  PROVE  /\ work.pc = "idle" /\ pull[Worker].next \in Nat
         /\ \A g \in Ids : /\ pull[Worker].items[g].v <= pull[Worker].next
                           /\ remote[g].v <= pull[Worker].next => remote[g] = pull[Worker].items[g]
         /\ \A e \in Events : link[e].v <= pull[Worker].next
BY PullsAlone DEF SInv, PullFits, Listed, IInv, TypeOK, PullState, Pullers

\* A link to the last version of Google's is a link to what was listed.
LEMMA ListedIsLatest ==
  ASSUME IInv, SInv, pull[Worker].pc \notin {"idle", "ask"}, NEW e \in Events,
         NEW g \in Ids, link[e].id = g, Latest(e)
  PROVE  remote[g] = pull[Worker].items[g]
BY Pulling DEF Latest

\* The pull goes on and writes nothing.
LEMMA PullGoesOn ==
  ASSUME SInv, UNCHANGED <<event, link, outbox, remote, clock, work>>, work.pc = "idle", PullFits'
  PROVE  SInv'
<1>1. \A e \in Events : Fits(e)'
  BY LinksStay, StillFits
<1> QED  BY <1>1, WorkerPulls

LEMMA BeginFits ==
  ASSUME IInv, SInv, Begin(Worker) \/ CursorGone(Worker) \/ End(Worker) \/ PullFails(Worker)
  PROVE  SInv'
<1>1. UNCHANGED <<event, link, outbox, remote, clock, work>> /\ work.pc = "idle"
  BY PullsAlone DEF Begin, CursorGone, End, PullFails, bounds
<1>2. pull'[Worker].pc \in {"idle", "ask"}
  <2>1. Worker \in Pullers /\ pull \in [Pullers -> PullState]
    BY DEF Pullers, IInv, TypeOK
  <2>2. CASE Begin(Worker)
    BY <2>1, <2>2 DEF Begin, NoPull
  <2>3. CASE CursorGone(Worker)
    BY <2>1, <2>3 DEF CursorGone, PullState
  <2>4. CASE End(Worker) \/ PullFails(Worker)
    BY <2>1, <2>4 DEF End, PullFails, NoPull
  <2> QED  BY <2>2, <2>3, <2>4
<1> QED  BY <1>1, <1>2, NothingListed, PullGoesOn

LEMMA ListFits ==
  ASSUME IInv, SInv, List(Worker)
  PROVE  SInv'
<1>1. UNCHANGED <<event, link, outbox, remote, clock, work>> /\ work.pc = "idle"
  BY PullsAlone DEF List, bounds
<1>2. pull'[Worker].pc = "items" /\ pull'[Worker].next = clock /\ pull'[Worker].items = remote
  BY PullTypes DEF List, PullState, Pullers
<1>3. (\A g \in Ids : remote[g].v <= clock) /\ \A e \in Events : link[e].v <= clock
  BY DEF IInv, NoneAhead, SInv, Fits
<1>4. PullFits'
  BY <1>1, <1>2, <1>3 DEF PullFits
<1> QED  BY <1>1, <1>4, PullGoesOn

\* What a pull that goes ahead or on to the next item keeps.
LEMMA AheadKeeps ==
  ASSUME IInv, NEW g, NEW e, NEW pc, Ahead(Worker, g, pc, e)
  PROVE  /\ pull'[Worker].pc = pc /\ pull'[Worker].g = g /\ pull'[Worker].e = e
         /\ pull'[Worker].next = pull[Worker].next /\ pull'[Worker].items = pull[Worker].items
<1>1. Worker \in Pullers /\ pull \in [Pullers -> PullState]
  BY DEF Pullers, IInv, TypeOK
<1> QED  BY <1>1 DEF Ahead, PullState

LEMMA NextItemKeeps ==
  ASSUME IInv, NEW g, NextItem(Worker, g)
  PROVE  /\ pull'[Worker].pc = "items"
         /\ pull'[Worker].next = pull[Worker].next /\ pull'[Worker].items = pull[Worker].items
<1>1. Worker \in Pullers /\ pull \in [Pullers -> PullState]
  BY DEF Pullers, IInv, TypeOK
<1> QED  BY <1>1 DEF NextItem, PullState

\* The next item: nothing is known of it yet.
LEMMA NextItemFits ==
  ASSUME IInv, SInv, pull[Worker].pc \notin {"idle", "ask"}, NEW g, NextItem(Worker, g),
         UNCHANGED remote, \A e \in Events : link'[e].v <= pull[Worker].next
  PROVE  PullFits'
BY Pulling, NextItemKeeps DEF PullFits

LEMMA LookFits ==
  ASSUME IInv, SInv, NEW g \in Ids, Look(Worker, g)
  PROVE  SInv'
<1> DEFINE item == pull[Worker].items[g]
<1>1. UNCHANGED <<event, link, outbox, remote, clock, work>> /\ pull[Worker].pc = "items"
  BY DEF Look, bounds
<1>2. work.pc = "idle"
  BY <1>1, PullsAlone
<1>3. \/ NextItem(Worker, g)
      \/ \E e \in LinkedTo(g) : \/ ~item.live /\ Ahead(Worker, g, "cancel", e)
                                \/ Ahead(Worker, g, "conflict", e)
                                \/ item.live /\ Ahead(Worker, g, "take", e)
      \/ item.live /\ Ahead(Worker, g, "add", None)
  BY Zenon DEF Look
<1>4. CASE NextItem(Worker, g)
  <2>1. PullFits'
    BY <1>1, <1>4, Pulling, NextItemFits
  <2> QED  BY <1>1, <1>2, <2>1, PullGoesOn
<1>5. ASSUME NEW pc \in {"cancel", "conflict", "take", "add"}, NEW e, Ahead(Worker, g, pc, e),
             pc \in {"cancel", "take"} => link[e].id = g,
             pc = "cancel" => ~item.live, pc \in {"take", "add"} => item.live
      PROVE  SInv'
  <2>1. PullFits'
    BY <1>1, <1>5, Pulling, AheadKeeps DEF PullFits
  <2> QED  BY <1>1, <1>2, <2>1, PullGoesOn
<1>6. CASE item.live /\ Ahead(Worker, g, "add", None)
  BY <1>5, <1>6
<1>7. ASSUME NEW e \in LinkedTo(g), \/ ~item.live /\ Ahead(Worker, g, "cancel", e)
                                    \/ Ahead(Worker, g, "conflict", e)
                                    \/ item.live /\ Ahead(Worker, g, "take", e)
      PROVE  SInv'
  <2>1. link[e].id = g
    BY DEF LinkedTo
  <2> QED  BY <1>5, <1>7, <2>1
<1> QED  BY <1>3, <1>4, <1>6, <1>7

\* A cancelled event of Google's cannot have been the last that was linked.
LEMMA CancelledFits ==
  ASSUME IInv, SInv, Cancelled(Worker) \/ Conflict(Worker)
  PROVE  SInv'
<1> PICK e, g : e = pull[Worker].e /\ g = pull[Worker].g
  OBVIOUS
<1>1. /\ e \in Events /\ g \in Ids /\ pull[Worker].pc \in {"cancel", "conflict"}
      /\ UNCHANGED <<link, outbox, remote, clock, work>> /\ NextItem(Worker, g)
  BY PullTypes DEF Cancelled, Conflict, PullInv, AtItsItem, Pullers, bounds
<1>2. work.pc = "idle" /\ PullFits'
  BY <1>1, Pulling, NextItemFits
<1>3. /\ \A d \in Events \ {e} : event'[d] = event[d]
      /\ event'[e].there = event[e].there
      /\ event'[e].state = "synced" => pull[Worker].pc = "cancel"
  BY <1>1 DEF Cancelled, Conflict, IInv, TypeOK, EventRow
<1>4. \A d \in Events \ {e} : Fits(d)'
  BY <1>1, <1>3, LinksStay, StillFits
<1>5. ASSUME pull[Worker].pc = "cancel", Latest(e)
      PROVE  FALSE
  <2>1. link[e].id = g /\ ~pull[Worker].items[g].live
    BY <1>5 DEF SInv, PullFits, Listed
  <2>2. remote[g] = pull[Worker].items[g]
    BY <1>1, <1>5, <2>1, ListedIsLatest
  <2>3. remote[g].live
    BY <1>1, <1>5, <2>1 DEF SInv, Fits
  <2> QED  BY <2>1, <2>2, <2>3
<1>6. Fits(e)'
  BY <1>1, <1>3, <1>5 DEF SInv, Fits, Agrees, Latest
<1> QED  BY <1>1, <1>2, <1>4, <1>6, WorkerPulls

\* The event takes what Google's event says, and is linked to what was listed.
LEMMA TakeFits ==
  ASSUME IInv, SInv, Take(Worker)
  PROVE  SInv'
<1> PICK g : g = pull[Worker].g
  OBVIOUS
<1>1. PICK e \in Events, pc \in {"relink", "insert"} :
        /\ IF pull[Worker].pc = "take" THEN e = pull[Worker].e ELSE ~event[e].there /\ remote[e].v = 0
        /\ event' = [event EXCEPT ![e] =
             [there |-> TRUE, text |-> pull[Worker].items[g].text, deleted |-> FALSE, state |-> "synced"]]
        /\ Ahead(Worker, g, pc, e) /\ (pc = "relink" => pull[Worker].pc = "take")
  BY DEF Take
<1>2. /\ g \in Ids /\ pull[Worker].pc \in {"take", "add"}
      /\ UNCHANGED <<link, outbox, remote, clock, work>>
  BY PullTypes DEF Take, PullInv, AtItsItem, Pullers, bounds
<1>3. /\ \A d \in Events \ {e} : event'[d] = event[d]
      /\ event'[e].there /\ event'[e].text = pull[Worker].items[g].text
  BY <1>1 DEF IInv, TypeOK
<1>4. /\ link[e].id \in {None, g} /\ pull[Worker].items[g].live
      /\ pc = "relink" => link[e].id = g
  <2>1. CASE pull[Worker].pc = "take"
    BY <1>1, <2>1 DEF SInv, PullFits, Listed
  <2>2. CASE pull[Worker].pc = "add"
    BY <1>1, <2>2 DEF SInv, Fits, PullFits, Listed
  <2> QED  BY <1>2, <2>1, <2>2
<1>5. PullFits'
  BY <1>1, <1>2, <1>3, <1>4, Pulling, AheadKeeps DEF PullFits
<1>6. \A d \in Events \ {e} : Fits(d)'
  BY <1>2, <1>3, LinksStay, StillFits
<1>7. Latest(e) => link[e].id = g /\ remote[g] = pull[Worker].items[g]
  <2> SUFFICES ASSUME Latest(e) PROVE link[e].id = g /\ remote[g] = pull[Worker].items[g]
    OBVIOUS
  <2>1. link[e].id = g
    BY <1>4 DEF Latest
  <2> QED  BY <1>2, <2>1, ListedIsLatest
<1>8. Fits(e)'
  BY <1>2, <1>3, <1>7 DEF SInv, Fits, Agrees, Latest
<1>9. work.pc = "idle"
  BY <1>2, Pulling
<1> QED  BY <1>2, <1>5, <1>6, <1>8, <1>9, WorkerPulls

\* The link says what was listed, of an event that says the same.
LEMMA LinkFits ==
  ASSUME IInv, SInv, NEW e \in Events, NEW g \in Ids, pull[Worker].pc \in {"relink", "insert"},
         e = pull[Worker].e, g = pull[Worker].g,
         link'[e] = LinkOf(g, pull[Worker].items[g]), \A d \in Events \ {e} : link'[d] = link[d],
         NextItem(Worker, g), UNCHANGED <<event, outbox, remote, clock, work>>
  PROVE  SInv'
<1>1. link'[e].id = g /\ link'[e].v = pull[Worker].items[g].v /\ pull[Worker].items[g] \in Item
  BY LinkOfItem, PullTypes DEF Pullers
<1>2. /\ event[e].there /\ event[e].text = pull[Worker].items[g].text /\ pull[Worker].items[g].live
      /\ pull[Worker].items[g].v <= pull[Worker].next /\ pull[Worker].next <= clock
      /\ pull[Worker].next \in Nat /\ clock \in Nat /\ pull[Worker].items[g].v \in Nat
  BY <1>1, PullTypes, Pulling DEF SInv, PullFits, Listed, PullInv, Pullers, Item
<1>3. remote[g].v = pull[Worker].items[g].v => remote[g] = pull[Worker].items[g]
  BY <1>2, Pulling
<1>4. PullFits' /\ work.pc = "idle"
  BY <1>1, <1>2, Pulling, NextItemFits
<1>5. \A d \in Events \ {e} : Fits(d)'
  BY DEF SInv, Fits, Agrees, Latest
<1>6. Fits(e)'
  <2>1. link'[e].v <= clock
    BY <1>1, <1>2
  <2> QED  BY <1>1, <1>2, <1>3, <2>1 DEF Fits, Agrees, Latest
<1> QED  BY <1>4, <1>5, <1>6, WorkerPulls

LEMMA RelinkFits ==
  ASSUME IInv, SInv, OneLink, Relink(Worker)
  PROVE  SInv'
<1> PICK e, g : e = pull[Worker].e /\ g = pull[Worker].g
  OBVIOUS
<1>1. /\ e \in Events /\ g \in Ids /\ pull[Worker].pc = "relink" /\ NextItem(Worker, g)
      /\ UNCHANGED <<event, outbox, remote, clock, work>>
  BY PullTypes DEF Relink, PullInv, AtItsItem, Pullers, bounds
<1>2. link[e].id = g /\ g # None
  BY <1>1, IdsAssumption DEF SInv, PullFits, Listed, Ids
<1>3. LinkedTo(g) = {e}
  BY <1>1, <1>2 DEF LinkedTo, OneLink
<1>4. link'[e] = LinkOf(g, pull[Worker].items[g]) /\ \A d \in Events \ {e} : link'[d] = link[d]
  BY <1>1, <1>3 DEF Relink
<1> QED  BY <1>1, <1>4, LinkFits

LEMMA InsertFits ==
  ASSUME IInv, SInv, Insert(Worker)
  PROVE  SInv'
<1> PICK e, g : e = pull[Worker].e /\ g = pull[Worker].g
  OBVIOUS
<1>1. /\ e \in Events /\ g \in Ids /\ pull[Worker].pc = "insert"
      /\ UNCHANGED <<event, outbox, remote, clock, work>>
  BY PullTypes DEF Insert, PullInv, AtItsItem, Pullers, bounds
<1>2. CASE link' = [link EXCEPT ![e] = LinkOf(g, pull[Worker].items[g])] /\ NextItem(Worker, g)
  <2>1. link'[e] = LinkOf(g, pull[Worker].items[g]) /\ \A d \in Events \ {e} : link'[d] = link[d]
    BY <1>1, <1>2 DEF IInv, TypeOK
  <2> QED  BY <1>1, <1>2, <2>1, LinkFits
<1>3. CASE pull' = [pull EXCEPT ![Worker] = NoPull] /\ UNCHANGED link
  <2>1. pull'[Worker].pc = "idle"
    BY <1>3 DEF IInv, TypeOK, Pullers, NoPull
  <2> QED  BY <1>1, <1>3, <2>1, Pulling, NothingListed, PullGoesOn
<1> QED  BY <1>2, <1>3 DEF Insert

----------------------------------------------------------------------------
(* Google's own users: whatever they write is news.                        *)

LEMMA GoogleFits ==
  ASSUME IInv, SInv, NEW h \in Ids, GoogleCancels(h) \/ \E t \in Texts : GoogleEdits(h, t)
  PROVE  SInv'
<1>1. PICK row : Stored(h, row) /\ row.v = clock + 1
  <2>1. remote[h] \in Item /\ clock + 1 \in Nat
    BY DEF IInv, TypeOK
  <2>2. CASE GoogleCancels(h)
    <3> DEFINE new == [remote[h] EXCEPT !.v = clock + 1, !.live = FALSE]
    <3>1. new.v = clock + 1
      BY <2>1 DEF Item
    <3>2. Stored(h, new)
      BY <2>2 DEF GoogleCancels
    <3> HIDE DEF new
    <3> QED  BY <3>1, <3>2
  <2>3. CASE \E t \in Texts : GoogleEdits(h, t)
    <3> PICK t \in Texts : GoogleEdits(h, t)
      BY <2>3
    <3> DEFINE new == [remote[h] EXCEPT !.v = clock + 1, !.text = t, !.live = TRUE]
    <3>1. new.v = clock + 1
      BY <2>1 DEF Item
    <3>2. Stored(h, new)
      BY DEF GoogleEdits
    <3> HIDE DEF new
    <3> QED  BY <3>1, <3>2
  <2> QED  BY <2>2, <2>3
<1>2. UNCHANGED <<event, link, outbox, work, pull>>
  BY DEF GoogleCancels, GoogleEdits
<1>3. /\ \A g \in Ids : remote'[g] = IF g = h THEN row ELSE remote[g]
      /\ \A d \in Events : link[d].v <= clock' /\ (Latest(d)' =>
           Latest(d) /\ remote'[link[d].id] = remote[link[d].id])
      /\ clock' = clock + 1 /\ clock \in Nat
  BY <1>1, <1>2, NewsToLinks DEF Stored, IInv, TypeOK
<1>4. \A d \in Events : Fits(d)' /\ (Agrees(d) => Agrees(d)')
  BY <1>2, <1>3, StillFits
<1>5. OneAtATime'
  BY <1>2 DEF SInv, OneAtATime
<1>6. WorkFits'
  <2>1. work.pc = "linked" => Agrees(work.e)'
    BY <1>2, <1>4 DEF SInv, WorkFits, IInv, AtItsEvent
  <2>2. work.v \in Nat
    BY DEF IInv, TypeOK, Work
  <2>3. work.pc = "answered" => work.v <= clock' /\ work.id \in Ids /\
          (remote'[work.id].v = work.v => remote'[work.id].live /\ remote'[work.id].text = work.text)
    BY <1>1, <1>3, <2>2 DEF SInv, WorkFits
  <2> QED  BY <1>2, <2>1, <2>3 DEF SInv, WorkFits, Sending
<1>7. PullFits'
  <2>1. pull[Worker].next <= clock /\ pull[Worker].next \in Nat
    BY PullTypes DEF PullInv, Pullers
  <2>2. Listed(Worker) => \A g \in Ids :
          remote'[g].v <= pull[Worker].next => remote'[g] = pull[Worker].items[g]
    BY <1>1, <1>3, <2>1 DEF SInv, PullFits
  <2> QED  BY <1>2, <2>2 DEF SInv, PullFits, Listed
<1> QED  BY <1>4, <1>5, <1>6, <1>7 DEF SInv

----------------------------------------------------------------------------
LEMMA InitFits == Init => SInv
<1> SUFFICES ASSUME Init PROVE SInv
  OBVIOUS
<1>1. OneAtATime /\ WorkFits /\ PullFits
  BY DEF Init, OneAtATime, WorkFits, Sending, PullFits, Listed, Idle, NoPull, Pullers
<1>2. clock = 0 /\ \A e \in Events : link[e].v = 0
  BY DEF Init, NoLink
<1>3. \A e \in Events : link[e].v <= clock
  <2>1. 0 <= 0
    OBVIOUS
  <2> QED  BY <1>2, <2>1, Zenon
<1>4. \A e \in Events : event[e].state = "pending" /\ outbox[e].status = "none" /\ link[e].id = None
  BY DEF Init, NoEvent, NoLink, NoRow
<1>5. \A e \in Events : Fits(e)
  BY <1>3, <1>4, Zenon DEF Fits, Latest
<1> QED  BY <1>1, <1>5 DEF SInv

LEMMA StepFits ==
  ASSUME Apis = {}, IInv, OneLink, SInv, [Next]_vars, [AdoptsItsOwn]_vars
  PROVE  SInv'
<1>1. CASE UNCHANGED vars
  <2>1. \A e \in Events : Fits(e)'
    BY <1>1 DEF vars, SInv, Fits, Agrees, Latest
  <2>2. WorkFits'
    BY <1>1 DEF vars, SInv, WorkFits, Sending, Agrees, Latest
  <2>3. PullFits' /\ OneAtATime'
    BY <1>1 DEF vars, SInv, PullFits, Listed, OneAtATime
  <2> QED  BY <2>1, <2>2, <2>3 DEF SInv
<1>2. CASE \E e \in Events, t \in Texts : Create(e, t) \/ Update(e, t)
  BY <1>2, EditFits
<1>3. CASE Enqueue \/ Die
  BY <1>3, EnqueueFits, DoneFits
<1>4. CASE Push /\ ~UNCHANGED vars
  <2>1. AdoptsItsOwn
    BY <1>4
  <2> QED  BY <1>4, <2>1, ClaimFits, ReadFits, PostFits, AdoptFits, PatchFits, RefusedFits, LinkedFits,
           DoneFits DEF Push
<1>5. CASE \E p \in Pullers : Pull(p)
  <2>1. Pull(Worker)
    BY <1>5 DEF Pullers
  <2> QED  BY <2>1, BeginFits, ListFits, LookFits, CancelledFits, TakeFits, RelinkFits, InsertFits DEF Pull
<1>6. CASE \E g \in Ids : GoogleCancels(g) \/ \E t \in Texts : GoogleEdits(g, t)
  BY <1>6, GoogleFits
<1> QED  BY <1>1, <1>2, <1>3, <1>4, <1>5, <1>6 DEF Next

\* Where the worker alone pulls and a create adopts only what it would have posted, an
\* event shown as synced says what Google says, though answers are lost, processes die,
\* cursors are dropped, and the event is edited and cancelled at Google in between.
THEOREM SyncedUnlessAdopted ==
  ASSUME Apis = {}
  PROVE  Spec /\ [][AdoptsItsOwn]_vars => []SyncedIsPushed
<1>1. Init => SInv
  BY InitFits
<1>2. IInv /\ OneLink /\ SInv /\ [Next]_vars /\ [AdoptsItsOwn]_vars => SInv'
  BY StepFits
<1>3. SInv => SyncedIsPushed
  BY DEF SInv, Fits, Agrees, Latest, SyncedIsPushed
<1> QED  BY <1>1, <1>2, <1>3, Invariance, OneLinkAlways, PTL DEF Spec
=============================================================================
