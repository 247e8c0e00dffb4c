----------------------------- MODULE FolderSync -----------------------------
(***************************************************************************)
(* A mapped cloud folder: the grant that a person gives and takes back,    *)
(* and the walks that copy the folder's text into the search index.        *)
(*                                                                         *)
(*   packages/connectors/src/storageSync.ts   dueCloudMappings, the walk   *)
(*   packages/storage/src/ingest.ts, gates.ts, extract.ts                  *)
(*   packages/storage/src/mappings.ts         the grant                    *)
(*   packages/storage/src/versions.ts         recordSyncFailure            *)
(*   apps/api/src/http/storageRoutes.ts       capabilities                 *)
(*                                                                         *)
(* One folder of one person, without subfolders.  The installation runs    *)
(* one worker, whose ticks do not overlap: one walk at a time, beside the  *)
(* requests of the API and beside a provider whose files change meanwhile. *)
(* Every statement of a walk is a step.                                    *)
(***************************************************************************)
EXTENDS Naturals, FiniteSets, FiniteSetsExt

CONSTANTS
  Files,          \* paths of the folder: their places in the order of names
  Exported,       \* of them, those without a size of their own: Google documents
  MaxVersion,     \* bound: edits of one file
  MaxEdits,       \* bound: edits of all files
  Refused,        \* <<file, version>>: too large, an extension not allowed, ...
  Unindexable,    \* <<file, version>>: encrypted, a credential, nothing to extract
  Quotas,         \* what max_files_per_user may be
  MaxMappings,    \* bound: times the folder is mapped
  MaxPending,     \* bound: requests of the API under way at once
  MaxDeaths       \* bound: walks that die

ASSUME BoundsAssumption ==
  /\ Files \subseteq Nat /\ IsFiniteSet(Files) /\ Exported \subseteq Files
  /\ {MaxVersion, MaxEdits, MaxMappings, MaxPending, MaxDeaths} \cup Quotas \subseteq Nat
  /\ Refused \cup Unindexable \subseteq Files \X Nat

VARIABLES
  remote,     \* the provider's files: their latest version, and whether they are there
  mapping,    \* folder_mappings
  pending,    \* requests of the API between two of their statements
  connected,  \* the connection is active and grants the capability
  docs,       \* documents and document_text
  walk,       \* what the worker is at
  quota,      \* max_files_per_user
  quiet,      \* nothing but the worker moves any more
  deaths

grant == <<mapping, pending, connected>>
vars == <<remote, grant, docs, walk, quota, quiet, deaths>>

NoStamps == [f \in Files |-> 0]
NoDoc == [state |-> "none", stamp |-> 0, size |-> "listed", text |-> 0]
NoWalk == [pc |-> "idle", gen |-> 0, before |-> NoStamps, turned |-> {}, listed |-> NoStamps,
           complete |-> TRUE, todo |-> {}, usage |-> 0, got |-> 0, steady |-> {}]

There(f) == docs[f].state # "none"
Counted(D) == {f \in Files : D[f].state \notin {"none", "skipped"}}
NoDocs == [f \in Files |-> NoDoc]

\* Settled or not.
StampsOfAll == [f \in Files |-> IF docs[f].size = "listed" THEN docs[f].stamp ELSE 0]

\* What a listing must say of a file to be passed over: the stamp and the size of
\* a settled row.  The length of an export is the size of no listing.
SettledStamps ==
  [f \in Files |-> IF docs[f].state \in {"indexed", "skipped"} /\ docs[f].size = "listed"
                     THEN docs[f].stamp ELSE 0]

\* The grant this walk read is still a row.
Granted == mapping.there /\ mapping.gen = walk.gen

----------------------------------------------------------------------------
(* The provider, the person and the administrator.                         *)

Edit(f) ==
  /\ ~quiet /\ remote[f].v < MaxVersion
  /\ MapThenSumSet(LAMBDA g : remote[g].v, Files) < MaxEdits
  /\ remote' = [remote EXCEPT ![f] = [v |-> @.v + 1, there |-> TRUE]]
  /\ UNCHANGED <<grant, docs, walk, quota, quiet, deaths>>

Delete(f) ==
  /\ ~quiet /\ remote[f].there
  /\ remote' = [remote EXCEPT ![f].there = FALSE]
  /\ walk' = [walk EXCEPT !.steady = @ \ {f}]
  /\ UNCHANGED <<grant, docs, quota, quiet, deaths>>

Connect(up) ==
  /\ ~quiet /\ connected' = up
  /\ UNCHANGED <<remote, mapping, pending, docs, walk, quota, quiet, deaths>>

\* createMapping
Map ==
  /\ ~quiet /\ ~mapping.there /\ pending = {} /\ mapping.gen < MaxMappings
  /\ mapping' = [gen |-> mapping.gen + 1, there |-> TRUE, indexing |-> FALSE, status |-> "active"]
  /\ UNCHANGED <<remote, pending, connected, docs, walk, quota, quiet, deaths>>

Flag(on) == mapping' = IF mapping.there THEN [mapping EXCEPT !.indexing = on] ELSE mapping

\* setIndexing(true)
Enable ==
  /\ ~quiet /\ mapping.there /\ ~mapping.indexing
  /\ Flag(TRUE)
  /\ UNCHANGED <<remote, pending, connected, docs, walk, quota, quiet, deaths>>

\* A request that takes two statements.
Begin(request) ==
  /\ ~quiet /\ mapping.there
  /\ request \notin pending /\ Cardinality(pending) < MaxPending
  /\ pending' = pending \cup {request}

End(request) == request \in pending /\ pending' = pending \ {request}

\* setIndexing(false): purgeDerived, then the row.
DisableBegin ==
  /\ Begin("disable")
  /\ docs' = NoDocs
  /\ UNCHANGED <<remote, mapping, connected, walk, quota, quiet, deaths>>

DisableEnd ==
  /\ End("disable")
  /\ Flag(FALSE)
  /\ UNCHANGED <<remote, connected, docs, walk, quota, quiet, deaths>>

\* PUT /admin/capabilities takes may_index away: the row first, then purgeDerived.
RevokeBegin ==
  /\ Begin("revoke") /\ mapping.indexing
  /\ Flag(FALSE)
  /\ UNCHANGED <<remote, connected, docs, walk, quota, quiet, deaths>>

RevokeEnd ==
  /\ End("revoke")
  /\ docs' = NoDocs
  /\ UNCHANGED <<remote, mapping, connected, walk, quota, quiet, deaths>>

\* unmapFolder: purgeDerived, then the row, whose documents go by the cascade.
UnmapBegin ==
  /\ Begin("unmap")
  /\ docs' = NoDocs
  /\ UNCHANGED <<remote, mapping, connected, walk, quota, quiet, deaths>>

\* The purge was before.
UnmapRowOnly ==
  /\ End("unmap")
  /\ mapping' = [mapping EXCEPT !.there = FALSE, !.indexing = FALSE]
  /\ UNCHANGED <<remote, connected, docs, walk, quota, quiet, deaths>>

UnmapEnd ==
  /\ End("unmap")
  /\ mapping' = [mapping EXCEPT !.there = FALSE, !.indexing = FALSE]
  /\ docs' = NoDocs
  /\ UNCHANGED <<remote, connected, walk, quota, quiet, deaths>>

Quiet ==
  /\ ~quiet /\ quiet' = TRUE
  /\ UNCHANGED <<remote, grant, docs, walk, quota, deaths>>

----------------------------------------------------------------------------
(* syncCloudMapping.                                                       *)

\* A job starts: by its schedule or by Sync now.  What it finds off is no error.
Start ==
  /\ walk.pc = "idle"
  /\ mapping.there /\ mapping.status = "active" /\ mapping.indexing
  /\ walk' = [NoWalk EXCEPT !.pc = "open", !.gen = mapping.gen,
                !.steady = {f \in Files : remote[f].there}]
  /\ UNCHANGED <<remote, grant, docs, quota, quiet, deaths>>

Stop == walk' = NoWalk

\* recordSyncFailure: a lost token or scope pauses the mapping for good.
Fail(category) ==
  /\ mapping' = IF Granted /\ category = "token" /\ mapping.status = "active"
                  THEN [mapping EXCEPT !.status = "paused"] ELSE mapping
  /\ Stop

\* The connection and its capability, at the moment of use; then what is there
\* already and what it counts.
Open ==
  /\ walk.pc = "open"
  /\ IF connected
       THEN /\ walk' = [walk EXCEPT !.pc = "list",
                 !.before = IF Granted THEN SettledStamps ELSE NoStamps,
                 !.usage = Cardinality(Counted(IF Granted THEN docs ELSE NoDocs))]
            /\ UNCHANGED mapping
       ELSE Fail("token")
  /\ UNCHANGED <<remote, pending, connected, docs, quota, quiet, deaths>>

\* The provider refuses a call: its token is lost, or it fails for now.
ProviderFails ==
  /\ walk.pc \in {"list", "fetch"}
  /\ \/ ~connected /\ Fail("token")
     \/ ~quiet /\ Fail("other")
  /\ UNCHANGED <<remote, pending, connected, docs, quota, quiet, deaths>>

\* A page: the provider says of these files what it has now.
ListPage(S) ==
  /\ walk.pc = "list" /\ connected
  /\ S # {} /\ S \cap walk.turned = {}
  /\ walk' = [walk EXCEPT !.turned = @ \cup S,
       !.listed = [f \in Files |-> IF f \in S /\ remote[f].there THEN remote[f].v ELSE @[f]]]
  /\ UNCHANGED <<remote, grant, docs, quota, quiet, deaths>>

Seen == {f \in Files : walk.listed[f] # 0}

\* The last page, or more than maxEntries.  What agrees with its settled row is
\* passed over.
Listed ==
  /\ walk.pc = "list"
  /\ walk.turned = Files \/ ~quiet
  /\ walk' = [walk EXCEPT !.pc = "walk", !.turned = {}, !.before = NoStamps,
       !.complete = (walk.turned = Files),
       !.todo = {f \in Seen : walk.listed[f] # walk.before[f]}]
  /\ UNCHANGED <<remote, grant, docs, quota, quiet, deaths>>

\* The files are taken in the order of their names.
Current(f) == f \in walk.todo /\ \A g \in walk.todo : f <= g
Ingesting(pc, f) == walk.pc = pc /\ Current(f)
Go(pc) == walk' = [walk EXCEPT !.pc = pc]
Done(f) == walk' = [walk EXCEPT !.pc = "walk", !.todo = @ \ {f}, !.got = 0]

\* upsertDocument, with the listed size: a mapping that is gone fails the foreign key.
Upsert(f) ==
  /\ Ingesting("walk", f)
  /\ IF Granted
       THEN /\ docs' = [docs EXCEPT ![f].size = "listed",
                  ![f].state = IF @ = "none" THEN "discovered" ELSE @]
            /\ Go("gate")
            /\ UNCHANGED mapping
       ELSE Fail("other") /\ UNCHANGED docs
  /\ UNCHANGED <<remote, pending, connected, quota, quiet, deaths>>

\* An update or delete by id: of a row that is gone, nothing.
Write(f, row) == docs' = IF There(f) /\ Granted THEN [docs EXCEPT ![f] = row] ELSE docs

\* What it accepts is not counted.
GateUncounted(f) ==
  LET v == walk.listed[f] IN
  /\ Ingesting("gate", f)
  /\ IF walk.usage >= quota \/ <<f, v>> \in Refused
       THEN Write(f, [docs[f] EXCEPT !.state = "skipped"]) /\ Go("skip")
       ELSE Write(f, [docs[f] EXCEPT !.state = "discovered"]) /\ Go("stamp")
  /\ UNCHANGED <<remote, grant, quota, quiet, deaths>>

\* Nothing is written: the row keeps its state while the file is fetched.
GateKeepsState(f) ==
  LET v == walk.listed[f] IN
  /\ Ingesting("gate", f)
  /\ IF walk.usage >= quota \/ <<f, v>> \in Refused
       THEN Write(f, [docs[f] EXCEPT !.state = "skipped"]) /\ Go("skip")
       ELSE walk' = [walk EXCEPT !.pc = "stamp", !.usage = @ + 1] /\ UNCHANGED docs
  /\ UNCHANGED <<remote, grant, quota, quiet, deaths>>

\* checkFile on the usage of this walk, charged for every file it accepts.
Gate(f) ==
  LET v == walk.listed[f] IN
  /\ Ingesting("gate", f)
  /\ IF walk.usage >= quota \/ <<f, v>> \in Refused
       THEN Write(f, [docs[f] EXCEPT !.state = "skipped"]) /\ Go("skip")
       ELSE Write(f, [docs[f] EXCEPT !.state = "discovered"])
            /\ walk' = [walk EXCEPT !.pc = "stamp", !.usage = @ + 1]
  /\ UNCHANGED <<remote, grant, quota, quiet, deaths>>

\* Scanning is required and the worker has no scanner: the file is skipped and
\* the run fails.
ScanBlocked(f) ==
  /\ Ingesting("gate", f) /\ ~quiet
  /\ walk.usage < quota /\ <<f, walk.listed[f]>> \notin Refused
  /\ Write(f, [docs[f] EXCEPT !.state = "skipped", !.text = 0])
  /\ Fail("other")
  /\ UNCHANGED <<remote, pending, connected, quota, quiet, deaths>>

\* markSkipped: the text goes after the state; the stamp follows.
MarkSkipped(f) ==
  /\ Ingesting("skip", f)
  /\ Write(f, [docs[f] EXCEPT !.text = 0])
  /\ Go("skipped")
  /\ UNCHANGED <<remote, grant, quota, quiet, deaths>>

Stamp(f) ==
  /\ \/ Ingesting("stamp", f) /\ Go("fetch")
     \/ Ingesting("skipped", f) /\ Done(f)
  /\ Write(f, [docs[f] EXCEPT !.stamp = walk.listed[f]])
  /\ UNCHANGED <<remote, grant, quota, quiet, deaths>>

\* The bytes are those of now.
Fetch(f) ==
  /\ Ingesting("fetch", f) /\ connected /\ remote[f].there
  /\ walk' = [walk EXCEPT !.got = remote[f].v,
                          !.pc = IF <<f, remote[f].v>> \in Unindexable THEN "reject" ELSE "clear"]
  /\ UNCHANGED <<remote, grant, docs, quota, quiet, deaths>>

\* This file cannot be read: it is gone, or the provider fails for it alone.
FetchFails(f) ==
  /\ Ingesting("fetch", f)
  /\ ~remote[f].there \/ ~quiet
  /\ Go("reject")
  /\ UNCHANGED <<remote, grant, docs, quota, quiet, deaths>>

\* skipDocument: state, then text.
Skip(f) ==
  /\ Ingesting("reject", f)
  /\ Write(f, [docs[f] EXCEPT !.state = "skipped"])
  /\ Go("rejected")
  /\ UNCHANGED <<remote, grant, quota, quiet, deaths>>

SkipText(f) ==
  /\ Ingesting("rejected", f)
  /\ Write(f, [docs[f] EXCEPT !.text = 0])
  /\ Done(f)
  /\ UNCHANGED <<remote, grant, quota, quiet, deaths>>

\* storeExtraction: the old text goes, the new one comes, the state follows.
Clear(f) ==
  /\ Ingesting("clear", f)
  /\ Write(f, [docs[f] EXCEPT !.text = 0])
  /\ Go("insert")
  /\ UNCHANGED <<remote, grant, quota, quiet, deaths>>

Insert(f) ==
  /\ Ingesting("insert", f)
  /\ IF There(f) /\ Granted
       THEN /\ docs' = [docs EXCEPT ![f].text = walk.got]
            /\ Go("indexed")
            /\ UNCHANGED mapping
       ELSE Fail("other") /\ UNCHANGED docs
  /\ UNCHANGED <<remote, pending, connected, quota, quiet, deaths>>

Indexed(f) ==
  /\ Ingesting("indexed", f)
  /\ Write(f, [docs[f] EXCEPT !.state = "indexed"])
  /\ Go("size")
  /\ UNCHANGED <<remote, grant, quota, quiet, deaths>>

\* The size of what was fetched.
Size(f) ==
  /\ Ingesting("size", f)
  /\ Write(f, [docs[f] EXCEPT !.size = IF f \in Exported THEN "fetched" ELSE "listed"])
  /\ Done(f)
  /\ UNCHANGED <<remote, grant, quota, quiet, deaths>>

\* removeUnseen, whatever the walk saw.
RemoveAlways ==
  /\ walk.pc = "walk" /\ walk.todo = {}
  /\ docs' = [f \in Files |-> IF Granted /\ f \notin Seen THEN NoDoc ELSE docs[f]]
  /\ Stop
  /\ UNCHANGED <<remote, grant, quota, quiet, deaths>>

\* removeUnseen, only after a complete walk.
Remove ==
  /\ walk.pc = "walk" /\ walk.todo = {}
  /\ docs' = [f \in Files |-> IF walk.complete /\ Granted /\ f \notin Seen THEN NoDoc ELSE docs[f]]
  /\ Stop
  /\ UNCHANGED <<remote, grant, quota, quiet, deaths>>

\* The worker dies: what it wrote stays.
Die ==
  /\ walk.pc # "idle" /\ deaths < MaxDeaths /\ ~quiet
  /\ deaths' = deaths + 1
  /\ Stop
  /\ UNCHANGED <<remote, grant, docs, quota, quiet>>

----------------------------------------------------------------------------
Init ==
  /\ remote = [f \in Files |-> [v |-> 0, there |-> FALSE]]
  /\ mapping = [gen |-> 0, there |-> FALSE, indexing |-> FALSE, status |-> "active"]
  /\ pending = {} /\ connected = TRUE
  /\ docs = NoDocs /\ walk = NoWalk
  /\ quota \in Quotas /\ quiet = FALSE /\ deaths = 0

Ingest(f) ==
  \/ Upsert(f) \/ Gate(f) \/ ScanBlocked(f) \/ MarkSkipped(f) \/ Stamp(f)
  \/ Fetch(f) \/ FetchFails(f) \/ Skip(f) \/ SkipText(f)
  \/ Clear(f) \/ Insert(f) \/ Indexed(f) \/ Size(f)

Sync ==
  \/ Start \/ Open \/ ProviderFails \/ Listed
  \/ \E S \in SUBSET Files : ListPage(S)
  \/ \E f \in Files : Ingest(f)
  \/ Remove

Requests ==
  \/ Map \/ Enable \/ DisableBegin \/ RevokeBegin \/ UnmapBegin

Answers == DisableEnd \/ RevokeEnd \/ UnmapEnd

Outside ==
  \/ \E f \in Files : Edit(f) \/ Delete(f)
  \/ \E on \in BOOLEAN : Connect(on)
  \/ Quiet

Next == Sync \/ Requests \/ Answers \/ Outside \/ Die

Spec == Init /\ [][Next]_vars

\* The worker goes on with a walk and takes the mapping when it is due; a request
\* of the API runs to its end.
FairSpec == Spec /\ WF_vars(Sync) /\ WF_vars(Answers)

----------------------------------------------------------------------------
(* Properties.                                                             *)

Versions == 0..MaxVersion
WalkPcs == {"idle", "open", "list", "walk", "gate", "skip", "skipped", "stamp", "fetch", "reject",
            "rejected", "clear", "insert", "indexed", "size"}
Mapping == [gen : Nat, there : BOOLEAN, indexing : BOOLEAN, status : {"active", "paused"}]
Row == [state : {"none", "discovered", "indexed", "skipped"}, stamp : Versions,
        size : {"listed", "fetched"}, text : Versions]
Walk == [pc : WalkPcs, gen : Nat, before : [Files -> Versions], turned : SUBSET Files,
         listed : [Files -> Versions], complete : BOOLEAN, todo : SUBSET Files,
         usage : Nat, got : Versions, steady : SUBSET Files]

\* Types of the variables; a path without a row has no text and no stamp.
TypeOK ==
  /\ remote \in [Files -> [v : Versions, there : BOOLEAN]]
  /\ mapping \in Mapping /\ pending \subseteq {"disable", "revoke", "unmap"}
  /\ connected \in BOOLEAN /\ quiet \in BOOLEAN
  /\ docs \in [Files -> Row] /\ \A f \in Files : ~There(f) => docs[f] = NoDoc
  /\ walk \in Walk
  /\ quota \in Quotas /\ deaths \in Nat

\* A row that reads indexed, and that a later walk therefore leaves alone while
\* its stamp agrees, has a text at least as new as its stamp, however a walk
\* that wrote it was cut short.
SettledIsCurrent ==
  \A f \in Files : docs[f].state = "indexed" =>
    docs[f].text >= docs[f].stamp /\ docs[f].text > 0 /\ <<f, docs[f].text>> \notin Unindexable

\* A folder that is no longer mapped has nothing in the index, although a walk
\* may still be writing when the mapping goes.
UnmappedLeavesNothing == ~mapping.there => docs = NoDocs

IndexedFiles == {f \in Files : docs[f].state = "indexed"}

\* Walks, their deaths and the purges between them never index more files than
\* the person may have.
QuotaKept == Cardinality(IndexedFiles) <= quota

\* What a walk removes was gone at the provider at some moment of that walk: a
\* listing that was cut short removes nothing.
OnlyTheGoneAreRemoved ==
  [][walk.pc = "walk" /\ walk'.pc = "idle" =>
       \A f \in walk.steady : docs'[f] = docs[f]]_vars

Working == mapping.there /\ mapping.indexing /\ mapping.status = "active" /\ connected
CaughtUp ==
  \A f \in Files :
    IF remote[f].there
      THEN /\ docs[f].stamp = remote[f].v
           /\ docs[f].state = "skipped" \/ (docs[f].state = "indexed" /\ docs[f].text = remote[f].v)
      ELSE docs[f] = NoDoc

\* Once nothing else moves, a working mapping catches up with its folder: every
\* file is indexed in its latest version or skipped at it, and what is gone is gone.
IndexCatchesUp == quiet /\ pending = {} /\ Working ~> CaughtUp

=============================================================================
