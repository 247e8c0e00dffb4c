-------------------------- MODULE FolderSyncProofs --------------------------
(***************************************************************************)
(* What holds of FolderSync for any number of files, versions, mappings,   *)
(* requests and deaths.                                                    *)
(***************************************************************************)
EXTENDS FolderSync, FiniteSetTheorems, TLAPS

----------------------------------------------------------------------------
(* The inductive invariant.                                                *)

\* The file in hand passed the gates.
Accepted == {"stamp", "fetch", "reject", "clear", "insert", "indexed"}

\* A walk whose mapping went finds nothing of what it wrote, and nobody else writes.
OrphanWritesNothing == walk.pc # "idle" /\ ~Granted => docs = NoDocs

\* A file that is there has a version, and no listing is ahead of the provider.
ListedWas ==
  \A f \in Files : /\ remote[f].there => remote[f].v > 0
                   /\ walk.listed[f] <= remote[f].v

\* What the walk holds of the folder: a complete walk saw what never went away.
WalkSaw ==
  /\ walk.todo \subseteq Seen
  /\ walk.pc = "open" => walk.turned = {}
  /\ \A f \in walk.steady : remote[f].there
  /\ walk.pc = "list" => walk.steady \cap walk.turned \subseteq Seen
  /\ walk.pc \notin {"idle", "open", "list"} /\ walk.complete => walk.steady \subseteq Seen

\* How far the file in hand is.
InHandAt(f) ==
  /\ walk.pc \in Accepted => docs[f].state \in {"none", "discovered"}
  /\ walk.pc \in {"skip", "skipped", "rejected"} => docs[f].state \in {"none", "skipped"}
  /\ walk.pc \in {"fetch", "clear", "insert", "indexed"} /\ There(f) =>
       docs[f].stamp = walk.listed[f]
  /\ walk.pc \in {"clear", "insert", "indexed"} =>
       walk.got >= walk.listed[f] /\ walk.got > 0 /\ <<f, walk.got>> \notin Unindexable
  /\ walk.pc = "indexed" /\ There(f) => docs[f].text = walk.got

InHand == \A f \in Files : Current(f) => InHandAt(f)

\* The files that count, but for one whose gate is still to come.
Charged == Counted(docs) \ {f \in Files : walk.pc = "gate" /\ Current(f)}

UsageCounts ==
  /\ walk.pc \notin {"idle", "open"} => Cardinality(Charged) <= walk.usage
  /\ walk.pc \in Accepted => walk.usage <= quota

IInv ==
  /\ TypeOK /\ OrphanWritesNothing /\ UnmappedLeavesNothing /\ ListedWas /\ WalkSaw
  /\ InHand /\ SettledIsCurrent /\ UsageCounts /\ QuotaKept

----------------------------------------------------------------------------
(* Elementary facts.                                                       *)

\* Version 0 stands for none.
LEMMA NoVersion == MaxVersion \in Nat /\ 0 \in Versions /\ \A v \in Versions : v \in Nat
  BY BoundsAssumption DEF Versions

\* One file is in hand at a time.
LEMMA OneInHand ==
  ASSUME TypeOK, NEW f \in Files, NEW g \in Files, Current(f), Current(g)
  PROVE  f = g
<1>1. f <= g /\ g <= f /\ f \in Nat /\ g \in Nat
  BY BoundsAssumption DEF Current
<1> QED  BY <1>1

\* Fewer files are not more.
LEMMA Fewer ==
  ASSUME NEW S \in SUBSET Files, NEW T \in SUBSET S
  PROVE  /\ IsFiniteSet(S) /\ Cardinality(S) \in Nat /\ Cardinality(T) \in Nat
         /\ Cardinality(T) <= Cardinality(S)
<1>1. IsFiniteSet(S)
  BY BoundsAssumption, FS_Subset
<1>2. IsFiniteSet(T)
  BY <1>1, FS_Subset
<1> QED  BY <1>1, <1>2, FS_Subset, FS_CardinalityType

\* A write by id changes one row, and that only if it is there.
LEMMA WriteShape ==
  ASSUME TypeOK, NEW f \in Files, NEW row \in Row, There(f) => row.state # "none", Write(f, row)
  PROVE  /\ docs' \in [Files -> Row] /\ \A g \in Files : docs'[g].state = "none" => docs'[g] = NoDoc
         /\ \A g \in Files \ {f} : docs'[g] = docs[g]
         /\ \/ docs'[f] = row /\ There(f) /\ Granted
            \/ docs'[f] = docs[f] /\ ~(There(f) /\ Granted)
  BY DEF Write, TypeOK, There

\* A walk that stops holds nothing.
LEMMA StopKeeps ==
  ASSUME IInv, Stop, UNCHANGED remote
  PROVE  /\ walk' \in Walk
         /\ OrphanWritesNothing' /\ ListedWas' /\ WalkSaw' /\ InHand' /\ UsageCounts'
<1>1. walk' \in Walk
  BY BoundsAssumption DEF Stop, NoWalk, NoStamps, Walk, WalkPcs, Versions
<1>2. ListedWas'
  <2>1. \A f \in Files : remote[f].v \in Nat
    BY BoundsAssumption DEF IInv, TypeOK, Versions
  <2> QED  BY <2>1 DEF IInv, ListedWas, Stop, NoWalk, NoStamps
<1>3. WalkSaw' /\ InHand' /\ OrphanWritesNothing' /\ UsageCounts'
  BY DEF Stop, NoWalk, WalkSaw, InHand, InHandAt, Current, Accepted, OrphanWritesNothing, UsageCounts
<1> QED  BY <1>1, <1>2, <1>3

\* Of the mapping a failure touches nothing but the status.
LEMMA FailKeeps ==
  ASSUME TypeOK, NEW category, Fail(category)
  PROVE  mapping' \in Mapping /\ mapping'.there = mapping.there /\ mapping'.gen = mapping.gen
  BY DEF Fail, TypeOK, Mapping

\* A walk that goes on with the file in hand, or is done with it.
LEMMA GoKeeps ==
  ASSUME IInv, walk.pc \notin {"idle", "open", "list"}, UNCHANGED remote,
         NEW pc \in WalkPcs \ {"idle", "open", "list"}, Go(pc)
  PROVE  /\ walk' \in Walk /\ ListedWas' /\ WalkSaw'
         /\ walk'.pc = pc /\ walk'.todo = walk.todo /\ walk'.listed = walk.listed
         /\ walk'.gen = walk.gen /\ walk'.usage = walk.usage /\ walk'.got = walk.got
<1>1. /\ walk' \in Walk /\ walk'.pc = pc /\ walk'.todo = walk.todo /\ walk'.listed = walk.listed
      /\ walk'.gen = walk.gen /\ walk'.usage = walk.usage /\ walk'.got = walk.got
      /\ walk'.steady = walk.steady /\ walk'.complete = walk.complete
  BY DEF Go, IInv, TypeOK, Walk
<1>2. ListedWas' /\ WalkSaw'
  BY <1>1 DEF IInv, ListedWas, WalkSaw, Seen
<1> QED  BY <1>1, <1>2

LEMMA DoneKeeps ==
  ASSUME IInv, walk.pc \notin {"idle", "open", "list"}, UNCHANGED remote,
         NEW f \in Files, Done(f)
  PROVE  /\ walk' \in Walk /\ ListedWas' /\ WalkSaw' /\ InHand'
         /\ walk'.pc = "walk" /\ walk'.gen = walk.gen /\ walk'.usage = walk.usage
<1>1. /\ walk' \in Walk /\ walk'.pc = "walk" /\ walk'.todo = walk.todo \ {f}
      /\ walk'.listed = walk.listed /\ walk'.gen = walk.gen /\ walk'.usage = walk.usage
      /\ walk'.steady = walk.steady /\ walk'.complete = walk.complete
  BY NoVersion DEF Done, IInv, TypeOK, Walk, WalkPcs
<1>2. ListedWas' /\ WalkSaw'
  BY <1>1 DEF IInv, ListedWas, WalkSaw, Seen
<1>3. InHand'
  BY <1>1 DEF InHand, InHandAt, Accepted
<1> QED  BY <1>1, <1>2, <1>3

\* What does not add to the files that count keeps the count.
LEMMA UsageKept ==
  ASSUME IInv, TypeOK', walk.pc \notin {"idle", "open"},
         \A f \in Files : docs'[f].state \in {"none", "skipped"} \/ docs[f].state \notin {"none", "skipped"},
         walk'.usage = walk.usage, walk'.pc \in Accepted => walk.pc \in Accepted,
         UNCHANGED quota,
         walk.pc = "gate" => \A f \in Files : Current(f) =>
           docs'[f].state \in {"none", "skipped"} \/ (walk'.pc = "gate" /\ Current(f)')
  PROVE  UsageCounts'
<1>1. Charged' \subseteq Charged
  BY DEF Charged, Counted
<1>2. Charged \subseteq Files
  BY DEF Charged, Counted
<1>3. Cardinality(Charged') <= Cardinality(Charged) /\ Cardinality(Charged) \in Nat
      /\ Cardinality(Charged') \in Nat
  BY <1>1, <1>2, Fewer
<1> QED  BY <1>3 DEF IInv, TypeOK, Walk, UsageCounts

\* Nor does what adds to no index exceed the quota.
LEMMA QuotaStays ==
  ASSUME IInv, IndexedFiles' \subseteq IndexedFiles, UNCHANGED quota
  PROVE  QuotaKept'
<1>1. IndexedFiles \subseteq Files
  BY DEF IndexedFiles
<1>2. Cardinality(IndexedFiles') <= Cardinality(IndexedFiles) /\ Cardinality(IndexedFiles) \in Nat
      /\ Cardinality(IndexedFiles') \in Nat
  BY <1>1, Fewer
<1>3. quota \in Nat
  BY BoundsAssumption DEF IInv, TypeOK
<1> QED  BY <1>2, <1>3 DEF IInv, QuotaKept

----------------------------------------------------------------------------
(* What happens beside a walk.                                             *)

\* The index as it was, or empty.
LEMMA KeptOrPurged ==
  ASSUME IInv, TypeOK', docs' \in {docs, NoDocs}, UNCHANGED quota,
         walk'.pc = walk.pc, walk'.todo = walk.todo, walk'.listed = walk.listed,
         walk'.got = walk.got, walk'.usage = walk.usage
  PROVE  InHand' /\ SettledIsCurrent' /\ UsageCounts' /\ QuotaKept'
<1>1. \A f \in Files : docs'[f] = docs[f] \/ docs'[f] = NoDoc
  BY DEF NoDocs
<1>2. \A f \in Files : Current(f)' = Current(f)
  BY DEF Current
<1>3. InHand'
  BY <1>1, <1>2 DEF IInv, InHand, InHandAt, Accepted, There, NoDoc
<1>4. SettledIsCurrent'
  BY <1>1 DEF IInv, SettledIsCurrent, NoDoc
<1>5. QuotaKept'
  BY <1>1, QuotaStays DEF IndexedFiles, NoDoc
<1>6. UsageCounts'
  <2>1. CASE walk.pc \in {"idle", "open"}
    BY <2>1 DEF UsageCounts, Accepted
  <2>2. CASE walk.pc \notin {"idle", "open"}
    BY <1>1, <1>2, <2>2, UsageKept DEF NoDoc
  <2> QED  BY <2>1, <2>2
<1> QED  BY <1>3, <1>4, <1>5, <1>6

LEMMA NoDocsShape == NoDocs \in [Files -> Row] /\ \A f \in Files : NoDocs[f] = NoDoc
  BY NoVersion DEF NoDocs, NoDoc, Row

LEMMA EditStep ==
  ASSUME IInv, NEW f \in Files, Edit(f)
  PROVE  IInv'
<1>1. /\ remote' \in [Files -> [v : Versions, there : BOOLEAN]]
      /\ \A g \in Files : /\ remote'[g].v \in Nat /\ remote[g].v <= remote'[g].v
                          /\ remote[g].there => remote'[g].there
                          /\ remote'[g] = remote[g] \/ remote'[g].v > 0
  BY NoVersion DEF IInv, TypeOK, Edit, Versions
<1>2. TypeOK'
  BY <1>1 DEF IInv, TypeOK, There, grant, Edit
<1>3. OrphanWritesNothing' /\ UnmappedLeavesNothing'
  BY DEF IInv, OrphanWritesNothing, UnmappedLeavesNothing, Granted, grant, Edit
<1>4. ListedWas' /\ WalkSaw'
  <2>1. \A g \in Files : walk.listed[g] \in Nat /\ remote[g].v \in Nat
    BY NoVersion DEF IInv, TypeOK, Walk
  <2>2. walk.steady \subseteq Files
    BY DEF IInv, TypeOK, Walk
  <2> QED  BY <1>1, <2>1, <2>2 DEF IInv, ListedWas, WalkSaw, Seen, Edit
<1>5. InHand' /\ SettledIsCurrent' /\ UsageCounts' /\ QuotaKept'
  BY <1>2, KeptOrPurged DEF Edit
<1> QED  BY <1>2, <1>3, <1>4, <1>5 DEF IInv

LEMMA DeleteStep ==
  ASSUME IInv, NEW f \in Files, Delete(f)
  PROVE  IInv'
<1>1. /\ walk' \in Walk /\ walk'.pc = walk.pc /\ walk'.todo = walk.todo
      /\ walk'.listed = walk.listed /\ walk'.got = walk.got /\ walk'.usage = walk.usage
      /\ walk'.gen = walk.gen /\ walk'.turned = walk.turned /\ walk'.complete = walk.complete
      /\ walk'.steady = walk.steady \ {f}
  BY DEF IInv, TypeOK, Walk, Delete
<1>2. /\ remote' \in [Files -> [v : Versions, there : BOOLEAN]]
      /\ \A g \in Files : /\ remote'[g].v = remote[g].v
                          /\ g # f => remote'[g] = remote[g]
      /\ remote'[f].there = FALSE
  BY DEF IInv, TypeOK, Delete
<1>3. TypeOK'
  BY <1>1, <1>2 DEF IInv, TypeOK, There, grant, Delete
<1>4. OrphanWritesNothing' /\ UnmappedLeavesNothing'
  BY <1>1 DEF IInv, OrphanWritesNothing, UnmappedLeavesNothing, Granted, grant, Delete
<1>5. ListedWas' /\ WalkSaw'
  <2>1. ListedWas'
    BY BoundsAssumption DEF IInv, TypeOK, ListedWas, Delete
  <2>2. WalkSaw'
    BY BoundsAssumption DEF IInv, TypeOK, Walk, WalkSaw, Seen, Delete
  <2> QED  BY <2>1, <2>2
<1>6. InHand' /\ SettledIsCurrent' /\ UsageCounts' /\ QuotaKept'
  BY <1>1, <1>3, KeptOrPurged DEF Delete
<1> QED  BY <1>3, <1>4, <1>5, <1>6 DEF IInv

LEMMA ConnectStep ==
  ASSUME IInv, NEW on \in BOOLEAN, Connect(on)
  PROVE  IInv'
<1>1. TypeOK'
  BY NoDocsShape, NoVersion DEF IInv, TypeOK, Mapping, There, grant, Connect
<1>2. OrphanWritesNothing' /\ UnmappedLeavesNothing'
  BY DEF IInv, OrphanWritesNothing, UnmappedLeavesNothing, Granted, grant, TypeOK, Mapping, Connect
<1>3. ListedWas' /\ WalkSaw'
  BY DEF IInv, ListedWas, WalkSaw, Seen, grant, Connect
<1>4. InHand' /\ SettledIsCurrent' /\ UsageCounts' /\ QuotaKept'
  BY <1>1, KeptOrPurged DEF grant, Connect
<1> QED  BY <1>1, <1>2, <1>3, <1>4 DEF IInv

LEMMA MapStep ==
  ASSUME IInv, Map
  PROVE  IInv'
<1>1. TypeOK'
  BY NoDocsShape, NoVersion DEF IInv, TypeOK, Mapping, There, grant, Map
<1>2. OrphanWritesNothing' /\ UnmappedLeavesNothing'
  BY DEF IInv, OrphanWritesNothing, UnmappedLeavesNothing, Granted, grant, TypeOK, Mapping, Map
<1>3. ListedWas' /\ WalkSaw'
  BY DEF IInv, ListedWas, WalkSaw, Seen, grant, Map
<1>4. InHand' /\ SettledIsCurrent' /\ UsageCounts' /\ QuotaKept'
  BY <1>1, KeptOrPurged DEF grant, Map
<1> QED  BY <1>1, <1>2, <1>3, <1>4 DEF IInv

LEMMA EnableStep ==
  ASSUME IInv, Enable
  PROVE  IInv'
<1>1. TypeOK'
  BY NoDocsShape, NoVersion DEF IInv, TypeOK, Mapping, There, grant, Enable, Flag
<1>2. OrphanWritesNothing' /\ UnmappedLeavesNothing'
  BY DEF IInv, OrphanWritesNothing, UnmappedLeavesNothing, Granted, grant, TypeOK, Mapping, Enable, Flag
<1>3. ListedWas' /\ WalkSaw'
  BY DEF IInv, ListedWas, WalkSaw, Seen, grant, Enable, Flag
<1>4. InHand' /\ SettledIsCurrent' /\ UsageCounts' /\ QuotaKept'
  BY <1>1, KeptOrPurged DEF grant, Enable, Flag
<1> QED  BY <1>1, <1>2, <1>3, <1>4 DEF IInv

LEMMA DisableBeginStep ==
  ASSUME IInv, DisableBegin
  PROVE  IInv'
<1>1. TypeOK'
  BY NoDocsShape, NoVersion DEF IInv, TypeOK, Mapping, There, grant, DisableBegin, Begin
<1>2. OrphanWritesNothing' /\ UnmappedLeavesNothing'
  BY DEF IInv, OrphanWritesNothing, UnmappedLeavesNothing, Granted, grant, TypeOK, Mapping, DisableBegin, Begin
<1>3. ListedWas' /\ WalkSaw'
  BY DEF IInv, ListedWas, WalkSaw, Seen, grant, DisableBegin, Begin
<1>4. InHand' /\ SettledIsCurrent' /\ UsageCounts' /\ QuotaKept'
  BY <1>1, KeptOrPurged DEF grant, DisableBegin, Begin
<1> QED  BY <1>1, <1>2, <1>3, <1>4 DEF IInv

LEMMA DisableEndStep ==
  ASSUME IInv, DisableEnd
  PROVE  IInv'
<1>1. TypeOK'
  BY NoDocsShape, NoVersion DEF IInv, TypeOK, Mapping, There, grant, DisableEnd, End, Flag
<1>2. OrphanWritesNothing' /\ UnmappedLeavesNothing'
  BY DEF IInv, OrphanWritesNothing, UnmappedLeavesNothing, Granted, grant, TypeOK, Mapping, DisableEnd, End, Flag
<1>3. ListedWas' /\ WalkSaw'
  BY DEF IInv, ListedWas, WalkSaw, Seen, grant, DisableEnd, End, Flag
<1>4. InHand' /\ SettledIsCurrent' /\ UsageCounts' /\ QuotaKept'
  BY <1>1, KeptOrPurged DEF grant, DisableEnd, End, Flag
<1> QED  BY <1>1, <1>2, <1>3, <1>4 DEF IInv

LEMMA RevokeBeginStep ==
  ASSUME IInv, RevokeBegin
  PROVE  IInv'
<1>1. TypeOK'
  BY NoDocsShape, NoVersion DEF IInv, TypeOK, Mapping, There, grant, RevokeBegin, Begin, Flag
<1>2. OrphanWritesNothing' /\ UnmappedLeavesNothing'
  BY DEF IInv, OrphanWritesNothing, UnmappedLeavesNothing, Granted, grant, TypeOK, Mapping, RevokeBegin, Begin, Flag
<1>3. ListedWas' /\ WalkSaw'
  BY DEF IInv, ListedWas, WalkSaw, Seen, grant, RevokeBegin, Begin, Flag
<1>4. InHand' /\ SettledIsCurrent' /\ UsageCounts' /\ QuotaKept'
  BY <1>1, KeptOrPurged DEF grant, RevokeBegin, Begin, Flag
<1> QED  BY <1>1, <1>2, <1>3, <1>4 DEF IInv

LEMMA RevokeEndStep ==
  ASSUME IInv, RevokeEnd
  PROVE  IInv'
<1>1. TypeOK'
  BY NoDocsShape, NoVersion DEF IInv, TypeOK, Mapping, There, grant, RevokeEnd, End
<1>2. OrphanWritesNothing' /\ UnmappedLeavesNothing'
  BY DEF IInv, OrphanWritesNothing, UnmappedLeavesNothing, Granted, grant, TypeOK, Mapping, RevokeEnd, End
<1>3. ListedWas' /\ WalkSaw'
  BY DEF IInv, ListedWas, WalkSaw, Seen, grant, RevokeEnd, End
<1>4. InHand' /\ SettledIsCurrent' /\ UsageCounts' /\ QuotaKept'
  BY <1>1, KeptOrPurged DEF grant, RevokeEnd, End
<1> QED  BY <1>1, <1>2, <1>3, <1>4 DEF IInv

LEMMA UnmapBeginStep ==
  ASSUME IInv, UnmapBegin
  PROVE  IInv'
<1>1. TypeOK'
  BY NoDocsShape, NoVersion DEF IInv, TypeOK, Mapping, There, grant, UnmapBegin, Begin
<1>2. OrphanWritesNothing' /\ UnmappedLeavesNothing'
  BY DEF IInv, OrphanWritesNothing, UnmappedLeavesNothing, Granted, grant, TypeOK, Mapping, UnmapBegin, Begin
<1>3. ListedWas' /\ WalkSaw'
  BY DEF IInv, ListedWas, WalkSaw, Seen, grant, UnmapBegin, Begin
<1>4. InHand' /\ SettledIsCurrent' /\ UsageCounts' /\ QuotaKept'
  BY <1>1, KeptOrPurged DEF grant, UnmapBegin, Begin
<1> QED  BY <1>1, <1>2, <1>3, <1>4 DEF IInv

LEMMA UnmapEndStep ==
  ASSUME IInv, UnmapEnd
  PROVE  IInv'
<1>1. TypeOK'
  BY NoDocsShape, NoVersion DEF IInv, TypeOK, Mapping, There, grant, UnmapEnd, End
<1>2. OrphanWritesNothing' /\ UnmappedLeavesNothing'
  BY DEF IInv, OrphanWritesNothing, UnmappedLeavesNothing, Granted, grant, TypeOK, Mapping, UnmapEnd, End
<1>3. ListedWas' /\ WalkSaw'
  BY DEF IInv, ListedWas, WalkSaw, Seen, grant, UnmapEnd, End
<1>4. InHand' /\ SettledIsCurrent' /\ UsageCounts' /\ QuotaKept'
  BY <1>1, KeptOrPurged DEF grant, UnmapEnd, End
<1> QED  BY <1>1, <1>2, <1>3, <1>4 DEF IInv

LEMMA QuietStep ==
  ASSUME IInv, Quiet
  PROVE  IInv'
<1>1. TypeOK'
  BY NoDocsShape, NoVersion DEF IInv, TypeOK, Mapping, There, grant, Quiet
<1>2. OrphanWritesNothing' /\ UnmappedLeavesNothing'
  BY DEF IInv, OrphanWritesNothing, UnmappedLeavesNothing, Granted, grant, TypeOK, Mapping, Quiet
<1>3. ListedWas' /\ WalkSaw'
  BY DEF IInv, ListedWas, WalkSaw, Seen, grant, Quiet
<1>4. InHand' /\ SettledIsCurrent' /\ UsageCounts' /\ QuotaKept'
  BY <1>1, KeptOrPurged DEF grant, Quiet
<1> QED  BY <1>1, <1>2, <1>3, <1>4 DEF IInv

----------------------------------------------------------------------------
(* The walk and its listing.                                               *)

\* A walk that stops, whatever becomes of the status of the mapping.
LEMMA StopStep ==
  ASSUME IInv, Stop, mapping' \in Mapping, mapping'.there = mapping.there,
         UNCHANGED <<remote, pending, connected, docs, quota, quiet>>, deaths' \in Nat
  PROVE  IInv'
<1>1. walk' \in Walk /\ OrphanWritesNothing' /\ ListedWas' /\ WalkSaw' /\ InHand' /\ UsageCounts'
  BY StopKeeps
<1>2. TypeOK'
  BY <1>1 DEF IInv, TypeOK, There
<1>3. UnmappedLeavesNothing' /\ SettledIsCurrent'
  BY DEF IInv, UnmappedLeavesNothing, SettledIsCurrent
<1>4. QuotaKept'
  BY QuotaStays DEF IndexedFiles
<1> QED  BY <1>1, <1>2, <1>3, <1>4 DEF IInv

LEMMA FailStep ==
  ASSUME IInv, NEW category, Fail(category),
         UNCHANGED <<remote, pending, connected, docs, quota, quiet, deaths>>
  PROVE  IInv'
<1>1. mapping' \in Mapping /\ mapping'.there = mapping.there
  BY FailKeeps DEF IInv
<1>2. Stop /\ deaths' \in Nat
  BY DEF Fail, IInv, TypeOK
<1> QED  BY <1>1, <1>2, StopStep

\* A walk that starts or lists, and leaves the index as it is.
LEMMA ListingStep ==
  ASSUME IInv, walk' \in Walk, OrphanWritesNothing', ListedWas', WalkSaw', UsageCounts',
         walk'.pc \in {"open", "list", "walk"},
         UNCHANGED <<remote, grant, docs, quota, quiet, deaths>>
  PROVE  IInv'
<1>1. TypeOK'
  BY DEF IInv, TypeOK, There, grant
<1>2. UnmappedLeavesNothing' /\ SettledIsCurrent'
  BY DEF IInv, UnmappedLeavesNothing, SettledIsCurrent, grant
<1>3. InHand'
  BY DEF InHand, InHandAt, Accepted
<1>4. QuotaKept'
  BY QuotaStays DEF IndexedFiles
<1> QED  BY <1>1, <1>2, <1>3, <1>4 DEF IInv

LEMMA StartStep ==
  ASSUME IInv, Start
  PROVE  IInv'
<1>1. walk' \in Walk
  BY NoVersion DEF IInv, TypeOK, Mapping, Start, NoWalk, NoStamps, Walk, WalkPcs
<1>2. OrphanWritesNothing' /\ UsageCounts'
  BY DEF OrphanWritesNothing, Granted, UsageCounts, Accepted, Start, NoWalk, grant
<1>3. ListedWas' /\ WalkSaw'
  <2>1. \A f \in Files : remote[f].v \in Nat
    BY NoVersion DEF IInv, TypeOK
  <2> QED  BY <2>1 DEF IInv, ListedWas, WalkSaw, Start, NoWalk, NoStamps
<1>4. walk'.pc = "open"
  BY DEF Start, NoWalk
<1> QED  BY <1>1, <1>2, <1>3, <1>4, ListingStep DEF Start

LEMMA OpenStep ==
  ASSUME IInv, Open
  PROVE  IInv'
<1>1. CASE ~connected
  BY <1>1, FailStep DEF Open
<1>2. CASE connected
  <2>1. walk.pc = "open" /\ UNCHANGED <<remote, grant, docs, quota, quiet, deaths>>
    BY <1>2 DEF Open, grant
  <2>2. SettledStamps \in [Files -> Versions] /\ NoStamps \in [Files -> Versions]
    BY NoVersion DEF SettledStamps, NoStamps, IInv, TypeOK, Row
  <2>3. Counted(docs) \subseteq Files /\ Counted(NoDocs) \subseteq Files
    BY DEF Counted
  <2>4. Cardinality(Counted(docs)) \in Nat /\ Cardinality(Counted(NoDocs)) \in Nat
    BY <2>3, Fewer
  <2>5. ~Granted => docs = NoDocs
    BY <2>1 DEF IInv, OrphanWritesNothing
  <2>6. /\ walk' \in Walk /\ walk'.pc = "list" /\ walk'.todo = walk.todo
        /\ walk'.turned = walk.turned /\ walk'.listed = walk.listed /\ walk'.gen = walk.gen
        /\ walk'.steady = walk.steady /\ walk'.usage = Cardinality(Counted(docs))
    <3>1. PICK before \in [Files -> Versions] :
            walk' = [walk EXCEPT !.pc = "list", !.before = before,
                                 !.usage = Cardinality(Counted(docs))]
      <4>1. CASE Granted
        BY <1>2, <2>2, <4>1 DEF Open
      <4>2. CASE ~Granted
        BY <1>2, <2>2, <2>5, <4>2 DEF Open
      <4> QED  BY <4>1, <4>2
    <3> QED  BY <2>4, <3>1 DEF IInv, TypeOK, Walk, WalkPcs
  <2>7. OrphanWritesNothing'
    BY <2>1, <2>6 DEF IInv, OrphanWritesNothing, Granted, grant
  <2>8. ListedWas' /\ WalkSaw'
    BY <2>1, <2>6 DEF IInv, ListedWas, WalkSaw, Seen
  <2>9. UsageCounts'
    <3>1. Charged' \subseteq Counted(docs)
      BY <2>1 DEF Charged, Counted
    <3>2. Cardinality(Charged') <= Cardinality(Counted(docs))
      BY <2>3, <3>1, Fewer
    <3> QED  BY <2>6, <3>2 DEF UsageCounts, Accepted
  <2> QED  BY <2>1, <2>6, <2>7, <2>8, <2>9, ListingStep
<1> QED  BY <1>1, <1>2

LEMMA ProviderFailsStep ==
  ASSUME IInv, ProviderFails
  PROVE  IInv'
<1>1. PICK category \in {"token", "other"} : Fail(category)
  BY DEF ProviderFails
<1> QED  BY <1>1, FailStep DEF ProviderFails

LEMMA ListPageStep ==
  ASSUME IInv, NEW S \in SUBSET Files, ListPage(S)
  PROVE  IInv'
<1>1. walk.pc = "list" /\ UNCHANGED <<remote, grant, docs, quota, quiet, deaths>>
  BY DEF ListPage
<1>2. /\ walk' \in Walk /\ walk'.pc = "list" /\ walk'.todo = walk.todo /\ walk'.gen = walk.gen
      /\ walk'.turned = walk.turned \cup S /\ walk'.steady = walk.steady
      /\ walk'.usage = walk.usage
      /\ \A f \in Files : walk'.listed[f] = IF f \in S /\ remote[f].there THEN remote[f].v
                                            ELSE walk.listed[f]
  BY NoVersion DEF ListPage, IInv, TypeOK, Walk
<1>3. OrphanWritesNothing'
  BY <1>1, <1>2 DEF IInv, OrphanWritesNothing, Granted, grant
<1>4. ListedWas'
  <2>1. \A f \in Files : remote[f].v \in Nat
    BY NoVersion DEF IInv, TypeOK
  <2> QED  BY <1>1, <1>2, <2>1 DEF IInv, ListedWas
<1>5. Seen \subseteq Seen' /\ \A f \in S : remote[f].there => f \in Seen'
  BY <1>2 DEF Seen, IInv, ListedWas
<1>6. WalkSaw'
  BY <1>1, <1>2, <1>5 DEF IInv, WalkSaw
<1>7. UsageCounts'
  BY <1>1, <1>2 DEF IInv, UsageCounts, Charged, Counted, Current, Accepted
<1> QED  BY <1>1, <1>2, <1>3, <1>4, <1>6, <1>7, ListingStep

LEMMA ListedStep ==
  ASSUME IInv, Listed
  PROVE  IInv'
<1>1. walk.pc = "list" /\ UNCHANGED <<remote, grant, docs, quota, quiet, deaths>>
  BY DEF Listed
<1>2. /\ walk' \in Walk /\ walk'.pc = "walk" /\ walk'.todo \subseteq Seen /\ walk'.gen = walk.gen
      /\ walk'.steady = walk.steady /\ walk'.usage = walk.usage /\ walk'.listed = walk.listed
      /\ walk'.complete => walk.turned = Files
  BY NoVersion DEF Listed, IInv, TypeOK, Walk, WalkPcs, Seen, NoStamps
<1>3. OrphanWritesNothing'
  BY <1>1, <1>2 DEF IInv, OrphanWritesNothing, Granted, grant
<1>4. ListedWas'
  BY <1>1, <1>2 DEF IInv, ListedWas
<1>5. WalkSaw'
  <2>1. walk.steady \subseteq Files /\ Seen' = Seen
    BY <1>2 DEF IInv, TypeOK, Walk, Seen
  <2> QED  BY <1>1, <1>2, <2>1 DEF IInv, WalkSaw
<1>6. UsageCounts'
  BY <1>1, <1>2 DEF IInv, UsageCounts, Charged, Counted, Accepted
<1> QED  BY <1>1, <1>2, <1>3, <1>4, <1>5, <1>6, ListingStep

----------------------------------------------------------------------------
(* One file after the other.                                               *)

\* What a write by id cannot break, whatever it writes.
LEMMA WriteSafe ==
  ASSUME IInv, NEW f \in Files, NEW row \in Row, There(f) => row.state # "none", Write(f, row),
         walk.pc # "idle", walk' \in Walk, walk'.gen = walk.gen,
         UNCHANGED <<remote, grant, quota, quiet, deaths>>
  PROVE  TypeOK' /\ OrphanWritesNothing' /\ UnmappedLeavesNothing'
<1>1. /\ docs' \in [Files -> Row] /\ \A g \in Files : docs'[g].state = "none" => docs'[g] = NoDoc
      /\ ~Granted => docs' = docs
  BY WriteShape DEF IInv, Write
<1>2. TypeOK'
  BY <1>1 DEF IInv, TypeOK, There, grant
<1>3. OrphanWritesNothing'
  BY <1>1 DEF IInv, OrphanWritesNothing, Granted, grant
<1>4. UnmappedLeavesNothing'
  BY <1>1 DEF IInv, UnmappedLeavesNothing, Granted, grant
<1> QED  BY <1>2, <1>3, <1>4

\* A row that an orphaned walk would write is not there.
LEMMA Written ==
  ASSUME IInv, NEW f \in Files, NEW row \in Row, There(f) => row.state # "none", Write(f, row),
         walk.pc # "idle"
  PROVE  /\ \A g \in Files \ {f} : docs'[g] = docs[g]
         /\ \/ There(f) /\ Granted /\ docs'[f] = row
            \/ ~There(f) /\ docs[f].state = "none" /\ docs'[f] = docs[f]
<1>1. /\ \A g \in Files \ {f} : docs'[g] = docs[g]
      /\ \/ docs'[f] = row /\ There(f) /\ Granted
         \/ docs'[f] = docs[f] /\ ~(There(f) /\ Granted)
  BY WriteShape DEF IInv
<1>2. There(f) => Granted
  BY NoDocsShape DEF IInv, OrphanWritesNothing, There, NoDoc
<1> QED  BY <1>1, <1>2 DEF There

\* A write that makes no file count that did not, and none indexed that was not
\* or may not be.
LEMMA FileSafe ==
  ASSUME IInv, NEW f \in Files, Current(f), NEW row \in Row, Write(f, row),
         There(f) => row.state # "none",
         There(f) => row.state = "skipped" \/ (docs[f].state # "skipped" /\ walk.pc # "gate"),
         There(f) /\ row.state = "indexed" =>
           row.text >= row.stamp /\ row.text > 0 /\ <<f, row.text>> \notin Unindexable,
         QuotaKept' \/ row.state # "indexed" \/ docs[f].state = "indexed",
         walk.pc \notin {"idle", "open", "list"},
         walk' \in Walk, ListedWas', WalkSaw', InHand',
         walk'.gen = walk.gen, walk'.usage = walk.usage,
         walk'.pc \in Accepted => walk.pc \in Accepted,
         UNCHANGED <<remote, grant, quota, quiet, deaths>>
  PROVE  IInv'
<1>1. TypeOK' /\ OrphanWritesNothing' /\ UnmappedLeavesNothing'
  BY WriteSafe
<1>2. /\ \A g \in Files \ {f} : docs'[g] = docs[g]
      /\ \/ There(f) /\ docs'[f] = row
         \/ docs[f].state = "none" /\ docs'[f] = docs[f]
  BY Written
<1>3. SettledIsCurrent'
  BY <1>2 DEF IInv, SettledIsCurrent
<1>4. UsageCounts'
  <2>1. \A g \in Files : Current(g) => g = f
    BY OneInHand DEF IInv
  <2>2. \A g \in Files :
          docs'[g].state \in {"none", "skipped"} \/ docs[g].state \notin {"none", "skipped"}
    BY <1>2 DEF There
  <2>3. walk.pc = "gate" => docs'[f].state \in {"none", "skipped"}
    BY <1>2
  <2> QED  BY <1>1, <2>1, <2>2, <2>3, UsageKept
<1>5. QuotaKept'
  BY <1>2, QuotaStays DEF IndexedFiles
<1> QED  BY <1>1, <1>3, <1>4, <1>5 DEF IInv

\* The file in hand stays in hand.
LEMMA StaysInHand ==
  ASSUME IInv, NEW f \in Files, Current(f), walk'.todo = walk.todo, InHandAt(f)'
  PROVE  InHand'
<1>1. \A g \in Files : Current(g)' => g = f
  BY OneInHand DEF IInv, Current
<1> QED  BY <1>1 DEF InHand

LEMMA MarkSkippedStep ==
  ASSUME IInv, NEW f \in Files, MarkSkipped(f)
  PROVE  IInv'
<1> DEFINE row == [docs[f] EXCEPT !.text = 0]
<1>1. /\ walk.pc = "skip" /\ Current(f) /\ Write(f, row) /\ Go("skipped")
      /\ UNCHANGED <<remote, grant, quota, quiet, deaths>>
  BY DEF MarkSkipped, Ingesting
<1>2. docs[f].state \in {"none", "skipped"}
  BY <1>1 DEF IInv, InHand, InHandAt
<1>3. row \in Row /\ row.state = docs[f].state
  BY NoVersion DEF IInv, TypeOK, Row
<1>4. /\ walk' \in Walk /\ ListedWas' /\ WalkSaw' /\ walk'.pc = "skipped"
      /\ walk'.todo = walk.todo /\ walk'.gen = walk.gen /\ walk'.usage = walk.usage
  BY <1>1, GoKeeps DEF WalkPcs
<1> HIDE DEF row
<1>5. docs'[f].state \in {"none", "skipped"}
  BY <1>1, <1>2, <1>3, Written DEF There
<1>6. InHand'
  BY <1>1, <1>4, <1>5, StaysInHand DEF InHandAt, Accepted
<1> QED  BY <1>1, <1>2, <1>3, <1>4, <1>6, FileSafe DEF There, Accepted

LEMMA StampStep ==
  ASSUME IInv, NEW f \in Files, Stamp(f)
  PROVE  IInv'
<1> DEFINE row == [docs[f] EXCEPT !.stamp = walk.listed[f]]
<1>1. /\ Write(f, row) /\ Current(f) /\ UNCHANGED <<remote, grant, quota, quiet, deaths>>
      /\ \/ walk.pc = "stamp" /\ Go("fetch")
         \/ walk.pc = "skipped" /\ Done(f)
  BY DEF Stamp, Ingesting
<1>2. row \in Row /\ row.state = docs[f].state /\ row.stamp = walk.listed[f]
  BY NoVersion DEF IInv, TypeOK, Row, Walk
<1> HIDE DEF row
<1>3. CASE walk.pc = "stamp"
  <2>1. docs[f].state \in {"none", "discovered"}
    BY <1>1, <1>3 DEF IInv, InHand, InHandAt, Accepted
  <2>2. /\ walk' \in Walk /\ ListedWas' /\ WalkSaw' /\ walk'.pc = "fetch"
        /\ walk'.todo = walk.todo /\ walk'.listed = walk.listed
        /\ walk'.gen = walk.gen /\ walk'.usage = walk.usage
    BY <1>1, <1>3, GoKeeps DEF WalkPcs
  <2>3. /\ docs'[f].state \in {"none", "discovered"}
        /\ docs'[f].state # "none" => docs'[f].stamp = walk.listed[f]
    BY <1>1, <1>2, <1>3, <2>1, Written DEF There
  <2>4. InHand'
    BY <1>1, <2>2, <2>3, StaysInHand DEF InHandAt, Accepted, There
  <2> QED  BY <1>1, <1>2, <1>3, <2>1, <2>2, <2>4, FileSafe DEF There, Accepted
<1>4. CASE walk.pc = "skipped"
  <2>1. docs[f].state \in {"none", "skipped"}
    BY <1>1, <1>4 DEF IInv, InHand, InHandAt
  <2>2. /\ walk' \in Walk /\ ListedWas' /\ WalkSaw' /\ InHand' /\ walk'.pc = "walk"
        /\ walk'.gen = walk.gen /\ walk'.usage = walk.usage
    BY <1>1, <1>4, DoneKeeps
  <2> QED  BY <1>1, <1>2, <1>4, <2>1, <2>2, FileSafe DEF There, Accepted
<1> QED  BY <1>1, <1>3, <1>4

LEMMA SkipStep ==
  ASSUME IInv, NEW f \in Files, Skip(f)
  PROVE  IInv'
<1> DEFINE row == [docs[f] EXCEPT !.state = "skipped"]
<1>1. /\ walk.pc = "reject" /\ Current(f) /\ Write(f, row) /\ Go("rejected")
      /\ UNCHANGED <<remote, grant, quota, quiet, deaths>>
  BY DEF Skip, Ingesting
<1>2. row \in Row /\ row.state = "skipped"
  BY DEF IInv, TypeOK, Row
<1>3. /\ walk' \in Walk /\ ListedWas' /\ WalkSaw' /\ walk'.pc = "rejected"
      /\ walk'.todo = walk.todo /\ walk'.gen = walk.gen /\ walk'.usage = walk.usage
  BY <1>1, GoKeeps DEF WalkPcs
<1> HIDE DEF row
<1>4. docs'[f].state \in {"none", "skipped"}
  BY <1>1, <1>2, Written DEF There
<1>5. InHand'
  BY <1>1, <1>3, <1>4, StaysInHand DEF InHandAt, Accepted
<1> QED  BY <1>1, <1>2, <1>3, <1>5, FileSafe DEF Accepted

LEMMA SkipTextStep ==
  ASSUME IInv, NEW f \in Files, SkipText(f)
  PROVE  IInv'
<1> DEFINE row == [docs[f] EXCEPT !.text = 0]
<1>1. /\ walk.pc = "rejected" /\ Current(f) /\ Write(f, row) /\ Done(f)
      /\ UNCHANGED <<remote, grant, quota, quiet, deaths>>
  BY DEF SkipText, Ingesting
<1>2. docs[f].state \in {"none", "skipped"}
  BY <1>1 DEF IInv, InHand, InHandAt
<1>3. row \in Row /\ row.state = docs[f].state
  BY NoVersion DEF IInv, TypeOK, Row
<1>4. /\ walk' \in Walk /\ ListedWas' /\ WalkSaw' /\ InHand' /\ walk'.pc = "walk"
      /\ walk'.gen = walk.gen /\ walk'.usage = walk.usage
  BY <1>1, DoneKeeps
<1> HIDE DEF row
<1> QED  BY <1>1, <1>2, <1>3, <1>4, FileSafe DEF There, Accepted

LEMMA ClearStep ==
  ASSUME IInv, NEW f \in Files, Clear(f)
  PROVE  IInv'
<1> DEFINE row == [docs[f] EXCEPT !.text = 0]
<1>1. /\ walk.pc = "clear" /\ Current(f) /\ Write(f, row) /\ Go("insert")
      /\ UNCHANGED <<remote, grant, quota, quiet, deaths>>
  BY DEF Clear, Ingesting
<1>2. row \in Row /\ row.state = docs[f].state /\ row.stamp = docs[f].stamp
  BY NoVersion DEF IInv, TypeOK, Row
<1>3. InHandAt(f) /\ docs[f].state \in {"none", "discovered"}
  BY <1>1 DEF IInv, InHand, InHandAt, Accepted
<1>4. /\ walk' \in Walk /\ ListedWas' /\ WalkSaw' /\ walk'.pc = "insert"
      /\ walk'.todo = walk.todo /\ walk'.gen = walk.gen /\ walk'.usage = walk.usage
      /\ walk'.listed = walk.listed /\ walk'.got = walk.got
  BY <1>1, GoKeeps DEF WalkPcs
<1> HIDE DEF row
<1>5. /\ docs'[f].state \in {"none", "discovered"}
      /\ docs'[f].state # "none" => docs'[f].stamp = walk.listed[f]
  BY <1>1, <1>2, <1>3, Written DEF There, InHandAt
<1>6. InHand'
  BY <1>1, <1>3, <1>4, <1>5, StaysInHand DEF InHandAt, Accepted, There
<1> QED  BY <1>1, <1>2, <1>3, <1>4, <1>6, FileSafe DEF There, Accepted

LEMMA SizeStep ==
  ASSUME IInv, NEW f \in Files, Size(f)
  PROVE  IInv'
<1> DEFINE row == [docs[f] EXCEPT !.size = IF f \in Exported THEN "fetched" ELSE "listed"]
<1>1. /\ walk.pc = "size" /\ Current(f) /\ Write(f, row) /\ Done(f)
      /\ UNCHANGED <<remote, grant, quota, quiet, deaths>>
  BY DEF Size, Ingesting
<1>2. /\ row \in Row /\ row.state = docs[f].state /\ row.stamp = docs[f].stamp
      /\ row.text = docs[f].text
  BY DEF IInv, TypeOK, Row
<1>3. /\ walk' \in Walk /\ ListedWas' /\ WalkSaw' /\ InHand' /\ walk'.pc = "walk"
      /\ walk'.gen = walk.gen /\ walk'.usage = walk.usage
  BY <1>1, DoneKeeps
<1> HIDE DEF row
<1> QED  BY <1>1, <1>2, <1>3, FileSafe DEF There, Accepted, IInv, SettledIsCurrent

\* What a fetch leaves the walk with.
LEMMA FetchStep ==
  ASSUME IInv, NEW f \in Files, Fetch(f)
  PROVE  IInv'
<1>1. /\ walk.pc = "fetch" /\ Current(f) /\ remote[f].there
      /\ UNCHANGED <<remote, grant, docs, quota, quiet, deaths>>
  BY DEF Fetch, Ingesting
<1>2. PICK pc \in {"reject", "clear"} :
        /\ walk' = [walk EXCEPT !.got = remote[f].v, !.pc = pc]
        /\ pc = "clear" => <<f, remote[f].v>> \notin Unindexable
  BY DEF Fetch
<1>3. /\ walk' \in Walk /\ walk'.pc = pc /\ walk'.todo = walk.todo /\ walk'.got = remote[f].v
      /\ walk'.listed = walk.listed /\ walk'.gen = walk.gen /\ walk'.usage = walk.usage
      /\ walk'.steady = walk.steady /\ walk'.complete = walk.complete
  BY <1>2 DEF IInv, TypeOK, Walk, WalkPcs
<1>4. ListedWas' /\ WalkSaw'
  BY <1>1, <1>3 DEF IInv, ListedWas, WalkSaw, Seen
<1>5. InHandAt(f) /\ remote[f].v > 0 /\ walk.listed[f] <= remote[f].v
  BY <1>1 DEF IInv, InHand, ListedWas
<1>6. /\ remote[f].v \in Nat /\ walk.listed[f] \in Nat
  BY NoVersion DEF IInv, TypeOK, Walk
<1>7. InHand'
  BY <1>1, <1>2, <1>3, <1>5, <1>6, StaysInHand DEF InHandAt, Accepted, There
<1>8. TypeOK'
  BY <1>1, <1>3 DEF IInv, TypeOK, There, grant
<1>9. OrphanWritesNothing' /\ UnmappedLeavesNothing' /\ SettledIsCurrent'
  BY <1>1, <1>3 DEF IInv, OrphanWritesNothing, UnmappedLeavesNothing, SettledIsCurrent, Granted, grant
<1>10. UsageCounts'
  BY <1>1, <1>3 DEF IInv, UsageCounts, Charged, Counted, Accepted
<1>11. QuotaKept'
  BY <1>1, QuotaStays DEF IndexedFiles
<1> QED  BY <1>4, <1>7, <1>8, <1>9, <1>10, <1>11 DEF IInv

LEMMA FetchFailsStep ==
  ASSUME IInv, NEW f \in Files, FetchFails(f)
  PROVE  IInv'
<1>1. /\ walk.pc = "fetch" /\ Current(f) /\ Go("reject")
      /\ UNCHANGED <<remote, grant, docs, quota, quiet, deaths>>
  BY DEF FetchFails, Ingesting
<1>2. /\ walk' \in Walk /\ ListedWas' /\ WalkSaw' /\ walk'.pc = "reject"
      /\ walk'.todo = walk.todo /\ walk'.gen = walk.gen /\ walk'.usage = walk.usage
  BY <1>1, GoKeeps DEF WalkPcs
<1>3. InHand'
  BY <1>1, <1>2, StaysInHand DEF IInv, InHand, InHandAt, Accepted
<1>4. TypeOK'
  BY <1>1, <1>2 DEF IInv, TypeOK, There, grant
<1>5. OrphanWritesNothing' /\ UnmappedLeavesNothing' /\ SettledIsCurrent'
  BY <1>1, <1>2 DEF IInv, OrphanWritesNothing, UnmappedLeavesNothing, SettledIsCurrent, Granted, grant
<1>6. UsageCounts'
  BY <1>1, <1>2 DEF IInv, UsageCounts, Charged, Counted, Accepted
<1>7. QuotaKept'
  BY <1>1, QuotaStays DEF IndexedFiles
<1> QED  BY <1>2, <1>3, <1>4, <1>5, <1>6, <1>7 DEF IInv

LEMMA InsertStep ==
  ASSUME IInv, NEW f \in Files, Insert(f)
  PROVE  IInv'
<1> DEFINE row == [docs[f] EXCEPT !.text = walk.got]
<1>1. walk.pc = "insert" /\ Current(f) /\ UNCHANGED <<remote, pending, connected, quota, quiet, deaths>>
  BY DEF Insert, Ingesting
<1>2. CASE ~(There(f) /\ Granted)
  BY <1>2, FailStep DEF Insert
<1>3. CASE There(f) /\ Granted
  <2>1. /\ Write(f, row) /\ Go("indexed") /\ UNCHANGED grant
        /\ docs' = [docs EXCEPT ![f] = row]
    BY <1>1, <1>3 DEF Insert, Write, grant
  <2>2. row \in Row /\ row.state = docs[f].state /\ row.stamp = docs[f].stamp /\ row.text = walk.got
    BY DEF IInv, TypeOK, Row, Walk
  <2>3. InHandAt(f) /\ docs[f].state = "discovered"
    BY <1>1, <1>3 DEF IInv, InHand, InHandAt, Accepted, There
  <2>4. /\ walk' \in Walk /\ ListedWas' /\ WalkSaw' /\ walk'.pc = "indexed"
        /\ walk'.todo = walk.todo /\ walk'.gen = walk.gen /\ walk'.usage = walk.usage
        /\ walk'.listed = walk.listed /\ walk'.got = walk.got
    BY <1>1, <2>1, GoKeeps DEF WalkPcs
  <2> HIDE DEF row
  <2>5. docs'[f] = row
    BY <2>1 DEF IInv, TypeOK
  <2>6. InHand'
    BY <1>1, <1>3, <2>2, <2>3, <2>4, <2>5, StaysInHand DEF InHandAt, Accepted, There
  <2> QED  BY <1>1, <2>1, <2>2, <2>3, <2>4, <2>6, FileSafe DEF There, Accepted
<1> QED  BY <1>2, <1>3

LEMMA IndexedStep ==
  ASSUME IInv, NEW f \in Files, Indexed(f)
  PROVE  IInv'
<1> DEFINE row == [docs[f] EXCEPT !.state = "indexed"]
<1>1. /\ walk.pc = "indexed" /\ Current(f) /\ Write(f, row) /\ Go("size")
      /\ UNCHANGED <<remote, grant, quota, quiet, deaths>>
  BY DEF Indexed, Ingesting
<1>2. /\ row \in Row /\ row.state = "indexed" /\ row.stamp = docs[f].stamp
      /\ row.text = docs[f].text
  BY DEF IInv, TypeOK, Row
<1>3. InHandAt(f) /\ docs[f].state \in {"none", "discovered"}
  BY <1>1 DEF IInv, InHand, InHandAt, Accepted
<1>4. /\ walk' \in Walk /\ ListedWas' /\ WalkSaw' /\ walk'.pc = "size"
      /\ walk'.todo = walk.todo /\ walk'.gen = walk.gen /\ walk'.usage = walk.usage
  BY <1>1, GoKeeps DEF WalkPcs
<1> HIDE DEF row
<1>5. InHand'
  BY <1>1, <1>4, StaysInHand DEF InHandAt, Accepted
<1>6. QuotaKept'
  <2>1. IndexedFiles' \subseteq Charged
    BY <1>1, <1>2, <1>3, Written DEF IndexedFiles, Charged, Counted, There
  <2>2. Charged \subseteq Files
    BY DEF Charged, Counted
  <2>3. Cardinality(Charged) <= walk.usage /\ walk.usage <= quota
    BY <1>1 DEF IInv, UsageCounts, Accepted
  <2>4. /\ Cardinality(IndexedFiles') \in Nat /\ Cardinality(Charged) \in Nat
        /\ Cardinality(IndexedFiles') <= Cardinality(Charged)
    BY <2>1, <2>2, Fewer
  <2>5. walk.usage \in Nat /\ quota \in Nat
    BY BoundsAssumption DEF IInv, TypeOK, Walk
  <2> QED  BY <1>1, <2>3, <2>4, <2>5 DEF QuotaKept
<1>7. There(f) => row.text >= row.stamp /\ row.text > 0 /\ <<f, row.text>> \notin Unindexable
  BY <1>1, <1>2, <1>3 DEF InHandAt
<1> QED  BY <1>1, <1>2, <1>3, <1>4, <1>5, <1>6, <1>7, FileSafe DEF There, Accepted

LEMMA GateStep ==
  ASSUME IInv, NEW f \in Files, Gate(f)
  PROVE  IInv'
<1>1. /\ walk.pc = "gate" /\ Current(f) /\ UNCHANGED <<remote, grant, quota, quiet, deaths>>
  BY DEF Gate, Ingesting
<1>2. CASE walk.usage >= quota \/ <<f, walk.listed[f]>> \in Refused
  <2> DEFINE row == [docs[f] EXCEPT !.state = "skipped"]
  <2>1. Write(f, row) /\ Go("skip")
    BY <1>2 DEF Gate
  <2>2. row \in Row /\ row.state = "skipped"
    BY DEF IInv, TypeOK, Row
  <2>3. /\ walk' \in Walk /\ ListedWas' /\ WalkSaw' /\ walk'.pc = "skip"
        /\ walk'.todo = walk.todo /\ walk'.gen = walk.gen /\ walk'.usage = walk.usage
    BY <1>1, <2>1, GoKeeps DEF WalkPcs
  <2> HIDE DEF row
  <2>4. docs'[f].state \in {"none", "skipped"}
    BY <1>1, <2>1, <2>2, Written DEF There
  <2>5. InHand'
    BY <1>1, <2>3, <2>4, StaysInHand DEF InHandAt, Accepted
  <2> QED  BY <1>1, <2>1, <2>2, <2>3, <2>5, FileSafe DEF Accepted
<1>3. CASE ~(walk.usage >= quota \/ <<f, walk.listed[f]>> \in Refused)
  <2> DEFINE row == [docs[f] EXCEPT !.state = "discovered"]
  <2>1. Write(f, row) /\ walk' = [walk EXCEPT !.pc = "stamp", !.usage = @ + 1]
    BY <1>3 DEF Gate
  <2>2. row \in Row /\ row.state = "discovered"
    BY DEF IInv, TypeOK, Row
  <2>3. /\ walk' \in Walk /\ walk'.pc = "stamp" /\ walk'.todo = walk.todo
        /\ walk'.listed = walk.listed /\ walk'.gen = walk.gen /\ walk'.usage = walk.usage + 1
        /\ walk'.steady = walk.steady /\ walk'.complete = walk.complete
    <3>1. walk \in Walk /\ walk.usage + 1 \in Nat
      BY DEF IInv, TypeOK, Walk
    <3> QED  BY <2>1, <3>1 DEF Walk, WalkPcs
  <2> HIDE DEF row
  <2>4. /\ \A g \in Files \ {f} : docs'[g] = docs[g]
        /\ docs'[f].state \in {"none", "discovered"}
    BY <1>1, <2>1, <2>2, Written DEF There
  <2>5. TypeOK' /\ OrphanWritesNothing' /\ UnmappedLeavesNothing'
    BY <1>1, <2>1, <2>2, <2>3, WriteSafe
  <2>6. ListedWas' /\ WalkSaw'
    BY <1>1, <2>3 DEF IInv, ListedWas, WalkSaw, Seen
  <2>7. InHand'
    BY <1>1, <2>3, <2>4, StaysInHand DEF InHandAt, Accepted
  <2>8. SettledIsCurrent'
    BY <2>4 DEF IInv, SettledIsCurrent
  <2>9. QuotaKept'
    BY <1>1, <2>4, QuotaStays DEF IndexedFiles
  <2>10. UsageCounts'
    <3>1. Charged \subseteq Files /\ Charged' \subseteq Files
      BY DEF Charged, Counted
    <3>2. Charged' \subseteq Charged \cup {f}
      <4>1. \A g \in Files : Current(g) => g = f
        BY <1>1, OneInHand DEF IInv
      <4> QED  BY <2>4, <4>1 DEF Charged, Counted
    <3>3. IsFiniteSet(Charged) /\ Cardinality(Charged) \in Nat
      BY <3>1, Fewer
    <3>4. /\ IsFiniteSet(Charged \cup {f})
          /\ Cardinality(Charged \cup {f}) <= Cardinality(Charged) + 1
          /\ Cardinality(Charged \cup {f}) \in Nat
      <4>1. /\ IsFiniteSet(Charged \cup {f})
            /\ \/ Cardinality(Charged \cup {f}) = Cardinality(Charged)
               \/ Cardinality(Charged \cup {f}) = Cardinality(Charged) + 1
        BY <3>3, FS_AddElement, Zenon
      <4> QED  BY <3>3, <4>1
    <3>5. Charged \cup {f} \in SUBSET Files
      BY <3>1
    <3>6. Cardinality(Charged') \in Nat /\ Cardinality(Charged') <= Cardinality(Charged \cup {f})
      BY <3>2, <3>5, Fewer
    <3>7. Cardinality(Charged) <= walk.usage /\ walk.usage \in Nat /\ quota \in Nat
      BY <1>1, BoundsAssumption DEF IInv, UsageCounts, TypeOK, Walk
    <3> QED  BY <1>1, <1>3, <2>3, <3>3, <3>4, <3>6, <3>7 DEF UsageCounts
  <2> QED  BY <2>5, <2>6, <2>7, <2>8, <2>9, <2>10 DEF IInv
<1> QED  BY <1>2, <1>3

LEMMA UpsertStep ==
  ASSUME IInv, NEW f \in Files, Upsert(f)
  PROVE  IInv'
<1>1. /\ walk.pc = "walk" /\ Current(f) /\ UNCHANGED <<remote, pending, connected, quota, quiet, deaths>>
  BY DEF Upsert, Ingesting
<1>2. CASE ~Granted
  BY <1>2, FailStep DEF Upsert
<1>3. CASE Granted
  <2>1. PICK row \in Row :
          /\ docs' = [docs EXCEPT ![f] = row]
          /\ row.state = IF There(f) THEN docs[f].state ELSE "discovered"
          /\ row.stamp = docs[f].stamp /\ row.text = docs[f].text
    <3>1. docs' = [docs EXCEPT ![f] = docs'[f]] /\ docs'[f] \in Row
      BY <1>3 DEF Upsert, IInv, TypeOK, Row
    <3>2. /\ docs'[f].state = IF There(f) THEN docs[f].state ELSE "discovered"
          /\ docs'[f].stamp = docs[f].stamp /\ docs'[f].text = docs[f].text
      BY <1>3 DEF Upsert, IInv, TypeOK, Row, There
    <3> QED  BY <3>1, <3>2
  <2>2. Go("gate") /\ UNCHANGED grant
    BY <1>1, <1>3 DEF Upsert, grant
  <2>3. /\ walk' \in Walk /\ ListedWas' /\ WalkSaw' /\ walk'.pc = "gate"
        /\ walk'.todo = walk.todo /\ walk'.gen = walk.gen /\ walk'.usage = walk.usage
    BY <1>1, <2>2, GoKeeps DEF WalkPcs
  <2>4. /\ docs' \in [Files -> Row] /\ docs'[f] = row /\ row.state # "none"
        /\ \A g \in Files \ {f} : docs'[g] = docs[g]
    BY <2>1 DEF IInv, TypeOK, There
  <2>5. TypeOK'
    BY <1>1, <2>2, <2>3, <2>4 DEF IInv, TypeOK, There, grant
  <2>6. OrphanWritesNothing' /\ UnmappedLeavesNothing'
    BY <1>3, <2>2, <2>3 DEF OrphanWritesNothing, UnmappedLeavesNothing, Granted, grant
  <2>7. InHand'
    BY <1>1, <2>3, StaysInHand DEF InHandAt, Accepted
  <2>8. SettledIsCurrent'
    BY <2>1, <2>4 DEF IInv, SettledIsCurrent
  <2>9. QuotaKept'
    BY <1>1, <2>1, <2>4, QuotaStays DEF IndexedFiles
  <2>10. UsageCounts'
    <3>1. Charged \subseteq Files
      BY DEF Charged, Counted
    <3>2. Current(f)'
      BY <1>1, <2>3 DEF Current
    <3>3. Charged' \subseteq Charged
      BY <1>1, <2>3, <2>4, <3>2 DEF Charged, Counted
    <3>4. /\ Cardinality(Charged') \in Nat /\ Cardinality(Charged) \in Nat
          /\ Cardinality(Charged') <= Cardinality(Charged)
      BY <3>1, <3>3, Fewer
    <3>5. Cardinality(Charged) <= walk.usage /\ walk.usage \in Nat
      BY <1>1 DEF IInv, UsageCounts, TypeOK, Walk
    <3> QED  BY <2>3, <3>4, <3>5 DEF UsageCounts, Accepted
  <2> QED  BY <2>3, <2>5, <2>6, <2>7, <2>8, <2>9, <2>10 DEF IInv
<1> QED  BY <1>2, <1>3

LEMMA ScanBlockedStep ==
  ASSUME IInv, NEW f \in Files, ScanBlocked(f)
  PROVE  IInv'
<1> DEFINE row == [docs[f] EXCEPT !.state = "skipped", !.text = 0]
<1>1. /\ walk.pc = "gate" /\ Write(f, row) /\ Fail("other")
      /\ UNCHANGED <<remote, pending, connected, quota, quiet, deaths>>
  BY DEF ScanBlocked, Ingesting
<1>2. row \in Row /\ row.state = "skipped"
  BY NoVersion DEF IInv, TypeOK, Row
<1> HIDE DEF row
<1>3. /\ walk' \in Walk /\ OrphanWritesNothing' /\ ListedWas' /\ WalkSaw' /\ InHand' /\ UsageCounts'
  BY <1>1, StopKeeps DEF Fail
<1>4. mapping' \in Mapping /\ mapping'.there = mapping.there
  BY <1>1, FailKeeps DEF IInv
<1>5. /\ docs' \in [Files -> Row] /\ \A g \in Files : docs'[g].state = "none" => docs'[g] = NoDoc
      /\ ~Granted => docs' = docs
      /\ \A g \in Files : docs'[g] = docs[g] \/ docs'[g].state = "skipped"
  BY <1>1, <1>2, WriteShape DEF IInv, Write
<1>6. TypeOK'
  BY <1>1, <1>3, <1>4, <1>5 DEF IInv, TypeOK, There
<1>7. UnmappedLeavesNothing' /\ SettledIsCurrent'
  BY <1>4, <1>5 DEF IInv, UnmappedLeavesNothing, SettledIsCurrent, Granted
<1>8. QuotaKept'
  BY <1>1, <1>5, QuotaStays DEF IndexedFiles
<1> QED  BY <1>3, <1>6, <1>7, <1>8 DEF IInv

LEMMA RemoveStep ==
  ASSUME IInv, Remove
  PROVE  IInv'
<1>1. Stop /\ UNCHANGED <<remote, grant, quota, quiet, deaths>>
  BY DEF Remove
<1>2. walk' \in Walk /\ OrphanWritesNothing' /\ ListedWas' /\ WalkSaw' /\ InHand' /\ UsageCounts'
  BY <1>1, StopKeeps
<1>3. \A g \in Files : docs'[g] = docs[g] \/ docs'[g] = NoDoc
  BY DEF Remove
<1>4. docs' \in [Files -> Row] /\ \A g \in Files : docs'[g].state = "none" => docs'[g] = NoDoc
  <2>1. DOMAIN docs' = Files /\ docs' = [g \in Files |-> docs'[g]]
    BY DEF Remove
  <2>2. NoDoc \in Row
    BY NoDocsShape, NoVersion DEF NoDoc, Row
  <2> QED  BY <1>3, <2>1, <2>2 DEF IInv, TypeOK, There
<1>5. TypeOK'
  BY <1>1, <1>2, <1>4 DEF IInv, TypeOK, There, grant
<1>6. UnmappedLeavesNothing'
  <2>1. docs = NoDocs => docs' = NoDocs
    BY <1>4, <1>3 DEF NoDocs, Remove
  <2> QED  BY <1>1, <2>1 DEF IInv, UnmappedLeavesNothing, grant
<1>7. SettledIsCurrent'
  BY <1>3 DEF IInv, SettledIsCurrent, NoDoc
<1>8. QuotaKept'
  BY <1>1, <1>3, QuotaStays DEF IndexedFiles, NoDoc
<1> QED  BY <1>2, <1>5, <1>6, <1>7, <1>8 DEF IInv

LEMMA DieStep ==
  ASSUME IInv, Die
  PROVE  IInv'
<1>1. deaths' \in Nat /\ mapping' \in Mapping
  BY DEF Die, IInv, TypeOK, grant
<1> QED  BY <1>1, StopStep DEF Die, grant

----------------------------------------------------------------------------
(* The theorems.                                                           *)

LEMMA InitIInv == Init => IInv
<1> SUFFICES ASSUME Init PROVE IInv
  OBVIOUS
<1>1. TypeOK
  BY NoVersion, NoDocsShape DEF Init, TypeOK, Mapping, There, NoWalk, NoStamps, Walk, WalkPcs
<1>2. OrphanWritesNothing /\ UnmappedLeavesNothing /\ ListedWas /\ WalkSaw /\ InHand /\ SettledIsCurrent
  BY NoDocsShape, NoVersion DEF Init, OrphanWritesNothing, UnmappedLeavesNothing, ListedWas, WalkSaw,
     InHand, Current, SettledIsCurrent, NoWalk, NoStamps, NoDoc
<1>3. UsageCounts
  BY DEF Init, UsageCounts, Accepted, NoWalk
<1>4. QuotaKept
  <2>1. IndexedFiles = {} /\ Cardinality({}) = 0
    BY NoDocsShape, FS_EmptySet DEF Init, IndexedFiles, NoDoc
  <2>2. quota \in Nat
    BY BoundsAssumption DEF Init
  <2> QED  BY <2>1, <2>2 DEF QuotaKept
<1> QED  BY <1>1, <1>2, <1>3, <1>4 DEF IInv

LEMMA IngestStep ==
  ASSUME IInv, NEW f \in Files, Ingest(f)
  PROVE  IInv'
BY UpsertStep, GateStep, ScanBlockedStep, MarkSkippedStep, StampStep, FetchStep, FetchFailsStep,
   SkipStep, SkipTextStep, ClearStep, InsertStep, IndexedStep, SizeStep DEF Ingest

LEMMA StepIInv == IInv /\ [Next]_vars => IInv'
<1> SUFFICES ASSUME IInv, [Next]_vars PROVE IInv'
  OBVIOUS
<1>1. CASE Sync
  BY <1>1, StartStep, OpenStep, ProviderFailsStep, ListedStep, ListPageStep, IngestStep, RemoveStep
     DEF Sync
<1>2. CASE Requests
  BY <1>2, MapStep, EnableStep, DisableBeginStep, RevokeBeginStep, UnmapBeginStep DEF Requests
<1>3. CASE Answers
  BY <1>3, DisableEndStep, RevokeEndStep, UnmapEndStep DEF Answers
<1>4. CASE Outside
  BY <1>4, EditStep, DeleteStep, ConnectStep, QuietStep DEF Outside
<1>5. CASE UNCHANGED vars
  <2>1. TypeOK' /\ OrphanWritesNothing' /\ UnmappedLeavesNothing' /\ ListedWas' /\ WalkSaw'
    BY <1>5 DEF vars, grant, IInv, TypeOK, There, OrphanWritesNothing, Granted,
       UnmappedLeavesNothing, ListedWas, WalkSaw, Seen
  <2>2. InHand' /\ SettledIsCurrent' /\ UsageCounts' /\ QuotaKept'
    BY <1>5, <2>1, KeptOrPurged DEF vars, grant
  <2> QED  BY <2>1, <2>2 DEF IInv
<1> QED  BY <1>1, <1>2, <1>3, <1>4, <1>5, DieStep DEF Next

\* The inductive invariant holds throughout.
THEOREM Invariance == Spec => []IInv
BY InitIInv, StepIInv, PTL DEF Spec

\* Every variable keeps its type, and a path without a row has no leftovers.
THEOREM TypeCorrect == Spec => []TypeOK
<1>1. IInv => TypeOK
  BY DEF IInv
<1> QED  BY <1>1, Invariance, PTL

\* The text of an indexed document, which later walks pass over, is of the version
\* it is stamped with or of a newer one, wherever walks were cut short.
THEOREM SettledIsCurrentAlways == Spec => []SettledIsCurrent
<1>1. IInv => SettledIsCurrent
  BY DEF IInv
<1> QED  BY <1>1, Invariance, PTL

\* However a walk and the end of its mapping interleave, nothing is left behind.
THEOREM UnmappedLeavesNothingAlways == Spec => []UnmappedLeavesNothing
<1>1. IInv => UnmappedLeavesNothing
  BY DEF IInv
<1> QED  BY <1>1, Invariance, PTL

\* Under a quota that does not change, the files a person has indexed never exceed
\* it: not only those that one walk accepts.
THEOREM QuotaAlwaysKept == Spec => []QuotaKept
<1>1. IInv => QuotaKept
  BY DEF IInv
<1> QED  BY <1>1, Invariance, PTL

\* Whatever a file of the folder was when a walk began: if it never went away,
\* the end of that walk leaves its row.
THEOREM OnlyTheGoneAreEverRemoved == Spec => OnlyTheGoneAreRemoved
<1> DEFINE Leaves == walk.pc = "walk" /\ walk'.pc = "idle" =>
                       \A f \in walk.steady : docs'[f] = docs[f]
<1>1. IInv /\ [Next]_vars => [Leaves]_vars
  <2> SUFFICES ASSUME IInv, Next, walk.pc = "walk", walk'.pc = "idle", NEW f \in walk.steady
               PROVE  docs'[f] = docs[f]
    OBVIOUS
  <2>1. f \in Files /\ walk.complete \in BOOLEAN /\ (walk.complete => f \in Seen)
    BY DEF IInv, TypeOK, Walk, WalkSaw
  <2>2. CASE Remove
    BY <2>1, <2>2 DEF Remove, IInv, TypeOK
  <2>3. CASE Die
    BY <2>3 DEF Die
  <2>4. ASSUME NEW g \in Files, Ingest(g)
        PROVE  docs' = docs
    BY <2>4 DEF Ingest, Ingesting, Upsert, Gate, ScanBlocked, MarkSkipped, Stamp, Fetch, FetchFails,
       Skip, SkipText, Clear, Insert, Indexed, Size, Go, IInv, TypeOK, Walk
  <2>5. CASE Start \/ Open \/ ProviderFails \/ Listed \/ \E S \in SUBSET Files : ListPage(S)
    BY <2>5 DEF Start, Open, ProviderFails, Listed, ListPage
  <2>6. CASE Requests \/ Answers
    BY <2>6 DEF Requests, Answers, Map, Enable, DisableBegin, RevokeBegin, UnmapBegin,
       DisableEnd, RevokeEnd, UnmapEnd
  <2>7. CASE Outside
    BY <2>7 DEF Outside, Edit, Delete, Connect, Quiet, IInv, TypeOK, Walk
  <2> QED  BY <2>2, <2>3, <2>4, <2>5, <2>6, <2>7 DEF Next, Sync
<1>2. [Leaves]_vars => [Leaves]_vars
  OBVIOUS
<1> QED  BY <1>1, Invariance, PTL DEF Spec, OnlyTheGoneAreRemoved

=============================================================================
