--------------------------- MODULE RemindersProofs ---------------------------
(***************************************************************************)
(* What holds of PushDelivery for any number of accounts, installations,   *)
(* tokens, events, workers, slow batches and deaths; then what holds of    *)
(* Reminders on top of it, for any number of reminders, texts, times,      *)
(* revisions and attempts.                                                 *)
(***************************************************************************)
EXTENDS Reminders, FiniteSetTheorems, TLAPS

----------------------------------------------------------------------------
(* The inductive invariant.                                                *)

\* A worker whose lease a row still carries finds it as it left it, and what its
\* transaction wrote carries its lease.
Dispatching(w) == work[w].pc \in {"claimed", "checked", "flying"}
LeasesHold ==
  \A w \in Workers : \A p \in Rows : p \in work[w].rows =>
    /\ push[p].lease = w /\ Dispatching(w) => push[p].status = "sending"
    /\ push[p].lease = w /\ work[w].pc = "receipts" => push[p].status = "checking"
    /\ InTransaction(w) /\ work[w].verdict[p] \notin {"ready", "lost"} => push[p].lease = w

\* What a worker can have decided so far.
VerdictsFit ==
  \A w \in Workers : \A p \in Rows :
    /\ work[w].pc \in {"idle", "claimed"} => work[w].verdict[p] = "ready"
    /\ work[w].pc = "checked" => work[w].verdict[p] \notin {"fenced", "failed"}
    /\ work[w].pc = "flying" => p \notin work[w].rows \/ work[w].verdict[p] \notin {"ready", "failed"}
    /\ work[w].pc = "receipts" => work[w].verdict[p] \in {"ready", "failed"}

\* Expo has a message exactly while its row says so.
CopiesMatch ==
  \A p \in Rows :
    /\ push[p].status \in Unsent \cup {"none", "sending", "suppressed"} => copies[p] = 0
    /\ push[p].status \in {"ticketed", "checking", "provider_accepted"} => copies[p] = 1
    /\ push[p].status = "failed" => copies[p] \in {0, 1}

IInv ==
  /\ TypeOK /\ LeasesHold /\ VerdictsFit /\ CopiesMatch
  /\ OneAccountPerDevice /\ SentToItsOwner

----------------------------------------------------------------------------
(* Rows, devices and batches.                                              *)

LEMMA RowsHaveDevices ==
  ASSUME NEW p \in Rows
  PROVE  DeviceOf(p) \in Devices /\ OwnerOf(p) = DeviceOf(p)[1] /\ OwnerOf(p) \in Users
BY DEF Rows, Devices, DeviceOf, OwnerOf

LEMMA IdleFits ==
  /\ Idle \in Batch /\ Idle.pc = "idle" /\ Idle.rows = {}
  /\ \A p \in Rows : Idle.verdict[p] = "ready"
BY DEF Idle, Batch, Verdicts

\* No worker is in a transaction while the lock is free, and only its holder is.
LEMMA OnlyTheHolder ==
  ASSUME TypeOK, NEW w \in Workers, InTransaction(w)
  PROVE  lock = w /\ lock # None /\ \A v \in Workers \ {w} : ~InTransaction(v)
BY NoneAssumption DEF TypeOK

LEMMA FreeLock ==
  ASSUME TypeOK, lock = None
  PROVE  \A w \in Workers : ~InTransaction(w)
BY NoneAssumption DEF TypeOK

\* Devices that only stop being used.
Fewer == \A k \in Devices : device'[k].live => device[k].live /\ device'[k].token = device[k].token

LEMMA FewerDevices ==
  ASSUME OneAccountPerDevice, Fewer
  PROVE  OneAccountPerDevice'
BY DEF OneAccountPerDevice, Fewer

\* Where the worker that moves is not left flying and devices only disappear, Expo's
\* messages stay with their owners.
LEMMA StillWithOwners ==
  ASSUME IInv, NEW w \in Workers, Fewer, work'[w].pc # "flying",
         \A v \in Workers \ {w} : work'[v] = work[v]
  PROVE  SentToItsOwner'
<1> SUFFICES ASSUME NEW v \in Workers, work'[v].pc = "flying", NEW p \in Flying(v)', NEW k \in Devices,
                    device'[k].live, device'[k].token = work'[v].token[p]
             PROVE  k[1] = OwnerOf(p)
  BY DEF SentToItsOwner
<1>1. v # w /\ work'[v] = work[v]
  OBVIOUS
<1>2. p \in Flying(v)
  BY <1>1 DEF Flying
<1> QED  BY <1>1, <1>2 DEF IInv, SentToItsOwner, Fewer

----------------------------------------------------------------------------
(* Accounts, devices and events.                                           *)

\* Rows that wait are suppressed, or new ones begin to wait.
Waiting(p) ==
  \/ push'[p] = push[p]
  \/ push[p].status \in Unsent \cup {"none"} /\ push'[p].lease = None
       /\ push'[p].status \in {"queued", "suppressed"}

LEMMA OnlyWaiting ==
  ASSUME IInv, push' \in [Rows -> PushRow], \A p \in Rows : Waiting(p), UNCHANGED <<work, copies>>
  PROVE  /\ \A p \in Rows : ((push'[p].lease # None) <=> (push'[p].status \in {"sending", "checking"}))
         /\ LeasesHold' /\ VerdictsFit' /\ CopiesMatch'
<1>1. \A p \in Rows : push[p].status \in Unsent \cup {"none"} => push[p].lease = None
  BY DEF IInv, TypeOK, Unsent
<1>2. \A p \in Rows : (push'[p].lease # None) <=> (push'[p].status \in {"sending", "checking"})
  BY DEF IInv, TypeOK, Waiting
<1>3. LeasesHold'
  <2> SUFFICES ASSUME NEW w \in Workers, NEW p \in Rows, p \in work[w].rows
               PROVE  /\ push'[p].lease = w /\ Dispatching(w) => push'[p].status = "sending"
                      /\ push'[p].lease = w /\ work[w].pc = "receipts" => push'[p].status = "checking"
                      /\ InTransaction(w) /\ work[w].verdict[p] \notin {"ready", "lost"} => push'[p].lease = w
    BY DEF LeasesHold, Dispatching, InTransaction
  <2>1. w # None
    BY NoneAssumption
  <2> QED  BY <1>1, <2>1 DEF IInv, LeasesHold, Waiting
<1>4. VerdictsFit'
  BY DEF IInv, VerdictsFit
<1>5. CopiesMatch'
  BY DEF IInv, CopiesMatch, Waiting, Unsent
<1> QED  BY <1>2, <1>3, <1>4, <1>5

LEMMA SettledFits ==
  ASSUME NEW row \in PushRow, NEW s \in {"suppressed", "failed", "provider_accepted"}
  PROVE  Settle(row, s) \in PushRow /\ Settle(row, s).status = s /\ Settle(row, s).lease = None
BY DEF Settle, PushRow

LEMMA RegisterStep ==
  ASSUME IInv, NEW u \in Users, NEW i \in Installs, NEW t \in Tokens, NEW front \in BOOLEAN,
         NEW on \in BOOLEAN, Register(u, i, t, front, on)
  PROVE  IInv'
<1> DEFINE row == [token |-> t, live |-> TRUE, front |-> front, on |-> on, bound |-> TRUE]
<1> DEFINE key == <<u, i>>
<1>1. row \in DeviceRow /\ row.token = t /\ row.live /\ key \in Devices /\ key[2] = i
  BY DEF DeviceRow, Devices
<1>2. /\ lock = None /\ Registered(u, i, row) /\ registrations' = registrations + 1
      /\ UNCHANGED <<lock, work, overdue, gone, copies, trouble>>
  BY DEF Register
<1>3. device' \in [Devices -> DeviceRow] /\ device'[key] = row
  BY <1>1, <1>2 DEF Registered, IInv, TypeOK, DeviceRow
<1>4. \A k \in Devices \ {key} : device'[k].live =>
        device[k].live /\ device'[k] = device[k] /\ k[2] # i /\ device[k].token # t
  BY <1>1, <1>2 DEF Registered, IInv, TypeOK, DeviceRow
<1> HIDE DEF row, key
<1>5. OneAccountPerDevice'
  BY <1>1, <1>3, <1>4 DEF IInv, OneAccountPerDevice
<1>6. push' \in [Rows -> PushRow]
  BY <1>2, SettledFits DEF Registered, IInv, TypeOK
<1>7. \A p \in Rows : Waiting(p)
  BY <1>2, SettledFits DEF Registered, Waiting, IInv, TypeOK
<1>8. \A w \in Workers : ~InTransaction(w) /\ ~InTransaction(w)'
  BY <1>2, FreeLock DEF IInv, InTransaction
<1>9. SentToItsOwner'
  BY <1>2, <1>8 DEF SentToItsOwner, InTransaction
<1>10. TypeOK'
  BY <1>2, <1>3, <1>6, <1>7, OnlyWaiting DEF IInv, TypeOK, InTransaction
<1> QED  BY <1>2, <1>5, <1>6, <1>7, <1>9, <1>10, OnlyWaiting DEF IInv

LEMMA RevokeStep ==
  ASSUME IInv, NEW k \in Devices, Revoke(k)
  PROVE  IInv'
<1>1. /\ lock = None /\ device' = [device EXCEPT ![k].live = FALSE]
      /\ push' = [p \in Rows |-> IF DeviceOf(p) = k /\ push[p].status \in Unsent
                                   THEN Settle(push[p], "suppressed") ELSE push[p]]
      /\ UNCHANGED <<lock, work, overdue, gone, copies, registrations, trouble>>
  BY DEF Revoke, bounds
<1>2. device' \in [Devices -> DeviceRow] /\ Fewer
  BY <1>1 DEF IInv, TypeOK, DeviceRow, Fewer
<1>3. push' \in [Rows -> PushRow]
  BY <1>1, SettledFits DEF IInv, TypeOK
<1>4. \A p \in Rows : Waiting(p)
  BY <1>1, SettledFits DEF Waiting, IInv, TypeOK
<1>5. \A w \in Workers : ~InTransaction(w) /\ ~InTransaction(w)'
  BY <1>1, FreeLock DEF IInv, InTransaction
<1>6. SentToItsOwner'
  BY <1>1, <1>5 DEF SentToItsOwner, InTransaction
<1>7. TypeOK'
  BY <1>1, <1>2, <1>3, <1>4, OnlyWaiting DEF IInv, TypeOK, InTransaction
<1> QED  BY <1>1, <1>2, <1>3, <1>4, <1>6, <1>7, OnlyWaiting, FewerDevices DEF IInv

LEMMA OutboxStep ==
  ASSUME IInv, NEW e \in Events, NEW u \in Users, NEW front \in BOOLEAN, Outbox(e, u, front),
         UNCHANGED <<device, lock, work, overdue, gone, copies, registrations, trouble>>
  PROVE  IInv'
<1> DEFINE new == [NoPush EXCEPT !.status = "queued"]
<1>1. new \in PushRow /\ new.status = "queued" /\ new.lease = None
  BY DEF NoPush, PushRow
<1>2. \A p \in Rows : push'[p] = push[p] \/ (push'[p] = new /\ push[p].status = "none")
  BY DEF Outbox
<1>3. push' \in [Rows -> PushRow]
  BY <1>1 DEF Outbox, IInv, TypeOK
<1> HIDE DEF new
<1>4. \A p \in Rows : Waiting(p)
  BY <1>1, <1>2 DEF Waiting
<1>5. TypeOK'
  BY <1>3, <1>4, OnlyWaiting DEF IInv, TypeOK, InTransaction
<1>6. OneAccountPerDevice' /\ SentToItsOwner'
  BY DEF IInv, OneAccountPerDevice, SentToItsOwner, Flying
<1> QED  BY <1>3, <1>4, <1>5, <1>6, OnlyWaiting DEF IInv

LEMMA NotifyStep ==
  ASSUME IInv, NEW e \in Events, NEW u \in Users, NEW front \in BOOLEAN, Notify(e, u, front)
  PROVE  IInv'
BY OutboxStep DEF Notify, bounds

\* Time and phones.
LEMMA OutsideSteps ==
  ASSUME IInv, \/ \E e \in Events : GraceEnds(e)
               \/ \E t \in Tokens : Uninstall(t)
  PROVE  IInv'
<1>1. UNCHANGED <<device, push, lock, work, copies, registrations, trouble>>
  BY DEF GraceEnds, Uninstall, bounds
<1>2. overdue' \subseteq Events /\ gone' \subseteq Tokens
  BY DEF GraceEnds, Uninstall, IInv, TypeOK
<1>3. TypeOK'
  BY <1>1, <1>2 DEF IInv, TypeOK, InTransaction
<1>4. LeasesHold' /\ VerdictsFit' /\ CopiesMatch'
  BY <1>1 DEF IInv, LeasesHold, VerdictsFit, CopiesMatch, Dispatching, InTransaction
<1>5. OneAccountPerDevice' /\ SentToItsOwner'
  BY <1>1 DEF IInv, OneAccountPerDevice, SentToItsOwner, Flying
<1> QED  BY <1>3, <1>4, <1>5 DEF IInv

----------------------------------------------------------------------------
(* One worker's batch.                                                     *)

\* A step of one worker that leaves the devices: what it owes the invariant.
TakesBatch(w, S, q) ==
  /\ work[w].pc = "idle" /\ work' = [work EXCEPT ![w] = q]
  /\ q.rows = S /\ q.pc \in {"claimed", "receipts"} /\ \A p \in Rows : q.verdict[p] = "ready"
TakesRows(w, S, q) ==
  \A p \in S : /\ push'[p].lease = w
               /\ q.pc = "claimed" => push'[p].status = "sending" /\ copies[p] = 0
               /\ q.pc = "receipts" => push'[p].status = "checking" /\ copies[p] = 1
               /\ \A v \in Workers : InTransaction(v) => p \notin Written(v)
LeavesRest(S) ==
  /\ push' \in [Rows -> PushRow] /\ \A p \in Rows \ S : push'[p] = push[p]
  /\ trouble' \in Nat /\ UNCHANGED <<device, lock, overdue, gone, copies, registrations>>

LEMMA BatchTaken ==
  ASSUME IInv, NEW w \in Workers, NEW S \in SUBSET Rows, NEW q \in Batch,
         TakesBatch(w, S, q), TakesRows(w, S, q), LeavesRest(S)
  PROVE  IInv'
<1>a. /\ work[w].pc = "idle" /\ work' = [work EXCEPT ![w] = q]
      /\ q.rows = S /\ q.pc \in {"claimed", "receipts"} /\ \A p \in Rows : q.verdict[p] = "ready"
  BY DEF TakesBatch
<1>b. \A p \in S : /\ push'[p].lease = w
                   /\ push'[p].status \in {"sending", "checking"}
                   /\ q.pc = "claimed" => push'[p].status = "sending" /\ copies[p] = 0
                   /\ q.pc = "receipts" => push'[p].status = "checking" /\ copies[p] = 1
                   /\ \A v \in Workers : InTransaction(v) => p \notin Written(v)
  BY <1>a DEF TakesRows
<1>c. /\ push' \in [Rows -> PushRow] /\ \A p \in Rows \ S : push'[p] = push[p]
      /\ trouble' \in Nat /\ UNCHANGED <<device, lock, overdue, gone, copies, registrations>>
  BY DEF LeavesRest
<1>1. /\ work' \in [Workers -> Batch] /\ work'[w] = q
      /\ \A v \in Workers \ {w} : work'[v] = work[v]
  BY <1>a DEF IInv, TypeOK
<1>2. w # None
  BY NoneAssumption
<1>3. TypeOK'
  <2>1. \A p \in Rows : (push'[p].lease # None) <=> (push'[p].status \in {"sending", "checking"})
    BY <1>2, <1>b, <1>c DEF IInv, TypeOK
  <2>2. \A v \in Workers : InTransaction(v)' <=> lock' = v
    BY <1>a, <1>c, <1>1 DEF IInv, TypeOK, InTransaction
  <2> QED  BY <1>c, <1>1, <2>1, <2>2 DEF IInv, TypeOK
<1>4. LeasesHold'
  <2> SUFFICES ASSUME NEW v \in Workers, NEW p \in Rows, p \in work'[v].rows
               PROVE  /\ push'[p].lease = v /\ Dispatching(v)' => push'[p].status = "sending"
                      /\ push'[p].lease = v /\ work'[v].pc = "receipts" => push'[p].status = "checking"
                      /\ InTransaction(v)' /\ work'[v].verdict[p] \notin {"ready", "lost"} => push'[p].lease = v
    BY DEF LeasesHold
  <2>1. CASE v = w
    BY <1>a, <1>b, <1>1, <2>1 DEF Dispatching, InTransaction
  <2>2. CASE v # w /\ p \in S
    <3>1. push'[p].lease = w /\ (InTransaction(v) => p \notin Written(v))
      BY <1>b, <2>2
    <3> QED  BY <1>1, <1>2, <2>2, <3>1 DEF InTransaction, Written
  <2>3. CASE v # w /\ p \notin S
    BY <1>c, <1>1, <2>3 DEF IInv, LeasesHold, Dispatching, InTransaction
  <2> QED  BY <2>1, <2>2, <2>3
<1>5. VerdictsFit'
  BY <1>a, <1>1 DEF IInv, VerdictsFit
<1>6. CopiesMatch'
  BY <1>a, <1>b, <1>c DEF IInv, CopiesMatch, Unsent
<1>7. OneAccountPerDevice' /\ SentToItsOwner'
  BY <1>a, <1>c, <1>1, FewerDevices, StillWithOwners DEF IInv, Fewer
<1> QED  BY <1>3, <1>4, <1>5, <1>6, <1>7 DEF IInv

LEMMA SlowRows ==
  ASSUME IInv, NEW S \in SUBSET Rows, trouble + Cardinality(SlowIn(S)) <= MaxTrouble,
         trouble' = trouble + Cardinality(SlowIn(S))
  PROVE  trouble' \in Nat
<1>1. IsFiniteSet(Devices) /\ IsFiniteSet(Rows)
  BY FiniteAssumption, FS_Product DEF Devices, Rows
<1>2. IsFiniteSet(SlowIn(S))
  BY <1>1, FS_Subset DEF SlowIn
<1>3. Cardinality(SlowIn(S)) \in Nat
  BY <1>2, FS_CardinalityType
<1> QED  BY <1>3 DEF IInv, TypeOK

LEMMA ClaimStep ==
  ASSUME IInv, NEW w \in Workers, NEW S \in SUBSET Rows, Claim(w, S)
  PROVE  IInv'
<1> DEFINE q == [Idle EXCEPT !.pc = "claimed", !.rows = S]
<1>1. q \in Batch /\ q.pc = "claimed" /\ q.rows = S /\ \A p \in Rows : q.verdict[p] = "ready"
  BY IdleFits DEF Idle, Batch, Verdicts
<1>2. /\ work[w].pc = "idle" /\ work' = [work EXCEPT ![w] = q]
      /\ UNCHANGED <<device, lock, overdue, gone, copies, registrations>> /\ trouble' \in Nat
  BY SlowRows DEF Claim
<1>3. /\ push' \in [Rows -> PushRow] /\ \A p \in Rows \ S : push'[p] = push[p]
      /\ \A p \in S : push'[p].lease = w /\ push'[p].status = "sending"
  <2> DEFINE taken(p) == [push[p] EXCEPT !.status = "sending", !.lease = w, !.attempts = @ + 1]
  <2>1. \A p \in Rows : taken(p) \in PushRow /\ taken(p).lease = w /\ taken(p).status = "sending"
    <3> SUFFICES ASSUME NEW p \in Rows
                 PROVE  taken(p) \in PushRow /\ taken(p).lease = w /\ taken(p).status = "sending"
      OBVIOUS
    <3>1. push[p] \in PushRow /\ push[p].attempts + 1 \in Nat
      BY DEF IInv, TypeOK, PushRow
    <3> QED  BY <3>1 DEF PushRow
  <2>2. push' = [p \in Rows |-> IF p \in S THEN taken(p) ELSE push[p]]
    BY DEF Claim
  <2> HIDE DEF taken
  <2> QED  BY <2>1, <2>2 DEF IInv, TypeOK
<1>4. \A p \in S : copies[p] = 0 /\ \A v \in Workers : InTransaction(v) => p \notin Written(v)
  BY DEF Claim, RowLocked, IInv, CopiesMatch
<1>5. \A p \in S : /\ push'[p].lease = w
                   /\ q.pc = "claimed" => push'[p].status = "sending" /\ copies[p] = 0
                   /\ q.pc = "receipts" => push'[p].status = "checking" /\ copies[p] = 1
                   /\ \A v \in Workers : InTransaction(v) => p \notin Written(v)
  BY <1>1, <1>3, <1>4
<1> HIDE DEF q
<1>6. TakesBatch(w, S, q)
  BY <1>1, <1>2 DEF TakesBatch
<1>7. TakesRows(w, S, q)
  BY <1>5 DEF TakesRows
<1>8. LeavesRest(S)
  BY <1>2, <1>3 DEF LeavesRest
<1> QED  BY <1>1, <1>6, <1>7, <1>8, BatchTaken

LEMMA ClaimReceiptsStep ==
  ASSUME IInv, NEW w \in Workers, NEW S \in SUBSET Rows, ClaimReceipts(w, S)
  PROVE  IInv'
<1> DEFINE q == [Idle EXCEPT !.pc = "receipts", !.rows = S,
                   !.token = [p \in Rows |-> IF p \in S THEN push[p].token ELSE None]]
<1>1. q \in Batch /\ q.pc = "receipts" /\ q.rows = S /\ \A p \in Rows : q.verdict[p] = "ready"
  BY IdleFits DEF Idle, Batch, Verdicts, IInv, TypeOK, PushRow
<1>2. /\ work[w].pc = "idle" /\ work' = [work EXCEPT ![w] = q]
      /\ UNCHANGED <<device, lock, overdue, gone, copies, registrations>> /\ trouble' \in Nat
  BY SlowRows DEF ClaimReceipts
<1>3. /\ push' \in [Rows -> PushRow] /\ \A p \in Rows \ S : push'[p] = push[p]
      /\ \A p \in S : push'[p].lease = w /\ push'[p].status = "checking"
  <2> DEFINE taken(p) == [push[p] EXCEPT !.status = "checking", !.lease = w, !.checks = @ + 1]
  <2>1. \A p \in Rows : taken(p) \in PushRow /\ taken(p).lease = w /\ taken(p).status = "checking"
    <3> SUFFICES ASSUME NEW p \in Rows
                 PROVE  taken(p) \in PushRow /\ taken(p).lease = w /\ taken(p).status = "checking"
      OBVIOUS
    <3>1. push[p] \in PushRow /\ push[p].checks + 1 \in Nat
      BY DEF IInv, TypeOK, PushRow
    <3> QED  BY <3>1 DEF PushRow
  <2>2. push' = [p \in Rows |-> IF p \in S THEN taken(p) ELSE push[p]]
    BY DEF ClaimReceipts
  <2> HIDE DEF taken
  <2> QED  BY <2>1, <2>2 DEF IInv, TypeOK
<1>4. \A p \in S : copies[p] = 1 /\ \A v \in Workers : InTransaction(v) => p \notin Written(v)
  <2>1. \A p \in S : push[p].status \in {"ticketed", "checking"}
    BY DEF ClaimReceipts
  <2>2. \A p \in S : copies[p] = 1
    BY <2>1 DEF IInv, CopiesMatch
  <2>3. ASSUME NEW p \in S, NEW v \in Workers, InTransaction(v), p \in Written(v)
        PROVE  FALSE
    BY <2>1, <2>3 DEF IInv, LeasesHold, Written, Dispatching, InTransaction
  <2> QED  BY <2>2, <2>3
<1>5. \A p \in S : /\ push'[p].lease = w
                   /\ q.pc = "claimed" => push'[p].status = "sending" /\ copies[p] = 0
                   /\ q.pc = "receipts" => push'[p].status = "checking" /\ copies[p] = 1
                   /\ \A v \in Workers : InTransaction(v) => p \notin Written(v)
  BY <1>1, <1>3, <1>4
<1> HIDE DEF q
<1>6. TakesBatch(w, S, q)
  BY <1>1, <1>2 DEF TakesBatch
<1>7. TakesRows(w, S, q)
  BY <1>5 DEF TakesRows
<1>8. LeavesRest(S)
  BY <1>2, <1>3 DEF LeavesRest
<1> QED  BY <1>1, <1>6, <1>7, <1>8, BatchTaken

\* A worker that goes on with its batch, or lets it go, and writes no row.
LEMMA OnlyGoesOn ==
  ASSUME IInv, NEW w \in Workers, NEW q \in Batch, work' = [work EXCEPT ![w] = q],
         UNCHANGED <<push, copies, overdue, gone, registrations>>, trouble' \in Nat,
         device' \in [Devices -> DeviceRow], Fewer, lock' \in Workers \cup {None},
         q.pc \in {"checked", "flying"} <=> lock' = w,
         \A v \in Workers \ {w} : InTransaction(v) <=> lock' = v,
         q.pc \in {"claimed", "checked", "flying"} => Dispatching(w),
         q.pc = "receipts" => work[w].pc = "receipts",
         q.rows \subseteq work[w].rows,
         \A p \in q.rows : q.pc \in {"checked", "flying"} /\ q.verdict[p] \notin {"ready", "lost"}
                             => push[p].lease = w,
         \A p \in Rows :
           /\ q.pc \in {"idle", "claimed"} => q.verdict[p] = "ready"
           /\ q.pc = "checked" => q.verdict[p] \notin {"fenced", "failed"}
           /\ q.pc = "flying" => p \notin q.rows \/ q.verdict[p] \notin {"ready", "failed"}
           /\ q.pc = "receipts" => q.verdict[p] \in {"ready", "failed"},
         q.pc = "flying" => SentToItsOwner'
  PROVE  IInv'
<1>1. /\ work' \in [Workers -> Batch] /\ work'[w] = q
      /\ \A v \in Workers \ {w} : work'[v] = work[v]
  BY DEF IInv, TypeOK
<1>2. TypeOK'
  <2>1. \A v \in Workers : InTransaction(v)' <=> lock' = v
    BY <1>1 DEF InTransaction
  <2> QED  BY <1>1, <2>1 DEF IInv, TypeOK
<1>3. LeasesHold'
  <2> SUFFICES ASSUME NEW v \in Workers, NEW p \in Rows, p \in work'[v].rows
               PROVE  /\ push[p].lease = v /\ Dispatching(v)' => push[p].status = "sending"
                      /\ push[p].lease = v /\ work'[v].pc = "receipts" => push[p].status = "checking"
                      /\ InTransaction(v)' /\ work'[v].verdict[p] \notin {"ready", "lost"} => push[p].lease = v
    BY DEF LeasesHold
  <2>1. CASE v = w
    BY <1>1, <2>1 DEF IInv, LeasesHold, Dispatching, InTransaction
  <2>2. CASE v # w
    BY <1>1, <2>2 DEF IInv, LeasesHold, Dispatching, InTransaction
  <2> QED  BY <2>1, <2>2
<1>4. VerdictsFit'
  BY <1>1 DEF IInv, VerdictsFit
<1>5. CopiesMatch'
  BY DEF IInv, CopiesMatch
<1>6. OneAccountPerDevice' /\ SentToItsOwner'
  BY <1>1, FewerDevices, StillWithOwners DEF IInv
<1> QED  BY <1>2, <1>3, <1>4, <1>5, <1>6 DEF IInv

LEMMA CheckStep ==
  ASSUME IInv, NEW w \in Workers, NEW quiet \in BOOLEAN, NEW sealed \in BOOLEAN, Check(w, quiet, sealed)
  PROVE  IInv'
<1> DEFINE verdict == [p \in Rows |->
             IF p \notin work[w].rows THEN "ready"
             ELSE LET v == Verdict(p, quiet, sealed) IN
               IF v # "ready" /\ push[p].lease # w THEN "lost" ELSE v]
<1> DEFINE token == [p \in Rows |-> IF p \in work[w].rows THEN device[DeviceOf(p)].token ELSE None]
<1> DEFINE q == [work[w] EXCEPT !.pc = "checked", !.verdict = verdict, !.token = token]
<1>1. /\ work[w].pc = "claimed" /\ lock = None /\ lock' = w /\ work' = [work EXCEPT ![w] = q]
      /\ UNCHANGED <<device, push, overdue, gone, copies, registrations, trouble>>
  BY DEF Check, bounds
<1>2. work[w] \in Batch
  BY DEF IInv, TypeOK
<1>3. \A p \in Rows : Verdict(p, quiet, sealed) \in {"ready", "suppressed", "deferred", "retry"}
  BY DEF Verdict
<1>4. /\ verdict \in [Rows -> Verdicts]
      /\ \A p \in Rows : verdict[p] \notin {"fenced", "failed"}
      /\ \A p \in work[w].rows : verdict[p] \notin {"ready", "lost"} => push[p].lease = w
  BY <1>2, <1>3 DEF Verdicts, Batch
<1>5. token \in [Rows -> Tokens \cup {None}]
  BY RowsHaveDevices DEF IInv, TypeOK, DeviceRow
<1> HIDE DEF verdict, token
<1>6. q \in Batch /\ q.pc = "checked" /\ q.rows = work[w].rows /\ q.verdict = verdict
  BY <1>2, <1>4, <1>5 DEF Batch
<1> HIDE DEF q
<1>7. device' \in [Devices -> DeviceRow] /\ Fewer /\ trouble' \in Nat
  BY <1>1 DEF IInv, TypeOK, Fewer
<1>8. \A v \in Workers \ {w} : InTransaction(v) <=> lock' = v
  BY <1>1, FreeLock DEF IInv
<1>9. Dispatching(w)
  BY <1>1 DEF Dispatching
<1> QED  BY <1>1, <1>4, <1>6, <1>7, <1>8, <1>9, OnlyGoesOn

LEMMA DieStep ==
  ASSUME IInv, NEW w \in Workers, Die(w)
  PROVE  IInv'
<1>1. /\ work' = [work EXCEPT ![w] = Idle] /\ lock' = IF lock = w THEN None ELSE lock
      /\ trouble' = trouble + 1 /\ UNCHANGED <<device, push, overdue, gone, copies, registrations>>
  BY DEF Die
<1>2. /\ device' \in [Devices -> DeviceRow] /\ Fewer /\ trouble' \in Nat
      /\ lock' \in Workers \cup {None} /\ lock' # w
  BY <1>1, NoneAssumption DEF IInv, TypeOK, Fewer
<1>3. \A v \in Workers \ {w} : InTransaction(v) <=> lock' = v
  BY <1>1, NoneAssumption DEF IInv, TypeOK
<1> QED  BY <1>1, <1>2, <1>3, IdleFits, OnlyGoesOn

LEMMA ReceiptRevokesStep ==
  ASSUME IInv, NEW w \in Workers, NEW p \in work[w].rows, ReceiptRevokes(w, p)
  PROVE  IInv'
<1> DEFINE q == [work[w] EXCEPT !.verdict[p] = "failed"]
<1>1. /\ work[w].pc = "receipts" /\ work' = [work EXCEPT ![w] = q]
      /\ device' = RevokeByToken(DeviceOf(p), work[w].token[p])
      /\ UNCHANGED <<push, lock, overdue, gone, copies, registrations, trouble>>
  BY DEF ReceiptRevokes, Asked, bounds, IInv, TypeOK
<1>2. work[w] \in Batch /\ p \in Rows
  BY DEF IInv, TypeOK, Batch
<1>3. /\ q \in Batch /\ q.pc = "receipts" /\ q.rows = work[w].rows
      /\ \A r \in Rows : q.verdict[r] \in {"ready", "failed"}
  BY <1>1, <1>2 DEF Batch, Verdicts, IInv, VerdictsFit
<1> HIDE DEF q
<1>4. device' \in [Devices -> DeviceRow] /\ Fewer /\ trouble' \in Nat
  BY <1>1 DEF IInv, TypeOK, Fewer, RevokeByToken, DeviceRow
<1>5. /\ lock' \in Workers \cup {None} /\ lock' # w
      /\ \A v \in Workers \ {w} : InTransaction(v) <=> lock' = v
  BY <1>1 DEF IInv, TypeOK, InTransaction
<1> QED  BY <1>1, <1>3, <1>4, <1>5, OnlyGoesOn

----------------------------------------------------------------------------
(* What the end of a transaction writes.                                   *)

\* A verdict that writes is given on a row that is still the worker's.
Final == {"ready", "lost", "fenced", "suppressed", "deferred", "retry", "again", "ticketed", "failed"}
Passed == {"ready", "lost", "fenced"}

LEMMA OutcomeOfRow ==
  ASSUME IInv, NEW w \in Workers, NEW p \in Rows, NEW v \in Final \ Passed,
         push[p].status = "sending"
  PROVE  /\ Outcome(w, p, v) \in PushRow /\ Outcome(w, p, v).lease = None
         /\ v = "ticketed" => Outcome(w, p, v).status = "ticketed"
         /\ v # "ticketed" => Outcome(w, p, v).status \in {"suppressed", "retry", "failed"}
<1> DEFINE row == IF v \in {"ticketed", "failed", "again"}
                    THEN [push[p] EXCEPT !.token = work[w].token[p]] ELSE push[p]
<1>1. push[p] \in PushRow /\ work[w].token[p] \in Tokens \cup {None}
  BY DEF IInv, TypeOK, Batch
<1>2. row \in PushRow
  BY <1>1 DEF PushRow
<1> HIDE DEF row
<1>3. CASE v = "suppressed"
  <2>1. Outcome(w, p, v) = Settle(push[p], "suppressed")
    BY <1>3 DEF Outcome
  <2> QED  BY <1>1, <1>3, <2>1, SettledFits
<1>4. CASE v = "deferred"
  <2> DEFINE left == IF push[p].attempts > 0 THEN push[p].attempts - 1 ELSE 0
  <2>1. left \in Nat
    BY <1>1 DEF PushRow
  <2>2. Outcome(w, p, v) = [push[p] EXCEPT !.status = "retry", !.lease = None, !.foreground = TRUE,
                                           !.attempts = left]
    BY <1>1, <1>4 DEF Outcome, PushRow
  <2> HIDE DEF left
  <2> QED  BY <1>1, <1>4, <2>1, <2>2 DEF PushRow
<1>5. CASE v \in {"retry", "again"}
  <2>1. Outcome(w, p, v) = Retry(row)
    BY <1>5 DEF Outcome, row
  <2> QED  BY <1>2, <1>5, <2>1 DEF Retry, PushRow
<1>6. CASE v = "ticketed"
  <2>1. Outcome(w, p, v) = [row EXCEPT !.status = "ticketed", !.lease = None]
    BY <1>6 DEF Outcome, row
  <2> QED  BY <1>2, <1>6, <2>1 DEF PushRow
<1>7. CASE v = "failed"
  <2>1. Outcome(w, p, v) = Settle(row, "failed")
    BY <1>7 DEF Outcome, row
  <2> QED  BY <1>2, <1>7, <2>1, SettledFits
<1> QED  BY <1>3, <1>4, <1>5, <1>6, <1>7 DEF Final, Passed

\* A worker that writes rows it has the lease of, and lets its batch go or a row of
\* it: the rows carry no lease any more.
Wrote(w, p) ==
  \/ push'[p] = push[p] /\ copies'[p] = copies[p]
  \/ /\ push[p].lease = w /\ push'[p].lease = None
     /\ \/ push'[p].status \in {"suppressed", "retry"} /\ copies'[p] = 0
        \/ push'[p].status \in {"ticketed", "provider_accepted"} /\ copies'[p] = 1
        \/ push'[p].status = "failed" /\ copies'[p] \in {0, 1}

LEMMA RowsWritten ==
  ASSUME IInv, NEW w \in Workers, NEW q \in Batch, work' = [work EXCEPT ![w] = q],
         push' \in [Rows -> PushRow], copies' \in [Rows -> Nat], \A p \in Rows : Wrote(w, p),
         UNCHANGED <<overdue, gone, registrations, trouble>>,
         device' \in [Devices -> DeviceRow], Fewer, lock' \in Workers \cup {None}, lock' # w,
         \A v \in Workers \ {w} : InTransaction(v) <=> lock' = v,
         q.pc \in {"idle", "receipts"}, q.pc = "receipts" => work[w].pc = "receipts",
         q.rows \subseteq work[w].rows,
         \A p \in Rows : q.verdict[p] = IF q.pc = "idle" THEN "ready" ELSE work[w].verdict[p]
  PROVE  IInv'
<1>1. /\ work' \in [Workers -> Batch] /\ work'[w] = q
      /\ \A v \in Workers \ {w} : work'[v] = work[v]
  BY DEF IInv, TypeOK
<1>2. w # None
  BY NoneAssumption
<1>3. TypeOK'
  <2>1. \A p \in Rows : (push'[p].lease # None) <=> (push'[p].status \in {"sending", "checking"})
    BY DEF IInv, TypeOK, Wrote
  <2>2. \A v \in Workers : InTransaction(v)' <=> lock' = v
    BY <1>1 DEF InTransaction
  <2> QED  BY <1>1, <2>1, <2>2 DEF IInv, TypeOK
<1>4. LeasesHold'
  <2> SUFFICES ASSUME NEW v \in Workers, NEW p \in Rows, p \in work'[v].rows
               PROVE  /\ push'[p].lease = v /\ Dispatching(v)' => push'[p].status = "sending"
                      /\ push'[p].lease = v /\ work'[v].pc = "receipts" => push'[p].status = "checking"
                      /\ InTransaction(v)' /\ work'[v].verdict[p] \notin {"ready", "lost"} => push'[p].lease = v
    BY DEF LeasesHold
  <2>1. v # None
    BY NoneAssumption
  <2>2. Wrote(w, p)
    OBVIOUS
  <2>3. CASE v = w
    BY <1>1, <2>1, <2>2, <2>3 DEF IInv, LeasesHold, Dispatching, InTransaction, Wrote
  <2>4. CASE v # w
    BY <1>1, <2>1, <2>2, <2>4 DEF IInv, LeasesHold, Dispatching, InTransaction, Wrote
  <2> QED  BY <2>3, <2>4
<1>5. VerdictsFit'
  BY <1>1 DEF IInv, VerdictsFit
<1>6. CopiesMatch'
  BY DEF IInv, CopiesMatch, Wrote, Unsent
<1>7. OneAccountPerDevice' /\ SentToItsOwner'
  BY <1>1, FewerDevices, StillWithOwners DEF IInv
<1> QED  BY <1>3, <1>4, <1>5, <1>6, <1>7 DEF IInv

LEMMA Commits ==
  ASSUME IInv, NEW w \in Workers, InTransaction(w), NEW verdict, Commit(w, verdict),
         \A p \in work[w].rows : verdict[p] \in Final /\ (verdict[p] \notin Passed => push[p].lease = w),
         copies' = [p \in Rows |-> IF p \in work[w].rows /\ verdict[p] = "ticketed"
                                     THEN copies[p] + 1 ELSE copies[p]],
         UNCHANGED <<overdue, gone, registrations, trouble>>,
         device' \in [Devices -> DeviceRow], Fewer
  PROVE  IInv'
<1>1. /\ lock' = None /\ work' = [work EXCEPT ![w] = Idle]
      /\ push' = [p \in Rows |-> IF p \in work[w].rows THEN Outcome(w, p, verdict[p]) ELSE push[p]]
  BY DEF Commit
<1>2. \A p \in work[w].rows : verdict[p] \notin Passed => push[p].status = "sending" /\ copies[p] = 0
  BY DEF IInv, LeasesHold, CopiesMatch, Dispatching, InTransaction, TypeOK, Batch
<1>3. \A p \in work[w].rows : verdict[p] \in Passed => Outcome(w, p, verdict[p]) = push[p]
  BY DEF Passed, Outcome
<1>4. \A p \in work[w].rows : p \in Rows
  BY DEF IInv, TypeOK, Batch
<1>5. \A p \in work[w].rows : verdict[p] \notin Passed =>
        /\ Outcome(w, p, verdict[p]) \in PushRow /\ Outcome(w, p, verdict[p]).lease = None
        /\ verdict[p] = "ticketed" => Outcome(w, p, verdict[p]).status = "ticketed"
        /\ verdict[p] # "ticketed" => Outcome(w, p, verdict[p]).status \in {"suppressed", "retry", "failed"}
  BY <1>2, <1>4, OutcomeOfRow
<1>6. push' \in [Rows -> PushRow]
  BY <1>1, <1>3, <1>4, <1>5 DEF IInv, TypeOK
<1>7. copies' \in [Rows -> Nat]
  BY DEF IInv, TypeOK
<1>8. \A p \in Rows : Wrote(w, p)
  <2> SUFFICES ASSUME NEW p \in Rows PROVE Wrote(w, p)
    OBVIOUS
  <2>1. CASE p \notin work[w].rows
    BY <1>1, <2>1 DEF Wrote
  <2>2. CASE p \in work[w].rows /\ verdict[p] \in Passed
    <3>1. verdict[p] # "ticketed"
      BY <2>2 DEF Passed
    <3> QED  BY <1>1, <1>3, <2>2, <3>1 DEF Wrote
  <2>3. CASE p \in work[w].rows /\ verdict[p] \notin Passed
    <3>1. push'[p] = Outcome(w, p, verdict[p])
      BY <1>1, <2>3
    <3>2. push[p].lease = w /\ copies[p] = 0
      BY <1>2, <2>3
    <3>3. copies'[p] = IF verdict[p] = "ticketed" THEN 1 ELSE 0
      BY <2>3, <3>2
    <3> QED  BY <1>5, <2>3, <3>1, <3>2, <3>3 DEF Wrote
  <2> QED  BY <2>1, <2>2, <2>3
<1>9. lock' # w /\ \A v \in Workers \ {w} : InTransaction(v) <=> lock' = v
  BY <1>1, OnlyTheHolder, NoneAssumption DEF IInv
<1> QED  BY <1>1, <1>6, <1>7, <1>8, <1>9, IdleFits, RowsWritten

LEMMA SameDevices ==
  ASSUME IInv, UNCHANGED device
  PROVE  device' \in [Devices -> DeviceRow] /\ Fewer
BY DEF IInv, TypeOK, Fewer

LEMMA FenceStep ==
  ASSUME IInv, NEW w \in Workers, Fence(w)
  PROVE  IInv'
<1> DEFINE verdict == [p \in Rows |->
             IF p \notin work[w].rows \/ work[w].verdict[p] # "ready" THEN work[w].verdict[p]
             ELSE IF Fenced(w, p) THEN "fenced" ELSE "lost"]
<1>1. /\ work[w].pc = "checked" /\ UNCHANGED <<device, overdue, gone, copies, registrations, trouble>>
      /\ IF \E p \in work[w].rows : verdict[p] = "fenced"
           THEN /\ work' = [work EXCEPT ![w] = [@ EXCEPT !.pc = "flying", !.verdict = verdict]]
                /\ UNCHANGED <<push, lock>>
           ELSE Commit(w, verdict)
  BY DEF Fence, bounds
<1>2. work[w] \in Batch /\ InTransaction(w) /\ lock = w /\ \A v \in Workers \ {w} : ~InTransaction(v)
  BY <1>1, OnlyTheHolder DEF IInv, TypeOK, InTransaction
<1>3. \A p \in Rows : work[w].verdict[p] \in {"ready", "lost", "suppressed", "deferred", "retry"}
  BY <1>1, <1>2 DEF Batch, Verdicts, IInv, VerdictsFit
<1>4. /\ verdict \in [Rows -> Verdicts]
      /\ \A p \in Rows : p \notin work[w].rows \/ verdict[p] \notin {"ready", "failed"}
      /\ \A p \in work[w].rows : verdict[p] = "fenced" => Fenced(w, p)
  BY <1>2, <1>3 DEF Verdicts, Batch
<1>5. \A p \in work[w].rows : verdict[p] \notin {"ready", "lost"} => push[p].lease = w
  BY <1>2, <1>3, <1>4 DEF IInv, LeasesHold, Fenced, Batch
<1> HIDE DEF verdict
<1>6. CASE \E p \in work[w].rows : verdict[p] = "fenced"
  <2> DEFINE q == [work[w] EXCEPT !.pc = "flying", !.verdict = verdict]
  <2>1. work' = [work EXCEPT ![w] = q] /\ UNCHANGED <<push, lock>>
    BY <1>1, <1>6
  <2>2. /\ q \in Batch /\ q.pc = "flying" /\ q.rows = work[w].rows /\ q.verdict = verdict
        /\ q.token = work[w].token
    BY <1>2, <1>4 DEF Batch
  <2> HIDE DEF q
  <2>3. /\ work'[w] = q /\ \A v \in Workers \ {w} : work'[v] = work[v]
    BY <2>1 DEF IInv, TypeOK
  <2>4. SentToItsOwner'
    <3> SUFFICES ASSUME NEW v \in Workers, work'[v].pc = "flying", NEW p \in Flying(v)', NEW k \in Devices,
                        device'[k].live, device'[k].token = work'[v].token[p]
                 PROVE  k[1] = OwnerOf(p)
      BY DEF SentToItsOwner
    <3>1. v = w
      BY <1>2, <2>3 DEF InTransaction
    <3>2. p \in work[w].rows /\ verdict[p] = "fenced" /\ p \in Rows
      BY <1>2, <2>2, <2>3, <3>1 DEF Flying, Batch
    <3>3. device[DeviceOf(p)].live /\ device[DeviceOf(p)].token = work[w].token[p]
      BY <1>4, <3>2 DEF Fenced
    <3>4. device[k].live /\ device[k].token = work[w].token[p]
      BY <1>1, <2>2, <2>3, <3>1
    <3>5. k = DeviceOf(p)
      BY <3>2, <3>3, <3>4, RowsHaveDevices DEF IInv, OneAccountPerDevice
    <3> QED  BY <3>2, <3>5, RowsHaveDevices
  <2>5. /\ trouble' \in Nat /\ lock' \in Workers \cup {None} /\ lock' = w
        /\ \A v \in Workers \ {w} : InTransaction(v) <=> lock' = v
    BY <1>1, <1>2, <2>1 DEF IInv, TypeOK
  <2>6. Dispatching(w)
    BY <1>1 DEF Dispatching
  <2> QED  BY <1>1, <1>4, <1>5, <2>1, <2>2, <2>4, <2>5, <2>6, SameDevices, OnlyGoesOn
<1>7. CASE ~ \E p \in work[w].rows : verdict[p] = "fenced"
  <2>1. Commit(w, verdict)
    BY <1>1, <1>7
  <2>2. \A p \in work[w].rows : /\ verdict[p] \in Final /\ verdict[p] # "ticketed"
                                /\ verdict[p] \notin Passed => push[p].lease = w
    BY <1>2, <1>4, <1>5 DEF Verdicts, Final, Passed, Batch
  <2>3. copies' = [p \in Rows |-> IF p \in work[w].rows /\ verdict[p] = "ticketed"
                                    THEN copies[p] + 1 ELSE copies[p]]
    BY <1>1, <2>2 DEF IInv, TypeOK
  <2> QED  BY <1>1, <1>2, <2>1, <2>2, <2>3, SameDevices, Commits
<1> QED  BY <1>6, <1>7

\* What Expo answers is kept beside what the check decided.
LEMMA Resolved ==
  ASSUME IInv, NEW w \in Workers, work[w].pc = "flying", NEW answer,
         \A p \in Flying(w) : answer[p] \in {"again", "failed", "ticketed"}
  PROVE  \A p \in work[w].rows :
           /\ Resolve(w, answer)[p] \in Final
           /\ Resolve(w, answer)[p] \notin Passed => push[p].lease = w
           /\ Resolve(w, answer)[p] = "ticketed" <=> p \in Flying(w) /\ answer[p] = "ticketed"
<1> SUFFICES ASSUME NEW p \in work[w].rows
             PROVE  /\ Resolve(w, answer)[p] \in Final
                    /\ Resolve(w, answer)[p] \notin Passed => push[p].lease = w
                    /\ Resolve(w, answer)[p] = "ticketed" <=> p \in Flying(w) /\ answer[p] = "ticketed"
  OBVIOUS
<1>1. p \in Rows /\ work[w].verdict[p] \in Verdicts
  BY DEF IInv, TypeOK, Batch
<1>2. work[w].verdict[p] \notin {"ready", "lost"} => push[p].lease = w
  BY <1>1 DEF IInv, LeasesHold, InTransaction
<1>3. Resolve(w, answer)[p] = IF p \in Flying(w) THEN answer[p] ELSE work[w].verdict[p]
  BY <1>1 DEF Resolve
<1>4. CASE p \in Flying(w)
  BY <1>2, <1>3, <1>4 DEF Flying, Final, Passed
<1>5. CASE p \notin Flying(w)
  BY <1>1, <1>2, <1>3, <1>5 DEF Flying, Final, Passed, Verdicts
<1> QED  BY <1>4, <1>5

LEMMA SendFailsStep ==
  ASSUME IInv, NEW w \in Workers, NEW v \in {"again", "failed"}, SendFails(w, v)
  PROVE  IInv'
<1> DEFINE answer == [p \in Flying(w) |-> v]
<1> DEFINE verdict == Resolve(w, answer)
<1>1. /\ work[w].pc = "flying" /\ Commit(w, verdict)
      /\ UNCHANGED <<device, overdue, gone, copies, registrations, trouble>>
  BY DEF SendFails, bounds
<1>2. \A p \in Flying(w) : answer[p] = v
  OBVIOUS
<1> HIDE DEF answer
<1>3. \A p \in work[w].rows : /\ verdict[p] \in Final /\ verdict[p] # "ticketed"
                              /\ verdict[p] \notin Passed => push[p].lease = w
  BY <1>1, <1>2, Resolved
<1> HIDE DEF verdict
<1>4. copies' = [p \in Rows |-> IF p \in work[w].rows /\ verdict[p] = "ticketed"
                                  THEN copies[p] + 1 ELSE copies[p]]
  BY <1>1, <1>3 DEF IInv, TypeOK
<1>5. InTransaction(w)
  BY <1>1 DEF InTransaction
<1> QED  BY <1>1, <1>3, <1>4, <1>5, SameDevices, Commits

LEMMA TicketsStep ==
  ASSUME IInv, NEW w \in Workers,
         NEW answer \in [Flying(w) -> {"ticketed", "gone", "failed", "again"}], Tickets(w, answer)
  PROVE  IInv'
<1> DEFINE lost == {p \in Flying(w) : answer[p] = "gone"}
<1> DEFINE told == [p \in Flying(w) |-> IF p \in lost THEN "failed" ELSE answer[p]]
<1> DEFINE verdict == Resolve(w, told)
<1>1. /\ work[w].pc = "flying" /\ Commit(w, verdict)
      /\ device' = [k \in Devices |->
           IF \E p \in lost : DeviceOf(p) = k /\ device[k].token = work[w].token[p]
             THEN [device[k] EXCEPT !.live = FALSE] ELSE device[k]]
      /\ copies' = [p \in Rows |->
           IF p \in Flying(w) /\ answer[p] = "ticketed" THEN copies[p] + 1 ELSE copies[p]]
      /\ UNCHANGED <<overdue, gone, registrations, trouble>>
  BY DEF Tickets, bounds
<1>2. \A p \in Flying(w) : /\ told[p] \in {"again", "failed", "ticketed"}
                           /\ told[p] = "ticketed" <=> answer[p] = "ticketed"
  OBVIOUS
<1>3. device' \in [Devices -> DeviceRow] /\ Fewer
  <2> DEFINE disowned == {k \in Devices :
        \E p \in lost : DeviceOf(p) = k /\ device[k].token = work[w].token[p]}
  <2>1. device' = [k \in Devices |->
          IF k \in disowned THEN [device[k] EXCEPT !.live = FALSE] ELSE device[k]]
    BY <1>1, Zenon
  <2> HIDE DEF disowned
  <2>2. device \in [Devices -> DeviceRow]
    BY DEF IInv, TypeOK
  <2> QED  BY <2>1, <2>2 DEF DeviceRow, Fewer
<1> HIDE DEF told, lost
<1>4. \A p \in work[w].rows : /\ verdict[p] \in Final
                              /\ verdict[p] \notin Passed => push[p].lease = w
                              /\ verdict[p] = "ticketed" <=> p \in Flying(w) /\ told[p] = "ticketed"
  BY <1>1, <1>2, Resolved
<1> HIDE DEF verdict
<1>5. copies' = [p \in Rows |-> IF p \in work[w].rows /\ verdict[p] = "ticketed"
                                  THEN copies[p] + 1 ELSE copies[p]]
  <2>1. \A p \in Flying(w) : p \in work[w].rows
    BY DEF Flying
  <2> QED  BY <1>1, <1>2, <1>4, <2>1
<1>6. InTransaction(w)
  BY <1>1 DEF InTransaction
<1> QED  BY <1>1, <1>3, <1>4, <1>5, <1>6, Commits

----------------------------------------------------------------------------
(* Receipts.                                                               *)

\* One statement for one row; then the worker goes on to the next.
LEMMA ReceiptWritten ==
  ASSUME IInv, NEW w \in Workers, NEW p \in work[w].rows, work[w].pc = "receipts",
         NEW row \in PushRow, row.lease = None, Record(w, p, row), Done(w, p),
         copies' \in [Rows -> Nat], \A r \in Rows \ {p} : copies'[r] = copies[r],
         push[p].lease # w => copies'[p] = copies[p],
         push[p].lease = w =>
           \/ row.status = "retry" /\ copies'[p] = 0
           \/ row.status \in {"ticketed", "provider_accepted"} /\ copies'[p] = 1
           \/ row.status = "failed" /\ copies'[p] \in {0, 1},
         UNCHANGED <<device, lock, overdue, gone, registrations, trouble>>
  PROVE  IInv'
<1> DEFINE q == IF work[w].rows = {p} THEN Idle ELSE [work[w] EXCEPT !.rows = @ \ {p}]
<1>1. work' = [work EXCEPT ![w] = q] /\ work[w] \in Batch /\ p \in Rows
  BY DEF Done, IInv, TypeOK, Batch
<1>2. /\ q \in Batch /\ q.rows \subseteq work[w].rows
      /\ q.pc \in {"idle", "receipts"}
      /\ q.pc = "receipts" => work[w].pc = "receipts"
      /\ \A r \in Rows : q.verdict[r] = IF q.pc = "idle" THEN "ready" ELSE work[w].verdict[r]
  <2>1. CASE work[w].rows = {p}
    BY <2>1, IdleFits
  <2>2. CASE work[w].rows # {p}
    BY <1>1, <2>2 DEF Batch
  <2> QED  BY <2>1, <2>2
<1> HIDE DEF q
<1>3. push' \in [Rows -> PushRow] /\ \A r \in Rows : Wrote(w, r)
  <2>1. CASE push[p].lease = w
    <3>1. push' = [push EXCEPT ![p] = row]
      BY <2>1 DEF Record
    <3>2. push' \in [Rows -> PushRow] /\ push'[p] = row /\ \A r \in Rows \ {p} : push'[r] = push[r]
      BY <1>1, <3>1 DEF IInv, TypeOK
    <3> QED  BY <2>1, <3>2 DEF Wrote
  <2>2. CASE push[p].lease # w
    <3>1. push' = push
      BY <2>2 DEF Record
    <3> QED  BY <2>2, <3>1 DEF Wrote, IInv, TypeOK
  <2> QED  BY <2>1, <2>2
<1>4. /\ lock' \in Workers \cup {None} /\ lock' # w
      /\ \A v \in Workers \ {w} : InTransaction(v) <=> lock' = v
  BY DEF IInv, TypeOK, InTransaction
<1> QED  BY <1>1, <1>2, <1>3, <1>4, SameDevices, RowsWritten

\* Its row, if it is still the worker's, is one that Expo has.
LEMMA RowAsked ==
  ASSUME IInv, NEW w \in Workers, NEW p \in work[w].rows, work[w].pc = "receipts"
  PROVE  /\ p \in Rows /\ push[p] \in PushRow /\ copies \in [Rows -> Nat]
         /\ push[p].lease = w => copies[p] = 1
<1>1. p \in Rows
  BY DEF IInv, TypeOK, Batch
<1> QED  BY <1>1 DEF IInv, TypeOK, LeasesHold, CopiesMatch

LEMMA ReceiptSettlesStep ==
  ASSUME IInv, NEW w \in Workers, NEW p \in work[w].rows, NEW s \in {"provider_accepted", "failed"},
         work[w].pc = "receipts", Record(w, p, Settle(push[p], s)), Done(w, p),
         UNCHANGED <<device, lock, overdue, gone, copies, registrations, trouble>>
  PROVE  IInv'
<1>1. /\ Settle(push[p], s) \in PushRow /\ Settle(push[p], s).status = s
      /\ Settle(push[p], s).lease = None
  BY RowAsked, SettledFits
<1>2. /\ copies' \in [Rows -> Nat] /\ \A r \in Rows : copies'[r] = copies[r]
      /\ push[p].lease = w => copies'[p] = 1
  BY RowAsked
<1>3. p \in Rows
  BY RowAsked
<1> QED  BY <1>1, <1>2, <1>3, ReceiptWritten

LEMMA RetriedFits ==
  ASSUME NEW row \in PushRow
  PROVE  /\ Retry(row) \in PushRow /\ Retry(row).lease = None
         /\ Retry(row).status \in {"failed", "retry"}
         /\ RetryReceipt(row) \in PushRow /\ RetryReceipt(row).lease = None
         /\ RetryReceipt(row).status \in {"failed", "ticketed"}
<1>1. Retry(row) \in PushRow /\ Retry(row).lease = None /\ Retry(row).status \in {"failed", "retry"}
  BY DEF Retry, PushRow
<1>2. /\ RetryReceipt(row) \in PushRow /\ RetryReceipt(row).lease = None
      /\ RetryReceipt(row).status \in {"failed", "ticketed"}
  BY DEF RetryReceipt, PushRow
<1> QED  BY <1>1, <1>2

LEMMA ReceiptPendingStep ==
  ASSUME IInv, NEW w \in Workers, NEW p \in work[w].rows, ReceiptPending(w, p)
  PROVE  IInv'
<1>1. /\ work[w].pc = "receipts" /\ Record(w, p, RetryReceipt(push[p])) /\ Done(w, p)
      /\ UNCHANGED <<device, lock, overdue, gone, copies, registrations, trouble>>
  BY DEF ReceiptPending, Asked, bounds
<1> DEFINE row == RetryReceipt(push[p])
<1>2. row \in PushRow /\ row.status \in {"failed", "ticketed"} /\ row.lease = None
  BY <1>1, RowAsked, RetriedFits
<1>3. /\ p \in Rows /\ copies' \in [Rows -> Nat] /\ \A r \in Rows : copies'[r] = copies[r]
      /\ push[p].lease = w => copies'[p] = 1
  BY <1>1, RowAsked
<1> HIDE DEF row
<1> QED  BY <1>1, <1>2, <1>3, ReceiptWritten DEF row

LEMMA ReceiptRateExceededStep ==
  ASSUME IInv, NEW w \in Workers, NEW p \in work[w].rows, ReceiptRateExceeded(w, p)
  PROVE  IInv'
<1>1. /\ work[w].pc = "receipts" /\ Record(w, p, Retry(push[p])) /\ Done(w, p)
      /\ copies' = IF push[p].lease = w THEN [copies EXCEPT ![p] = @ - 1] ELSE copies
      /\ UNCHANGED <<device, lock, overdue, gone, registrations, trouble>>
  BY DEF ReceiptRateExceeded, Asked, bounds
<1> DEFINE row == Retry(push[p])
<1>2. row \in PushRow /\ row.status \in {"failed", "retry"} /\ row.lease = None
  BY <1>1, RowAsked, RetriedFits
<1>3. /\ p \in Rows /\ copies' \in [Rows -> Nat] /\ \A r \in Rows \ {p} : copies'[r] = copies[r]
      /\ push[p].lease = w => copies'[p] = 0
      /\ push[p].lease # w => copies'[p] = copies[p]
  BY <1>1, RowAsked
<1> HIDE DEF row
<1> QED  BY <1>1, <1>2, <1>3, ReceiptWritten DEF row

LEMMA ReceiptStep ==
  ASSUME IInv, NEW w \in Workers, Receipt(w)
  PROVE  IInv'
<1> PICK p \in work[w].rows :
      \/ \E s \in {"provider_accepted", "failed"} : ReceiptSettles(w, p, s)
      \/ ReceiptPending(w, p) \/ ReceiptRateExceeded(w, p)
      \/ ReceiptRevokes(w, p) \/ ReceiptFails(w, p)
  BY DEF Receipt
<1>1. CASE \E s \in {"provider_accepted", "failed"} : ReceiptSettles(w, p, s)
  BY <1>1, ReceiptSettlesStep DEF ReceiptSettles, Asked, bounds
<1>2. CASE ReceiptFails(w, p)
  BY <1>2, ReceiptSettlesStep DEF ReceiptFails, bounds
<1> QED
  BY <1>1, <1>2, ReceiptPendingStep, ReceiptRateExceededStep, ReceiptRevokesStep

----------------------------------------------------------------------------
(* Every behaviour.                                                        *)

LEMMA InitHolds ==
  ASSUME Init
  PROVE  IInv
<1>1. NoDevice \in DeviceRow /\ ~NoDevice.live
  BY DEF NoDevice, DeviceRow
<1>2. /\ device \in [Devices -> DeviceRow]
      /\ \A j, k \in Devices : device[j].live /\ device[k].live => j = k
  <2>1. CASE device = [k \in Devices |-> NoDevice]
    BY <1>1, <2>1
  <2>2. CASE \E k \in Devices, t \in Tokens, bound \in BOOLEAN :
               device = [[j \in Devices |-> NoDevice] EXCEPT
                 ![k] = [token |-> t, live |-> TRUE, front |-> FALSE, on |-> TRUE, bound |-> bound]]
    BY <1>1, <2>2 DEF DeviceRow
  <2> QED  BY <2>1, <2>2 DEF Init
<1>3. NoPush \in PushRow /\ NoPush.status = "none" /\ NoPush.lease = None
  BY DEF NoPush, PushRow
<1>4. /\ push = [p \in Rows |-> NoPush] /\ lock = None /\ work = [w \in Workers |-> Idle]
      /\ overdue = {} /\ gone = {} /\ copies = [p \in Rows |-> 0]
      /\ registrations = 0 /\ trouble = 0
  BY DEF Init
<1>5. TypeOK
  BY <1>2, <1>3, <1>4, IdleFits, NoneAssumption DEF TypeOK, InTransaction
<1>6. LeasesHold /\ VerdictsFit /\ CopiesMatch
  BY <1>3, <1>4, IdleFits DEF LeasesHold, VerdictsFit, CopiesMatch, Unsent
<1>7. OneAccountPerDevice /\ SentToItsOwner
  BY <1>2, <1>4, IdleFits DEF OneAccountPerDevice, SentToItsOwner
<1> QED  BY <1>5, <1>6, <1>7 DEF IInv

LEMMA NextKeeps ==
  ASSUME IInv, [Next]_vars
  PROVE  IInv'
<1>1. CASE Environment
  BY <1>1, RegisterStep, RevokeStep, OutsideSteps DEF Environment
<1>2. CASE \E e \in Events, u \in Users, front \in BOOLEAN : Notify(e, u, front)
  BY <1>2, NotifyStep
<1>3. ASSUME NEW w \in Workers, Step(w)
      PROVE  IInv'
  BY <1>3, ClaimStep, ClaimReceiptsStep, CheckStep, FenceStep, SendFailsStep, TicketsStep, ReceiptStep
     DEF Step, Answered
<1>4. CASE UNCHANGED vars
  <2>1. UNCHANGED <<device, push, lock, work, overdue, gone, copies, registrations, trouble>>
    BY <1>4 DEF vars, bounds
  <2>2. TypeOK' /\ LeasesHold' /\ VerdictsFit' /\ CopiesMatch'
    BY <2>1 DEF IInv, TypeOK, LeasesHold, VerdictsFit, CopiesMatch, Dispatching, InTransaction
  <2>3. OneAccountPerDevice' /\ SentToItsOwner'
    BY <2>1 DEF IInv, OneAccountPerDevice, SentToItsOwner, Flying
  <2> QED  BY <2>2, <2>3 DEF IInv
<1> QED  BY <1>1, <1>2, <1>3, <1>4, DieStep DEF Next

THEOREM Invariance == Spec => []IInv
<1>1. Init => IInv
  BY InitHolds
<1>2. IInv /\ [Next]_vars => IInv'
  BY NextKeeps
<1> QED  BY <1>1, <1>2, PTL DEF Spec

\* The variables have their types; a row has a lease exactly while a worker is to
\* answer for it, and the lock is held exactly inside a dispatching transaction.
THEOREM TypeCorrect == Spec => []TypeOK
<1>1. IInv => TypeOK
  BY DEF IInv
<1> QED  BY <1>1, Invariance, PTL

\* Between the fence and Expo's answer nobody else comes to own the token a message
\* went to: processPushBatch and upsertMobileDevice exclude each other.
THEOREM SentToItsOwnerAlways == Spec => []SentToItsOwner
<1>1. IInv => SentToItsOwner
  BY DEF IInv
<1> QED  BY <1>1, Invariance, PTL

\* An installation and a token serve one account at a time.
THEOREM OneAccountPerDeviceAlways == Spec => []OneAccountPerDevice
<1>1. IInv => OneAccountPerDevice
  BY DEF IInv
<1> QED  BY <1>1, Invariance, PTL

LEMMA OneCopy == IInv => OneCopyKept
<1> SUFFICES ASSUME IInv, NEW p \in Rows PROVE copies[p] <= 1
  BY DEF OneCopyKept
<1>1. push[p].status \in {"none", "queued", "sending", "ticketed", "checking", "provider_accepted",
                          "retry", "failed", "suppressed"}
  BY DEF IInv, TypeOK, PushRow
<1> QED  BY <1>1 DEF IInv, CopiesMatch, Unsent

\* However often a batch outlives its lease or its worker dies, Expo keeps at most one
\* ticket of a row.
THEOREM OneCopyKeptAlways == Spec => []OneCopyKept
BY OneCopy, Invariance, PTL

----------------------------------------------------------------------------
(* What Expo says of a token touches only a device that has that token.    *)

Disowned == \A k \in Devices : device[k].live /\ ~device'[k].live => device[k].token \in gone

LEMMA DeviceStays ==
  ASSUME UNCHANGED device
  PROVE  Disowned
BY DEF Disowned

LEMMA TicketsDisown ==
  ASSUME IInv, NEW w \in Workers,
         NEW answer \in [Flying(w) -> {"ticketed", "gone", "failed", "again"}], Tickets(w, answer)
  PROVE  Disowned
<1> SUFFICES ASSUME NEW k \in Devices, device[k].live, ~device'[k].live
             PROVE  device[k].token \in gone
  BY DEF Disowned
<1> DEFINE lost == {p \in Flying(w) : answer[p] = "gone"}
<1>1. device'[k] = IF \E p \in lost : DeviceOf(p) = k /\ device[k].token = work[w].token[p]
                     THEN [device[k] EXCEPT !.live = FALSE] ELSE device[k]
  BY DEF Tickets
<1>2. PICK p \in lost : device[k].token = work[w].token[p]
  BY <1>1
<1> QED  BY <1>2 DEF Tickets

LEMMA ReceiptDisowns ==
  ASSUME IInv, NEW w \in Workers, Receipt(w)
  PROVE  Disowned
<1> PICK p \in work[w].rows :
      \/ \E s \in {"provider_accepted", "failed"} : ReceiptSettles(w, p, s)
      \/ ReceiptPending(w, p) \/ ReceiptRateExceeded(w, p)
      \/ ReceiptRevokes(w, p) \/ ReceiptFails(w, p)
  BY DEF Receipt
<1>1. CASE ReceiptRevokes(w, p)
  <2>1. work[w].token[p] \in gone /\ device' = RevokeByToken(DeviceOf(p), work[w].token[p])
    BY <1>1 DEF ReceiptRevokes
  <2> QED  BY <2>1 DEF Disowned, RevokeByToken, IInv, TypeOK, DeviceRow
<1>2. CASE ~ReceiptRevokes(w, p)
  BY <1>2, DeviceStays DEF ReceiptSettles, ReceiptPending, ReceiptRateExceeded, ReceiptFails
<1> QED  BY <1>1, <1>2

LEMMA NextDisowns ==
  ASSUME IInv, Next, work' # work
  PROVE  Disowned
<1>1. CASE Environment
  BY <1>1 DEF Environment, Register, Revoke, GraceEnds, Uninstall
<1>2. CASE \E e \in Events, u \in Users, front \in BOOLEAN : Notify(e, u, front)
  BY <1>2 DEF Notify
<1>3. ASSUME NEW w \in Workers, Step(w) \/ Die(w)
      PROVE  Disowned
  <2>1. CASE \/ \E S \in SUBSET Rows : Claim(w, S) \/ ClaimReceipts(w, S)
             \/ \E quiet, sealed \in BOOLEAN : Check(w, quiet, sealed)
             \/ Fence(w) \/ Die(w) \/ \E v \in {"again", "failed"} : SendFails(w, v)
    BY <2>1, DeviceStays DEF Claim, ClaimReceipts, Check, Fence, Die, SendFails
  <2>2. CASE Receipt(w)
    BY <2>2, ReceiptDisowns
  <2> QED  BY <1>3, <2>1, <2>2, TicketsDisown DEF Step, Answered
<1> QED  BY <1>1, <1>2, <1>3 DEF Next

\* A late answer about the token a device had before it registered again leaves that
\* device alone: what a worker learns revokes by token.
THEOREM NewTokenSurvivesAlways == Spec => NewTokenSurvives
<1>1. IInv /\ [Next]_vars =>
        [work' # work => \A k \in Devices :
           device[k].live /\ ~device'[k].live => device[k].token \in gone]_vars
  BY NextDisowns DEF Disowned, vars
<1> QED  BY <1>1, Invariance, PTL DEF Spec, NewTokenSurvives

----------------------------------------------------------------------------
(* Reminders: the inductive invariant.                                     *)

ReminderRow == [status : {"none", "scheduled", "delivered", "cancelled"},
                owner : Users \cup {None}, text : Texts \cup {None}, due : Nat, revision : Nat]
JobRow == [status : {"none", "queued", "running", "done", "dead"}, at : Nat, attempts : Nat]
ErrandRow == [pc : {"idle", "read", "deliver", "telegram", "complete"},
              reminder : Explicit \cup {None}, revision : Nat, text : Texts \cup {None}]

\* The shape of the rows, of the errands and of what was said.
ReminderTypes ==
  /\ now \in Nat
  /\ reminder \in [Explicit -> ReminderRow]
  /\ job \in [Explicit -> [Revisions -> JobRow]]
  /\ courier \in [Workers -> ErrandRow]
  /\ inbox \in [Explicit -> Seq(Texts \cup {None})]
  /\ telegrams \in [Explicit -> Nat]

Scheduled(r, n) == reminder[r].status = "scheduled" /\ reminder[r].revision = n

\* A reminder that is to come is whole, and has a revision that can have a job.
ScheduledIsWhole ==
  \A r \in Explicit : reminder[r].status = "scheduled" =>
    reminder[r].owner \in Users /\ reminder[r].text \in Texts /\ reminder[r].revision \in Revisions

\* There is no job for a revision that does not exist yet.
NoJobAhead ==
  \A r \in Explicit, n \in Revisions : job[r][n].status # "none" =>
    reminder[r].status # "none" /\ n <= reminder[r].revision

\* What a worker runs is running, was due when it was claimed, and is run by it alone.
ErrandsRun ==
  \A w \in Workers : courier[w].pc # "idle" =>
    /\ courier[w].reminder \in Explicit /\ courier[w].revision \in Revisions
    /\ job[courier[w].reminder][courier[w].revision].status = "running"
    /\ job[courier[w].reminder][courier[w].revision].at <= now
OneErrandEach ==
  \A v, w \in Workers :
    /\ courier[v].pc # "idle" /\ courier[w].pc # "idle"
    /\ courier[v].reminder = courier[w].reminder /\ courier[v].revision = courier[w].revision
    => v = w

\* What a worker read is still what its revision says; what it is done with is no
\* longer to come; what it is about to repeat to Telegram was not repeated yet.
Knows(q) ==
  /\ q.pc = "deliver" /\ Scheduled(q.reminder, q.revision) => q.text = reminder[q.reminder].text
  /\ q.pc \in {"telegram", "complete"} => ~Scheduled(q.reminder, q.revision)
  /\ q.pc = "telegram" => /\ reminder[q.reminder].status = "delivered"
                          /\ reminder[q.reminder].revision = q.revision
                          /\ telegrams[q.reminder] = 0
ErrandsKnow == \A w \in Workers : Knows(courier[w])

RInv ==
  /\ IInv /\ ReminderTypes /\ ScheduledIsWhole /\ NoJobAhead
  /\ ErrandsRun /\ OneErrandEach /\ ErrandsKnow
  /\ ScheduledKeepsItsJob /\ SaidAsItStands

----------------------------------------------------------------------------
(* What pushing and reminding leave alone of each other.                   *)

PushRest == <<device, lock, work, overdue, gone, copies, registrations>>

\* Trouble of the other half is nothing to the outbox.
LEMMA OutboxRests ==
  ASSUME IInv, UNCHANGED PushRest, UNCHANGED push, trouble' \in Nat
  PROVE  IInv'
<1>1. TypeOK' /\ LeasesHold' /\ VerdictsFit' /\ CopiesMatch'
  BY DEF PushRest, IInv, TypeOK, LeasesHold, VerdictsFit, CopiesMatch, Dispatching, InTransaction
<1>2. OneAccountPerDevice' /\ SentToItsOwner'
  BY DEF PushRest, IInv, OneAccountPerDevice, SentToItsOwner, Flying
<1> QED  BY <1>1, <1>2 DEF IInv

\* A row that a worker's transaction settles has a lease, so it is there.
LEMMA SettledRowsAreThere ==
  ASSUME IInv, NEW w \in Workers, NEW verdict, Commit(w, verdict), NEW p \in Rows,
         p \in work[w].rows => \/ push[p].lease = w \/ verdict[p] \in {"ready", "lost", "fenced"},
         push[p].status = "none"
  PROVE  push'[p].status = "none"
<1>1. push[p].lease = None /\ w # None
  BY NoneAssumption DEF IInv, TypeOK
<1>2. push'[p] = IF p \in work[w].rows THEN Outcome(w, p, verdict[p]) ELSE push[p]
  BY DEF Commit
<1>3. verdict[p] \in {"ready", "lost", "fenced"} => Outcome(w, p, verdict[p]) = push[p]
  BY DEF Outcome
<1> QED  BY <1>1, <1>2, <1>3

\* Only an event makes rows: the steps of registrations, phones and workers make none.
LEMMA PushingMakesNoRow ==
  ASSUME IInv, Environment \/ (\E w \in Workers : Step(w) \/ Die(w)),
         NEW p \in Rows, push[p].status = "none"
  PROVE  push'[p].status = "none"
<1>0. push[p].lease = None /\ None \notin Workers /\ "none" \notin Unsent
  BY NoneAssumption DEF IInv, TypeOK, Unsent
<1>1. CASE Environment
  BY <1>0, <1>1 DEF Environment, Register, Registered, Revoke, GraceEnds, Uninstall, bounds
<1>2. ASSUME NEW w \in Workers, NEW S \in SUBSET Rows, Claim(w, S) \/ ClaimReceipts(w, S)
      PROVE  push'[p].status = "none"
  BY <1>0, <1>2 DEF Claim, ClaimReceipts
<1>3. ASSUME NEW w \in Workers, Die(w) \/ \E quiet, sealed \in BOOLEAN : Check(w, quiet, sealed)
      PROVE  push'[p].status = "none"
  BY <1>3 DEF Die, Check
<1>4. ASSUME NEW w \in Workers, InTransaction(w), p \in work[w].rows,
             work[w].verdict[p] \notin {"ready", "lost"}
      PROVE  push[p].lease = w
  BY <1>4 DEF IInv, LeasesHold
<1>5. ASSUME NEW w \in Workers, Fence(w)
      PROVE  push'[p].status = "none"
  <2> DEFINE verdict == [q \in Rows |->
           IF q \notin work[w].rows \/ work[w].verdict[q] # "ready" THEN work[w].verdict[q]
           ELSE IF Fenced(w, q) THEN "fenced" ELSE "lost"]
  <2>1. push' = push \/ Commit(w, verdict)
    BY <1>5 DEF Fence
  <2>2. p \in work[w].rows => push[p].lease = w \/ verdict[p] \in {"ready", "lost", "fenced"}
    BY <1>4, <1>5 DEF Fence, InTransaction
  <2> HIDE DEF verdict
  <2> QED  BY <2>1, <2>2, SettledRowsAreThere
<1>6. ASSUME NEW w \in Workers, Answered(w)
      PROVE  push'[p].status = "none"
  <2>1. work[w].pc = "flying" /\ InTransaction(w)
    BY <1>6 DEF Answered, SendFails, InTransaction
  <2>2. \E answer : Commit(w, Resolve(w, answer))
    BY <1>6 DEF Answered, SendFails, Tickets
  <2> PICK answer : Commit(w, Resolve(w, answer))
    BY <2>2
  <2>3. p \in work[w].rows => push[p].lease = w \/ Resolve(w, answer)[p] \in {"ready", "lost", "fenced"}
    BY <1>4, <2>1 DEF Resolve, Flying
  <2> QED  BY <2>3, SettledRowsAreThere
<1>7. ASSUME NEW w \in Workers, Receipt(w)
      PROVE  push'[p].status = "none"
  <2>1. \E q \in work[w].rows : push' = push \/ \E row : Record(w, q, row)
    BY <1>7 DEF Receipt, ReceiptSettles, ReceiptPending, ReceiptRateExceeded, ReceiptRevokes, ReceiptFails
  <2> QED  BY <1>0, <2>1 DEF Record, IInv, TypeOK
<1> QED  BY <1>1, <1>2, <1>3, <1>5, <1>6, <1>7 DEF Step

----------------------------------------------------------------------------
(* Every step keeps the invariant of reminders.                            *)

\* What is said stays said while neither half says anything.
LEMMA NothingSaid ==
  ASSUME SaidAsItStands, UNCHANGED <<push, inbox, telegrams>>,
         \A r \in Explicit : /\ reminder'[r].status = "delivered" <=> reminder[r].status = "delivered"
                             /\ reminder[r].status = "delivered" => reminder'[r] = reminder[r]
  PROVE  SaidAsItStands'
BY DEF SaidAsItStands

\* The outbox goes on beside the reminders.
LEMMA PushingStep ==
  ASSUME RInv, Pushing
  PROVE  RInv'
<1>1. UNCHANGED <<now, reminder, job, courier, inbox, telegrams>>
  BY DEF Pushing, reminderVars
<1>2. Environment \/ \E w \in Workers : Step(w) \/ Die(w)
  BY DEF Pushing
<1>3. IInv'
  BY <1>2, NextKeeps DEF RInv, Next
<1>4. \A p \in Rows : push[p].status = "none" => push'[p].status = "none"
  BY <1>2, PushingMakesNoRow DEF RInv
<1>5. SaidAsItStands'
  BY <1>1, <1>4 DEF RInv, SaidAsItStands
<1>6. /\ ReminderTypes' /\ ScheduledIsWhole' /\ NoJobAhead' /\ ScheduledKeepsItsJob'
      /\ ErrandsRun' /\ OneErrandEach'
  BY <1>1 DEF RInv, ReminderTypes, ScheduledIsWhole, NoJobAhead, ScheduledKeepsItsJob,
     ErrandsRun, OneErrandEach
<1>7. ErrandsKnow'
  BY <1>1 DEF RInv, ErrandsKnow, Knows, Scheduled
<1> QED  BY <1>3, <1>5, <1>6, <1>7 DEF RInv

\* Time passes.
LEMMA TickStep ==
  ASSUME RInv, Tick
  PROVE  RInv'
<1>1. /\ UNCHANGED <<reminder, job, courier, inbox, telegrams>> /\ now' = now + 1 /\ now \in Nat
      /\ UNCHANGED PushRest /\ UNCHANGED push /\ trouble' = trouble
  BY DEF Tick, vars, bounds, PushRest, RInv, ReminderTypes
<1>2. IInv' /\ SaidAsItStands'
  BY <1>1, OutboxRests, NothingSaid DEF RInv, IInv, TypeOK
<1>3. ErrandsRun'
  <2> SUFFICES ASSUME NEW w \in Workers, courier[w].pc # "idle"
               PROVE  /\ courier[w].reminder \in Explicit /\ courier[w].revision \in Revisions
                      /\ job[courier[w].reminder][courier[w].revision].status = "running"
                      /\ job[courier[w].reminder][courier[w].revision].at <= now + 1
    BY <1>1 DEF ErrandsRun
  <2>1. job[courier[w].reminder][courier[w].revision].at \in Nat
    BY DEF RInv, ErrandsRun, ReminderTypes, JobRow
  <2> QED  BY <1>1, <2>1 DEF RInv, ErrandsRun
<1>4. ReminderTypes' /\ ScheduledIsWhole' /\ NoJobAhead' /\ ScheduledKeepsItsJob' /\ OneErrandEach'
  BY <1>1 DEF RInv, ReminderTypes, ScheduledIsWhole, NoJobAhead, ScheduledKeepsItsJob, OneErrandEach
<1>5. ErrandsKnow'
  BY <1>1 DEF RInv, ErrandsKnow, Knows, Scheduled
<1> QED  BY <1>2, <1>3, <1>4, <1>5 DEF RInv

\* A job runs because its time had come, so a worker whose revision is not due now runs
\* for a revision that is over.
LEMMA NotDueIsOver ==
  ASSUME RInv, NEW w \in Workers, courier[w].pc # "idle", ~Due(w)
  PROVE  ~Scheduled(courier[w].reminder, courier[w].revision)
<1> SUFFICES ASSUME Scheduled(courier[w].reminder, courier[w].revision) PROVE FALSE
  OBVIOUS
<1>1. PICK r, n : r = courier[w].reminder /\ n = courier[w].revision
  OBVIOUS
<1>2. r \in Explicit /\ n \in Revisions /\ job[r][n].at <= now
  BY <1>1 DEF RInv, ErrandsRun
<1>3. job[r][n].at >= reminder[r].due
  BY <1>1, <1>2 DEF RInv, ScheduledKeepsItsJob, Scheduled
<1>4. job[r][n].at \in Nat /\ reminder[r].due \in Nat /\ now \in Nat
  BY <1>2 DEF RInv, ReminderTypes, ReminderRow, JobRow
<1>5. reminder[r].due <= now
  BY <1>2, <1>3, <1>4
<1> QED  BY <1>1, <1>5 DEF Due, Scheduled

\* A step of an errand that writes nothing: the worker learns something, or lets go.
LEMMA ErrandGoesOn ==
  ASSUME RInv, UNCHANGED PushRest, UNCHANGED <<push, now, reminder, job, inbox, telegrams>>,
         trouble' \in Nat,
         NEW w \in Workers, NEW q \in ErrandRow, courier' = [courier EXCEPT ![w] = q],
         Knows(q), q.pc # "idle" => /\ courier[w].pc # "idle"
                                    /\ q.reminder = courier[w].reminder
                                    /\ q.revision = courier[w].revision
  PROVE  RInv'
<1>1. IInv' /\ SaidAsItStands'
  BY OutboxRests, NothingSaid DEF RInv
<1>2. courier \in [Workers -> ErrandRow]
  BY DEF RInv, ReminderTypes
<1>3. courier'[w] = q /\ \A v \in Workers \ {w} : courier'[v] = courier[v]
  BY <1>2
<1>4. ReminderTypes' /\ ScheduledIsWhole' /\ NoJobAhead' /\ ScheduledKeepsItsJob'
  BY <1>2 DEF RInv, ReminderTypes, ScheduledIsWhole, NoJobAhead, ScheduledKeepsItsJob
<1>5. ErrandsRun'
  BY <1>3 DEF RInv, ErrandsRun
<1>6. OneErrandEach'
  BY <1>3 DEF RInv, OneErrandEach
<1>7. ErrandsKnow'
  BY <1>3 DEF RInv, ErrandsKnow, Knows, Scheduled
<1> QED  BY <1>1, <1>4, <1>5, <1>6, <1>7 DEF RInv

LEMMA NoErrandFits == NoErrand \in ErrandRow /\ NoErrand.pc = "idle" /\ Knows(NoErrand)
<1>1. 1 \in Nat
  OBVIOUS
<1>2. NoErrand \in ErrandRow /\ NoErrand.pc = "idle"
  BY <1>1 DEF NoErrand, ErrandRow
<1> QED  BY <1>2 DEF Knows

\* A worker that finds its revision due remembers what to say; its job ran because the
\* revision it was made for was due, so what it does not find due was moved or is over.
LEMMA ReadBodyStep ==
  ASSUME RInv, NEW w \in Workers, ReadBody(w)
  PROVE  RInv'
<1> DEFINE r == courier[w].reminder
           n == courier[w].revision
           q == IF Due(w) THEN [courier[w] EXCEPT !.pc = "deliver", !.text = reminder[r].text]
                          ELSE [courier[w] EXCEPT !.pc = "complete"]
<1>1. /\ UNCHANGED PushRest /\ UNCHANGED <<push, now, reminder, job, inbox, telegrams>>
      /\ trouble' = trouble /\ courier' = [courier EXCEPT ![w] = q] /\ courier[w].pc = "read"
  BY DEF ReadBody, vars, bounds, PushRest
<1>2. /\ r \in Explicit /\ n \in Revisions /\ courier[w] \in ErrandRow /\ reminder[r] \in ReminderRow
      /\ job[r][n].at <= now
  BY <1>1 DEF RInv, ErrandsRun, ReminderTypes
<1>3. q \in ErrandRow /\ q.reminder = r /\ q.revision = n
  BY <1>2 DEF ErrandRow, ReminderRow
<1>4. Knows(q)
  <2>1. CASE Due(w)
    <3>1. q.pc = "deliver" /\ q.text = reminder[r].text
      BY <1>2, <2>1 DEF ErrandRow
    <3> QED  BY <1>3, <3>1 DEF Knows
  <2>2. CASE ~Due(w)
    <3>1. q.pc = "complete"
      BY <1>2, <2>2 DEF ErrandRow
    <3>2. ~Scheduled(r, n)
      BY <1>1, <2>2, NotDueIsOver
    <3> HIDE DEF q, r, n
    <3> QED  BY <1>3, <3>1, <3>2 DEF Knows
  <2> QED  BY <2>1, <2>2
<1> HIDE DEF q
<1> QED  BY <1>1, <1>3, <1>4, ErrandGoesOn DEF RInv, IInv, TypeOK

LEMMA DieOnErrandStep ==
  ASSUME RInv, NEW w \in Workers, DieOnErrand(w)
  PROVE  RInv'
<1>1. /\ UNCHANGED PushRest /\ UNCHANGED <<push, now, reminder, job, inbox, telegrams>>
      /\ trouble' \in Nat /\ courier' = [courier EXCEPT ![w] = NoErrand]
  BY DEF DieOnErrand, PushRest, RInv, IInv, TypeOK
<1> QED  BY <1>1, NoErrandFits, ErrandGoesOn

\* A job that is written leaves every other job alone.
LEMMA JobWritten ==
  ASSUME ReminderTypes, NEW r \in Explicit, NEW n \in Revisions, NEW row \in JobRow,
         job' = [job EXCEPT ![r][n] = row]
  PROVE  /\ job' \in [Explicit -> [Revisions -> JobRow]]
         /\ job'[r][n] = row
         /\ \A s \in Explicit, m \in Revisions : s # r \/ m # n => job'[s][m] = job[s][m]
BY DEF ReminderTypes

\* An errand is over: its job is queued again, given up, or done because its revision is
\* no longer to come.
LEMMA ErrandEnds ==
  ASSUME RInv, UNCHANGED PushRest, UNCHANGED <<push, now, reminder, inbox, telegrams>>,
         trouble' \in Nat, NEW w \in Workers, courier[w].pc # "idle",
         NEW s \in {"queued", "done", "dead"}, NEW at \in Nat,
         at >= job[courier[w].reminder][courier[w].revision].at,
         job' = [job EXCEPT ![courier[w].reminder][courier[w].revision] =
                   [job[courier[w].reminder][courier[w].revision] EXCEPT !.status = s, !.at = at]],
         s = "done" => ~Scheduled(courier[w].reminder, courier[w].revision),
         courier' = [courier EXCEPT ![w] = NoErrand]
  PROVE  RInv'
<1>0. PICK r, n, row : r = courier[w].reminder /\ n = courier[w].revision
                       /\ row = [job[r][n] EXCEPT !.status = s, !.at = at]
  OBVIOUS
<1>1. r \in Explicit /\ n \in Revisions /\ job[r][n].status = "running" /\ job[r][n] \in JobRow
  BY <1>0 DEF RInv, ErrandsRun, ReminderTypes
<1>2. row \in JobRow /\ row.status = s /\ row.at = at /\ row.at >= job[r][n].at
  BY <1>0, <1>1 DEF JobRow
<1>3. job' = [job EXCEPT ![r][n] = row]
  BY <1>0
<1>4. /\ job' \in [Explicit -> [Revisions -> JobRow]] /\ job'[r][n] = row
      /\ \A t \in Explicit, m \in Revisions : t # r \/ m # n => job'[t][m] = job[t][m]
  <2>1. ReminderTypes
    BY DEF RInv
  <2>2. r \in Explicit /\ n \in Revisions /\ row \in JobRow
    BY <1>1, <1>2
  <2> QED  BY ONLY <1>3, <2>1, <2>2, JobWritten
<1>5. courier' \in [Workers -> ErrandRow] /\ courier'[w] = NoErrand
      /\ \A v \in Workers \ {w} : courier'[v] = courier[v]
  BY NoErrandFits DEF RInv, ReminderTypes
<1>6. IInv' /\ SaidAsItStands'
  BY OutboxRests, NothingSaid DEF RInv
<1>7. ReminderTypes' /\ ScheduledIsWhole'
  BY <1>4, <1>5 DEF RInv, ReminderTypes, ScheduledIsWhole
<1>8. NoJobAhead'
  BY <1>1, <1>4 DEF RInv, NoJobAhead
<1>9. ScheduledKeepsItsJob'
  <2> SUFFICES ASSUME NEW t \in Explicit, reminder[t].status = "scheduled"
               PROVE  /\ job'[t][reminder[t].revision].status \in {"queued", "running", "dead"}
                      /\ job'[t][reminder[t].revision].at >= reminder[t].due
    BY DEF ScheduledKeepsItsJob
  <2>1. reminder[t].revision \in Revisions
    BY DEF RInv, ScheduledIsWhole
  <2>2. CASE t = r /\ reminder[t].revision = n
    <3>1. job[r][n].at >= reminder[t].due /\ reminder[t].due \in Nat /\ job[r][n].at \in Nat
      BY <1>1, <2>2 DEF RInv, ScheduledKeepsItsJob, ReminderTypes, ReminderRow, JobRow
    <3>2. row.at >= reminder[t].due
      BY <1>2, <3>1
    <3>3. row.status \in {"queued", "dead"}
      BY <1>0, <1>2, <2>2 DEF Scheduled
    <3> QED  BY <1>4, <2>2, <3>2, <3>3
  <2>3. CASE t # r \/ reminder[t].revision # n
    BY <1>4, <2>1, <2>3 DEF RInv, ScheduledKeepsItsJob
  <2> QED  BY <2>2, <2>3
<1>10. ErrandsRun'
  <2> SUFFICES ASSUME NEW v \in Workers, courier'[v].pc # "idle"
               PROVE  /\ courier'[v].reminder \in Explicit /\ courier'[v].revision \in Revisions
                      /\ job'[courier'[v].reminder][courier'[v].revision].status = "running"
                      /\ job'[courier'[v].reminder][courier'[v].revision].at <= now
    BY DEF ErrandsRun
  <2>1. v # w /\ courier'[v] = courier[v]
    BY <1>5, NoErrandFits
  <2>2. courier[v].reminder # r \/ courier[v].revision # n
    BY <1>0, <2>1 DEF RInv, OneErrandEach
  <2>3. /\ courier[v].reminder \in Explicit /\ courier[v].revision \in Revisions
        /\ job[courier[v].reminder][courier[v].revision].status = "running"
        /\ job[courier[v].reminder][courier[v].revision].at <= now
    BY <2>1 DEF RInv, ErrandsRun
  <2> QED  BY ONLY <1>4, <2>1, <2>2, <2>3
<1>11. OneErrandEach'
  BY <1>5, NoErrandFits DEF RInv, OneErrandEach
<1>12. ErrandsKnow'
  BY <1>5, NoErrandFits DEF RInv, ErrandsKnow, Knows, Scheduled
<1> QED  BY <1>6, <1>7, <1>8, <1>9, <1>10, <1>11, <1>12 DEF RInv

LEMMA CompleteJobStep ==
  ASSUME RInv, NEW w \in Workers, CompleteJob(w)
  PROVE  RInv'
<1>1. /\ UNCHANGED PushRest /\ UNCHANGED <<push, now, reminder, inbox, telegrams>>
      /\ trouble' = trouble /\ courier[w].pc = "complete"
      /\ courier' = [courier EXCEPT ![w] = NoErrand]
  BY DEF CompleteJob, vars, bounds, PushRest
<1>2. trouble' \in Nat
  BY <1>1 DEF RInv, IInv, TypeOK
<1>3. ~Scheduled(courier[w].reminder, courier[w].revision)
  BY <1>1 DEF RInv, ErrandsKnow, Knows
<1>4. PICK old, at : old = job[courier[w].reminder][courier[w].revision] /\ at = old.at
  OBVIOUS
<1>5. old \in JobRow /\ at \in Nat
  BY <1>1, <1>4 DEF RInv, ErrandsRun, ReminderTypes, JobRow
<1>6. [old EXCEPT !.status = "done"] = [old EXCEPT !.status = "done", !.at = at]
  BY <1>4, <1>5 DEF JobRow
<1>7. job' = [job EXCEPT ![courier[w].reminder][courier[w].revision] =
                [old EXCEPT !.status = "done", !.at = at]]
  BY <1>4, <1>6 DEF CompleteJob
<1>8. at >= old.at
  BY <1>4, <1>5
<1>9. courier[w].pc # "idle"
  BY <1>1
<1> QED  BY <1>1, <1>2, <1>3, <1>4, <1>5, <1>7, <1>8, <1>9, ErrandEnds

LEMMA FailJobStep ==
  ASSUME RInv, NEW w \in Workers, FailJob(w)
  PROVE  RInv'
<1>1. /\ UNCHANGED PushRest /\ UNCHANGED <<push, now, reminder, inbox, telegrams>>
      /\ trouble' \in Nat /\ courier[w].pc # "idle"
      /\ courier' = [courier EXCEPT ![w] = NoErrand]
  BY DEF FailJob, PushRest, RInv, IInv, TypeOK
<1>2. PICK s \in {"queued", "dead"} :
        job' = [job EXCEPT ![courier[w].reminder][courier[w].revision] =
                  [job[courier[w].reminder][courier[w].revision] EXCEPT !.status = s, !.at = now + 1]]
  BY DEF FailJob
<1>3. now + 1 \in Nat /\ now + 1 >= job[courier[w].reminder][courier[w].revision].at
  BY <1>1 DEF RInv, ErrandsRun, ReminderTypes, JobRow
<1> QED  BY <1>1, <1>2, <1>3, ErrandEnds

\* A job that is claimed was queued, so nobody is at it.
LEMMA ClaimJobStep ==
  ASSUME RInv, NEW w \in Workers, NEW r \in Explicit, NEW n \in Revisions, ClaimJob(w, r, n)
  PROVE  RInv'
<1> DEFINE row == [job[r][n] EXCEPT !.status = "running", !.attempts = @ + 1]
           q == [NoErrand EXCEPT !.pc = "read", !.reminder = r, !.revision = n]
<1>1. /\ UNCHANGED PushRest /\ UNCHANGED <<push, now, reminder, inbox, telegrams>> /\ trouble' = trouble
      /\ job[r][n].status = "queued" /\ job[r][n].at <= now /\ courier[w].pc = "idle"
      /\ job' = [job EXCEPT ![r][n] = row] /\ courier' = [courier EXCEPT ![w] = q]
  <2>1. /\ UNCHANGED PushRest /\ UNCHANGED <<push, now, reminder, inbox, telegrams>> /\ trouble' = trouble
        /\ job[r][n].status = "queued" /\ job[r][n].at <= now /\ courier[w].pc = "idle"
    BY DEF ClaimJob, vars, bounds, PushRest
  <2> QED  BY <2>1 DEF ClaimJob
<1>2. row \in JobRow /\ row.status = "running" /\ row.at = job[r][n].at
  <2>1. job[r][n] \in JobRow
    BY DEF RInv, ReminderTypes
  <2>2. job[r][n].at \in Nat /\ job[r][n].attempts + 1 \in Nat
    BY <2>1 DEF JobRow
  <2> QED  BY ONLY <2>1, <2>2 DEF JobRow
<1>3. q \in ErrandRow /\ q.pc = "read" /\ q.reminder = r /\ q.revision = n
  <2>1. n \in Nat
    BY DEF Revisions
  <2> QED  BY <2>1, NoErrandFits DEF ErrandRow
<1> HIDE DEF row, q
<1>4. /\ job' \in [Explicit -> [Revisions -> JobRow]] /\ job'[r][n] = row
      /\ \A t \in Explicit, m \in Revisions : t # r \/ m # n => job'[t][m] = job[t][m]
  BY <1>1, <1>2, JobWritten DEF RInv
<1>5. courier' \in [Workers -> ErrandRow] /\ courier'[w] = q
      /\ \A v \in Workers \ {w} : courier'[v] = courier[v]
  BY <1>1, <1>3 DEF RInv, ReminderTypes
<1>6. IInv' /\ SaidAsItStands'
  BY <1>1, OutboxRests, NothingSaid DEF RInv, IInv, TypeOK
<1>7. ReminderTypes' /\ ScheduledIsWhole'
  BY <1>1, <1>4, <1>5 DEF RInv, ReminderTypes, ScheduledIsWhole
<1>8. NoJobAhead'
  BY <1>1, <1>4 DEF RInv, NoJobAhead
<1>9. ScheduledKeepsItsJob'
  <2> SUFFICES ASSUME NEW t \in Explicit, reminder[t].status = "scheduled"
               PROVE  /\ job'[t][reminder[t].revision].status \in {"queued", "running", "dead"}
                      /\ job'[t][reminder[t].revision].at >= reminder[t].due
    BY <1>1 DEF ScheduledKeepsItsJob
  <2>1. reminder[t].revision \in Revisions
    BY DEF RInv, ScheduledIsWhole
  <2> QED  BY <1>2, <1>4, <2>1 DEF RInv, ScheduledKeepsItsJob
<1>10. \A v \in Workers \ {w} : courier[v].pc # "idle" => courier[v].reminder # r \/ courier[v].revision # n
  BY <1>1 DEF RInv, ErrandsRun
<1>11. ErrandsRun'
  BY <1>1, <1>2, <1>3, <1>4, <1>5, <1>10 DEF RInv, ErrandsRun
<1>12. OneErrandEach'
  BY <1>3, <1>5, <1>10 DEF RInv, OneErrandEach
<1>13. ErrandsKnow'
  BY <1>1, <1>3, <1>5 DEF RInv, ErrandsKnow, Knows, Scheduled
<1> QED  BY <1>6, <1>7, <1>8, <1>9, <1>11, <1>12, <1>13 DEF RInv

\* A reminder that is written, or written anew, comes with a job that no revision had.
LEMMA Scheduling ==
  ASSUME RInv, UNCHANGED PushRest, UNCHANGED <<push, trouble, now, courier, inbox, telegrams>>,
         NEW r \in Explicit, reminder[r].status \in {"none", "scheduled"},
         NEW n \in Revisions, \A m \in Revisions : job[r][m].status # "none" => m < n,
         NEW row \in ReminderRow, row.status = "scheduled", row.owner \in Users,
         row.text \in Texts, row.revision = n,
         reminder' = [reminder EXCEPT ![r] = row], Enqueue(r, n, row.due)
  PROVE  RInv'
<1> DEFINE new == [status |-> "queued", at |-> row.due, attempts |-> 0]
<1>1. new \in JobRow /\ new.status = "queued" /\ new.at = row.due
  BY DEF JobRow, ReminderRow
<1>0. job' = [job EXCEPT ![r][n] = new]
  BY DEF Enqueue
<1> HIDE DEF new
<1>2. /\ job' \in [Explicit -> [Revisions -> JobRow]] /\ job'[r][n] = new
      /\ \A t \in Explicit, m \in Revisions : t # r \/ m # n => job'[t][m] = job[t][m]
  <2>1. ReminderTypes /\ new \in JobRow /\ r \in Explicit /\ n \in Revisions
    BY <1>1 DEF RInv
  <2> QED  BY ONLY <1>0, <2>1, JobWritten, Zenon
<1>3. /\ reminder' \in [Explicit -> ReminderRow] /\ reminder'[r] = row
      /\ \A t \in Explicit \ {r} : reminder'[t] = reminder[t]
  BY DEF RInv, ReminderTypes
<1>4. \A m \in Revisions : m \in Nat
  BY DEF Revisions
<1>5. IInv' /\ SaidAsItStands'
  BY <1>3, OutboxRests, NothingSaid DEF RInv, IInv, TypeOK
<1>6. ReminderTypes' /\ ScheduledIsWhole'
  BY <1>2, <1>3 DEF RInv, ReminderTypes, ScheduledIsWhole
<1>7. NoJobAhead'
  BY <1>1, <1>2, <1>3, <1>4 DEF RInv, NoJobAhead
<1>8. ScheduledKeepsItsJob'
  <2>1. row.due \in Nat /\ new.at >= row.due
    BY <1>1 DEF ReminderRow
  <2> QED  BY <1>1, <1>2, <1>3, <2>1 DEF RInv, ScheduledKeepsItsJob, ScheduledIsWhole
<1>9. \A v \in Workers : courier[v].pc # "idle" /\ courier[v].reminder = r => courier[v].revision < n
  BY DEF RInv, ErrandsRun
<1>10. ErrandsRun'
  BY <1>2, <1>4, <1>9 DEF RInv, ErrandsRun
<1>11. OneErrandEach'
  BY DEF RInv, OneErrandEach
<1>12. ErrandsKnow'
  <2> SUFFICES ASSUME NEW v \in Workers PROVE Knows(courier[v])'
    BY DEF ErrandsKnow
  <2>1. Knows(courier[v])
    BY DEF RInv, ErrandsKnow
  <2>2. CASE courier[v].pc # "idle" /\ courier[v].reminder = r
    <3>1. courier[v].revision \in Revisions /\ courier[v].revision < n
      BY <1>9, <2>2 DEF RInv, ErrandsRun
    <3> QED  BY <1>3, <1>4, <2>1, <2>2, <3>1 DEF Knows, Scheduled
  <2>3. CASE courier[v].pc # "idle" /\ courier[v].reminder # r
    BY <1>3, <2>1, <2>3 DEF Knows, Scheduled, RInv, ErrandsRun
  <2>4. CASE courier[v].pc = "idle"
    BY <2>4 DEF Knows
  <2> QED  BY <2>2, <2>3, <2>4
<1> QED  BY <1>5, <1>6, <1>7, <1>8, <1>10, <1>11, <1>12 DEF RInv

LEMMA CreateStep ==
  ASSUME RInv, NEW r \in Explicit, NEW u \in Users, NEW text \in Texts, NEW due \in 1 .. MaxTime,
         Create(r, u, text, due)
  PROVE  RInv'
<1>0. PICK row : row = [status |-> "scheduled", owner |-> u, text |-> text, due |-> due, revision |-> 1]
  OBVIOUS
<1>1. /\ UNCHANGED PushRest /\ UNCHANGED <<push, trouble, now, courier, inbox, telegrams>>
      /\ reminder[r].status = "none"
      /\ reminder' = [reminder EXCEPT ![r] = row] /\ Enqueue(r, 1, due)
  BY <1>0 DEF Create, vars, bounds, PushRest
<1>2. 1 \in Revisions /\ due \in Nat /\ 1 \in Nat
  BY TimeAssumption DEF Revisions
<1>3. row \in ReminderRow /\ row.due = due
  BY <1>0, <1>2 DEF ReminderRow
<1>4. \A m \in Revisions : job[r][m].status = "none"
  BY <1>1 DEF RInv, NoJobAhead
<1> QED  BY <1>0, <1>1, <1>2, <1>3, <1>4, Scheduling

LEMMA UpdateStep ==
  ASSUME RInv, NEW r \in Explicit, NEW text \in Texts, NEW due \in 1 .. MaxTime,
         Update(r, text, due)
  PROVE  RInv'
<1> DEFINE n == reminder[r].revision + 1
           row == [reminder[r] EXCEPT !.text = text, !.due = due, !.revision = @ + 1]
<1>1. /\ UNCHANGED PushRest /\ UNCHANGED <<push, trouble, now, courier, inbox, telegrams>>
      /\ reminder[r].status = "scheduled" /\ reminder[r].revision < MaxRevision
      /\ reminder' = [reminder EXCEPT ![r] = row] /\ Enqueue(r, n, due)
  <2>1. /\ UNCHANGED PushRest /\ UNCHANGED <<push, trouble, now, courier, inbox, telegrams>>
        /\ reminder[r].status = "scheduled" /\ reminder[r].revision < MaxRevision
    BY DEF Update, vars, bounds, PushRest
  <2> QED  BY <2>1 DEF Update
<1>2. /\ reminder[r] \in ReminderRow /\ reminder[r].owner \in Users /\ reminder[r].revision \in Revisions
      /\ due \in Nat
  BY <1>1, TimeAssumption DEF RInv, ReminderTypes, ScheduledIsWhole
<1>3. n \in Revisions /\ n \in Nat
  BY <1>1, <1>2, TimeAssumption DEF Revisions
<1>4. /\ row \in ReminderRow /\ row.status = "scheduled" /\ row.owner \in Users /\ row.text = text
      /\ row.due = due /\ row.revision = n
  BY <1>1, <1>2, <1>3 DEF ReminderRow
<1>5. \A m \in Revisions : job[r][m].status # "none" => m < n
  BY <1>2, <1>3 DEF RInv, NoJobAhead, Revisions
<1> HIDE DEF n, row
<1> QED  BY <1>1, <1>3, <1>4, <1>5, Scheduling

\* What is cancelled is no longer to come, whoever is at it.
LEMMA CancelStep ==
  ASSUME RInv, NEW r \in Explicit, Cancel(r)
  PROVE  RInv'
<1> DEFINE row == [reminder[r] EXCEPT !.status = "cancelled", !.revision = @ + 1]
<1>1. /\ UNCHANGED PushRest /\ UNCHANGED <<push, trouble, now, job, courier, inbox, telegrams>>
      /\ reminder[r].status = "scheduled" /\ reminder' = [reminder EXCEPT ![r] = row]
  <2>1. /\ UNCHANGED PushRest /\ UNCHANGED <<push, trouble, now, job, courier, inbox, telegrams>>
        /\ reminder[r].status = "scheduled"
    BY DEF Cancel, vars, bounds, PushRest
  <2> QED  BY <2>1 DEF Cancel
<1>2. /\ row \in ReminderRow /\ row.status = "cancelled" /\ row.revision = reminder[r].revision + 1
      /\ reminder[r].revision \in Nat
  <2>1. reminder[r] \in ReminderRow
    BY DEF RInv, ReminderTypes
  <2>2. reminder[r].revision \in Nat /\ reminder[r].revision + 1 \in Nat
    BY <2>1 DEF ReminderRow
  <2> QED  BY ONLY <2>1, <2>2 DEF ReminderRow
<1> HIDE DEF row
<1>3. /\ reminder' \in [Explicit -> ReminderRow] /\ reminder'[r] = row
      /\ \A t \in Explicit \ {r} : reminder'[t] = reminder[t]
  BY <1>1, <1>2 DEF RInv, ReminderTypes
<1>4. IInv' /\ SaidAsItStands'
  BY <1>1, <1>2, <1>3, OutboxRests, NothingSaid DEF RInv, IInv, TypeOK
<1>5. ReminderTypes' /\ ScheduledIsWhole' /\ ScheduledKeepsItsJob'
  BY <1>1, <1>2, <1>3 DEF RInv, ReminderTypes, ScheduledIsWhole, ScheduledKeepsItsJob
<1>6. NoJobAhead'
  BY <1>1, <1>2, <1>3 DEF RInv, NoJobAhead, Revisions
<1>7. ErrandsRun' /\ OneErrandEach'
  BY <1>1 DEF RInv, ErrandsRun, OneErrandEach
<1>8. ErrandsKnow'
  <2> SUFFICES ASSUME NEW v \in Workers PROVE Knows(courier[v])'
    BY DEF ErrandsKnow
  <2>1. Knows(courier[v])
    BY DEF RInv, ErrandsKnow
  <2>2. courier[v].pc = "idle" \/ courier[v].reminder \in Explicit
    BY DEF RInv, ErrandsRun
  <2> QED  BY <1>1, <1>2, <1>3, <2>1, <2>2 DEF Knows, Scheduled
<1> QED  BY <1>4, <1>5, <1>6, <1>7, <1>8 DEF RInv

\* One statement finds the revision still to come and says it, everywhere it is said; no
\* other errand on it can find that again.
LEMMA DeliverStep ==
  ASSUME RInv, NEW w \in Workers, Deliver(w)
  PROVE  RInv'
<1>1. /\ UNCHANGED PushRest /\ UNCHANGED <<trouble, now, job, telegrams>> /\ courier[w].pc = "deliver"
  BY DEF Deliver, bounds, PushRest
<1>2. courier[w].reminder \in Explicit /\ courier[w].revision \in Revisions /\ courier[w] \in ErrandRow
  BY <1>1 DEF RInv, ErrandsRun, ReminderTypes
<1>3. CASE ~Due(w)
  <2> DEFINE q == [courier[w] EXCEPT !.pc = "complete"]
  <2>1. UNCHANGED <<push, reminder, inbox>> /\ courier' = [courier EXCEPT ![w] = q]
    BY <1>3 DEF Deliver
  <2>2. /\ q \in ErrandRow /\ q.pc = "complete"
        /\ q.reminder = courier[w].reminder /\ q.revision = courier[w].revision
    BY <1>2 DEF ErrandRow
  <2> HIDE DEF q
  <2>3. Knows(q)
    BY <1>1, <1>3, <2>2, NotDueIsOver DEF Knows
  <2>4. trouble' \in Nat
    BY <1>1 DEF RInv, IInv, TypeOK
  <2> QED  BY <1>1, <2>1, <2>2, <2>3, <2>4, ErrandGoesOn
<1>4. CASE Due(w)
  <2> DEFINE r == courier[w].reminder
             row == [reminder[r] EXCEPT !.status = "delivered"]
             q == [courier[w] EXCEPT !.pc = "telegram"]
  <2>1. /\ reminder' = [reminder EXCEPT ![r] = row] /\ Outbox(r, reminder[r].owner, TRUE)
        /\ courier' = [courier EXCEPT ![w] = q]
        /\ inbox' = [inbox EXCEPT ![r] = Append(inbox[r], courier[w].text)]
    BY <1>4 DEF Deliver
  <2>2. r \in Explicit /\ r \in Events /\ reminder[r].status = "scheduled"
        /\ reminder[r].revision = courier[w].revision /\ reminder[r] \in ReminderRow
        /\ reminder[r].owner \in Users /\ reminder[r].text \in Texts
    BY <1>2, <1>4, ExplicitAssumption DEF Due, RInv, ReminderTypes, ScheduledIsWhole
  <2>3. /\ row \in ReminderRow /\ row.status = "delivered" /\ row.owner = reminder[r].owner
        /\ row.text = reminder[r].text /\ row.revision = reminder[r].revision
    BY <2>2 DEF ReminderRow
  <2>4. /\ q \in ErrandRow /\ q.pc = "telegram" /\ q.reminder = r /\ q.revision = courier[w].revision
    BY <1>2 DEF ErrandRow
  <2>5. courier[w].text = reminder[r].text
    BY <1>1, <2>2 DEF RInv, ErrandsKnow, Knows, Scheduled
  <2> HIDE DEF r, row, q
  <2>6. inbox[r] = << >> /\ telegrams[r] = 0 /\ \A p \in Rows : p[1] = r => push[p].status = "none"
    <3>1. inbox[r] = << >> /\ telegrams[r] <= Len(inbox[r]) /\ telegrams[r] \in Nat
      BY <2>2 DEF RInv, SaidAsItStands, ReminderTypes
    <3>2. telegrams[r] = 0
      BY <3>1
    <3>3. \A p \in Rows : p[1] = r => push[p].status = "none"
      BY <2>2 DEF RInv, SaidAsItStands
    <3> QED  BY <3>1, <3>2, <3>3
  <2>7. inbox' = [inbox EXCEPT ![r] = <<reminder[r].text>>] /\ inbox'[r] = <<reminder[r].text>>
    BY <2>1, <2>2, <2>5, <2>6 DEF RInv, ReminderTypes
  <2>8. \A p \in Rows : push'[p] = push[p] \/ (p[1] = r /\ OwnerOf(p) = reminder[r].owner)
    BY <2>1 DEF Outbox
  <2>9. /\ reminder' \in [Explicit -> ReminderRow] /\ reminder'[r] = row
        /\ \A t \in Explicit \ {r} : reminder'[t] = reminder[t] /\ inbox'[t] = inbox[t]
    BY <2>1, <2>2, <2>3, <2>7 DEF RInv, ReminderTypes
  <2>10. courier' \in [Workers -> ErrandRow] /\ courier'[w] = q
         /\ \A v \in Workers \ {w} : courier'[v] = courier[v]
    BY <2>1, <2>4 DEF RInv, ReminderTypes
  <2>11. IInv'
    BY <1>1, <2>1, <2>2, OutboxStep DEF RInv, PushRest
  <2>12. inbox' \in [Explicit -> Seq(Texts \cup {None})]
    BY <2>2, <2>7 DEF RInv, ReminderTypes
  <2>13. ReminderTypes' /\ ScheduledIsWhole' /\ ScheduledKeepsItsJob'
    BY <1>1, <2>3, <2>9, <2>10, <2>12 DEF RInv, ReminderTypes, ScheduledIsWhole, ScheduledKeepsItsJob
  <2>14. NoJobAhead'
    BY <1>1, <2>3, <2>9 DEF RInv, NoJobAhead
  <2>15. ErrandsRun'
    BY <1>1, <2>4, <2>10 DEF RInv, ErrandsRun, r
  <2>16. OneErrandEach'
    BY <1>1, <2>4, <2>10 DEF RInv, OneErrandEach, r
  <2>17. ErrandsKnow'
    <3>1. Knows(courier[w])'
      BY <1>1, <2>2, <2>3, <2>4, <2>6, <2>9, <2>10 DEF Knows, Scheduled
    <3>2. ASSUME NEW v \in Workers \ {w} PROVE Knows(courier[v])'
      <4>1. Knows(courier[v]) /\ (courier[v].pc = "idle" \/ courier[v].reminder \in Explicit)
        BY DEF RInv, ErrandsKnow, ErrandsRun
      <4>2. courier'[v] = courier[v]
        BY <2>10
      <4> QED  BY <1>1, <2>2, <2>3, <2>9, <4>1, <4>2 DEF Knows, Scheduled
    <3> QED  BY <3>1, <3>2 DEF ErrandsKnow
  <2>18. SaidAsItStands'
    <3> SUFFICES ASSUME NEW t \in Explicit
                 PROVE  /\ inbox'[t] = IF reminder'[t].status = "delivered"
                                         THEN <<reminder'[t].text>> ELSE << >>
                        /\ telegrams'[t] <= Len(inbox'[t])
                        /\ \A p \in Rows : p[1] = t /\ push'[p].status # "none" =>
                             reminder'[t].status = "delivered" /\ OwnerOf(p) = reminder'[t].owner
      BY DEF SaidAsItStands
    <3>1. CASE t = r
      <4>1. telegrams'[r] <= Len(inbox'[r])
        BY <1>1, <2>6, <2>7
      <4>2. \A p \in Rows : p[1] = r /\ push'[p].status # "none" => OwnerOf(p) = reminder[r].owner
        BY <2>6, <2>8
      <4> QED  BY <2>3, <2>7, <2>9, <3>1, <4>1, <4>2
    <3>2. CASE t # r
      <4>1. \A p \in Rows : p[1] = t => push'[p] = push[p]
        BY <2>8, <3>2
      <4>2. reminder'[t] = reminder[t] /\ inbox'[t] = inbox[t] /\ telegrams'[t] = telegrams[t]
        BY <1>1, <2>9, <3>2
      <4> QED  BY <4>1, <4>2 DEF RInv, SaidAsItStands
    <3> QED  BY <3>1, <3>2
  <2> QED  BY <2>11, <2>13, <2>14, <2>15, <2>16, <2>17, <2>18 DEF RInv
<1> QED  BY <1>3, <1>4

\* Telegram hears of a reminder from the one errand that said it, and no further one.
LEMMA TelegramStep ==
  ASSUME RInv, NEW w \in Workers, NEW sent \in BOOLEAN, Telegram(w, sent)
  PROVE  RInv'
<1> DEFINE r == courier[w].reminder
           q == [courier[w] EXCEPT !.pc = "complete"]
<1>1. /\ UNCHANGED PushRest /\ UNCHANGED <<push, trouble, now, reminder, job, inbox>>
      /\ courier[w].pc = "telegram" /\ courier' = [courier EXCEPT ![w] = q]
  BY DEF Telegram, vars, bounds, PushRest
<1>2. telegrams' = [telegrams EXCEPT ![r] = telegrams[r] + 1] \/ telegrams' = telegrams
  BY DEF Telegram
<1>3. /\ r \in Explicit /\ courier[w] \in ErrandRow
      /\ telegrams[r] = 0 /\ reminder[r].status = "delivered" /\ ~Scheduled(r, courier[w].revision)
      /\ reminder[r].revision = courier[w].revision
  BY <1>1 DEF RInv, ErrandsRun, ReminderTypes, ErrandsKnow, Knows
<1>4. q \in ErrandRow /\ q.pc = "complete" /\ q.reminder = r /\ q.revision = courier[w].revision
  BY <1>3 DEF ErrandRow
<1> HIDE DEF r, q
<1>5. /\ telegrams' \in [Explicit -> Nat] /\ telegrams'[r] \in {0, 1}
      /\ \A t \in Explicit \ {r} : telegrams'[t] = telegrams[t]
  BY <1>2, <1>3 DEF RInv, ReminderTypes
<1>6. courier' \in [Workers -> ErrandRow] /\ courier'[w] = q
      /\ \A v \in Workers \ {w} : courier'[v] = courier[v]
  BY <1>1, <1>4 DEF RInv, ReminderTypes
<1>7. IInv'
  BY <1>1, OutboxRests DEF RInv, IInv, TypeOK
<1>8. ReminderTypes' /\ ScheduledIsWhole' /\ ScheduledKeepsItsJob' /\ NoJobAhead'
  BY <1>1, <1>5, <1>6 DEF RInv, ReminderTypes, ScheduledIsWhole, ScheduledKeepsItsJob, NoJobAhead
<1>9. ErrandsRun'
  BY <1>1, <1>4, <1>6 DEF RInv, ErrandsRun, r
<1>10. OneErrandEach'
  BY <1>1, <1>4, <1>6 DEF RInv, OneErrandEach, r
<1>11. ErrandsKnow'
  <2>1. Knows(courier[w])'
    BY <1>1, <1>3, <1>4, <1>6 DEF Knows, Scheduled
  <2>2. ASSUME NEW v \in Workers \ {w} PROVE Knows(courier[v])'
    <3>1. Knows(courier[v]) /\ (courier[v].pc = "idle" \/ courier[v].reminder \in Explicit)
      BY DEF RInv, ErrandsKnow, ErrandsRun
    <3>2. courier[v].pc = "telegram" => courier[v].reminder # r
      BY <1>1, <1>3, <3>1 DEF RInv, OneErrandEach, Knows, r
    <3>3. courier'[v] = courier[v]
      BY <1>6
    <3> QED  BY <1>1, <1>5, <3>1, <3>2, <3>3 DEF Knows, Scheduled
  <2> QED  BY <2>1, <2>2 DEF ErrandsKnow
<1>12. SaidAsItStands'
  <2>1. Len(inbox[r]) = 1
    <3>1. inbox[r] = <<reminder[r].text>>
      BY <1>3 DEF RInv, SaidAsItStands
    <3> QED  BY <3>1
  <2>2. \A t \in Explicit : telegrams[t] <= Len(inbox[t])
    BY DEF RInv, SaidAsItStands
  <2>3. \A t \in Explicit : telegrams'[t] <= Len(inbox[t])
    BY <1>5, <2>1, <2>2
  <2> QED  BY <1>1, <2>3 DEF RInv, SaidAsItStands
<1> QED  BY <1>7, <1>8, <1>9, <1>10, <1>11, <1>12 DEF RInv

----------------------------------------------------------------------------
(* What holds of reminders.                                                *)

LEMMA AllInitHolds == AllInit => RInv
<1> SUFFICES ASSUME AllInit PROVE RInv
  OBVIOUS
<1>1. IInv /\ \A p \in Rows : push[p].status = "none"
  BY InitHolds DEF AllInit, Init, NoPush
<1>2. NoReminder \in ReminderRow /\ NoReminder.status = "none"
  <2>1. 0 \in Nat /\ 1 \in Nat
    OBVIOUS
  <2> QED  BY <2>1 DEF NoReminder, ReminderRow
<1>3. NoJob \in JobRow /\ NoJob.status = "none"
  BY DEF NoJob, JobRow
<1>4. /\ now = 0 /\ inbox = [r \in Explicit |-> << >>] /\ telegrams = [r \in Explicit |-> 0]
      /\ \A r \in Explicit : reminder[r] = NoReminder /\ job[r] = [n \in Revisions |-> NoJob]
      /\ \A w \in Workers : courier[w] = NoErrand
  BY DEF AllInit
<1>5. ReminderTypes
  BY <1>2, <1>3, NoErrandFits DEF AllInit, ReminderTypes
<1>6. ScheduledIsWhole /\ ScheduledKeepsItsJob
  BY <1>2, <1>4 DEF ScheduledIsWhole, ScheduledKeepsItsJob
<1>7. NoJobAhead
  BY <1>3, <1>4 DEF NoJobAhead
<1>8. ErrandsRun /\ OneErrandEach /\ ErrandsKnow
  BY <1>4, NoErrandFits DEF ErrandsRun, OneErrandEach, ErrandsKnow
<1>9. SaidAsItStands
  BY <1>1, <1>2, <1>4 DEF SaidAsItStands
<1> QED  BY <1>1, <1>5, <1>6, <1>7, <1>8, <1>9 DEF RInv

LEMMA AllNextKeeps ==
  ASSUME RInv, [AllNext]_allVars
  PROVE  RInv'
<1>1. CASE Owner
  BY <1>1, CreateStep, UpdateStep, CancelStep DEF Owner
<1>2. CASE Tick
  BY <1>2, TickStep
<1>3. CASE Pushing
  BY <1>3, PushingStep
<1>4. ASSUME NEW w \in Workers, Errand(w) PROVE RInv'
  BY <1>4, ClaimJobStep, ReadBodyStep, DeliverStep, TelegramStep, CompleteJobStep DEF Errand
<1>5. ASSUME NEW w \in Workers, Trouble(w) PROVE RInv'
  BY <1>5, FailJobStep, DieOnErrandStep DEF Trouble
<1>6. CASE UNCHANGED allVars
  <2>1. UNCHANGED PushRest /\ UNCHANGED <<push, trouble, now, reminder, job, courier, inbox, telegrams>>
    BY <1>6 DEF allVars, vars, bounds, reminderVars, PushRest
  <2>2. IInv' /\ SaidAsItStands'
    BY <2>1, OutboxRests, NothingSaid DEF RInv, IInv, TypeOK
  <2>3. /\ ReminderTypes' /\ ScheduledIsWhole' /\ NoJobAhead' /\ ScheduledKeepsItsJob'
        /\ ErrandsRun' /\ OneErrandEach'
    BY <2>1 DEF RInv, ReminderTypes, ScheduledIsWhole, NoJobAhead, ScheduledKeepsItsJob,
       ErrandsRun, OneErrandEach
  <2>4. ErrandsKnow'
    BY <2>1 DEF RInv, ErrandsKnow, Knows, Scheduled
  <2> QED  BY <2>2, <2>3, <2>4 DEF RInv
<1> QED  BY <1>1, <1>2, <1>3, <1>4, <1>5, <1>6 DEF AllNext

\* Reminders, their jobs, the errands of the workers and what was said fit together in
\* every state.
THEOREM RemindersInvariance == AllSpec => []RInv
<1>1. AllInit => RInv
  BY AllInitHolds
<1>2. RInv /\ [AllNext]_allVars => RInv'
  BY AllNextKeeps
<1> QED  BY <1>1, <1>2, PTL DEF AllSpec

\* The conversation says what the reminder says, once, when it is due, whatever is edited,
\* moved or cancelled while a job runs: one statement claims the revision and says it.
\* Telegram and the outbox repeat only that, Telegram at most once.
THEOREM SaidAsItStandsAlways == AllSpec => []SaidAsItStands
<1>1. RInv => SaidAsItStands
  BY DEF RInv
<1> QED  BY <1>1, RemindersInvariance, PTL

\* A reminder that is still to come has the job of its own revision, due at its time or
\* after it, queued, running or given up: no job that ran before its time used it up.
THEOREM ScheduledKeepsItsJobAlways == AllSpec => []ScheduledKeepsItsJob
<1>1. RInv => ScheduledKeepsItsJob
  BY DEF RInv
<1> QED  BY <1>1, RemindersInvariance, PTL

----------------------------------------------------------------------------
(* Reminders push as PushDelivery pushes.                                  *)

\* An errand that goes wrong counts as trouble and leaves the outbox alone.
ErrandTrouble == trouble' = trouble + 1 /\ UNCHANGED PushRest /\ UNCHANGED push

\* Every step of reminders is a step of the outbox, or none.
PushesAsBefore == Init /\ [][Next \/ ErrandTrouble]_vars

LEMMA DeliverNotifies ==
  ASSUME RInv, NEW w \in Workers, Deliver(w)
  PROVE  [Next]_vars
<1>1. UNCHANGED <<device, lock, work, overdue, gone, copies, bounds>> /\ courier[w].pc = "deliver"
  BY DEF Deliver
<1>2. CASE ~Due(w)
  BY <1>1, <1>2 DEF Deliver, vars
<1>3. CASE Due(w)
  <2> PICK r, u : r = courier[w].reminder /\ u = reminder[r].owner
    OBVIOUS
  <2>1. r \in Explicit /\ reminder[r].status = "scheduled"
    BY <1>1, <1>3 DEF RInv, ErrandsRun, Due
  <2>2. r \in Events /\ u \in Users
    BY <2>1, ExplicitAssumption DEF RInv, ScheduledIsWhole
  <2>3. \A p \in Rows : p[1] = r => push[p].status = "none"
    BY <2>1 DEF RInv, SaidAsItStands
  <2>4. Outbox(r, u, TRUE)
    BY <1>3 DEF Deliver
  <2>5. Notify(r, u, TRUE)
    BY <1>1, <2>3, <2>4 DEF Notify
  <2> QED  BY <2>2, <2>5 DEF Next
<1> QED  BY <1>2, <1>3

\* A reminder that is delivered is one event of the outbox, told once to its owner; the
\* rest of reminders leaves the outbox alone: what is proved of the steps of PushDelivery
\* is true of the product that sends reminders.
THEOREM RemindersPush == AllSpec => PushesAsBefore
<1>1. AllInit => Init
  BY DEF AllInit
<1>2. RInv /\ [AllNext]_allVars => [Next \/ ErrandTrouble]_vars
  <2> SUFFICES ASSUME RInv, [AllNext]_allVars PROVE [Next \/ ErrandTrouble]_vars
    OBVIOUS
  <2>1. CASE Owner \/ Tick \/ UNCHANGED allVars
    BY <2>1 DEF Owner, Create, Update, Cancel, Tick, allVars
  <2>2. CASE Pushing
    BY <2>2 DEF Pushing, Next
  <2>3. ASSUME NEW w \in Workers, Errand(w) PROVE [Next]_vars
    <3>1. CASE \/ \E r \in Explicit, n \in Revisions : ClaimJob(w, r, n)
               \/ ReadBody(w) \/ (\E sent \in BOOLEAN : Telegram(w, sent)) \/ CompleteJob(w)
      BY <3>1 DEF ClaimJob, ReadBody, Telegram, CompleteJob
    <3> QED  BY <2>3, <3>1, DeliverNotifies DEF Errand
  <2>4. ASSUME NEW w \in Workers, Trouble(w) PROVE ErrandTrouble
    BY <2>4 DEF Trouble, FailJob, DieOnErrand, ErrandTrouble, PushRest
  <2> QED  BY <2>1, <2>2, <2>3, <2>4 DEF AllNext
<1> QED  BY <1>1, <1>2, RemindersInvariance, PTL DEF AllSpec, PushesAsBefore

\* Beside reminders too, a message is out only for the account that owns its token, no
\* row has two tickets, and an installation and a token serve one account.
THEOREM RemindersPushSafely == AllSpec => [](SentToItsOwner /\ OneCopyKept /\ OneAccountPerDevice)
<1>1. RInv => SentToItsOwner /\ OneCopyKept /\ OneAccountPerDevice
  BY OneCopy DEF RInv, IInv
<1> QED  BY <1>1, RemindersInvariance, PTL

\* Beside reminders too, a late answer about a token a device no longer has leaves that
\* device alone.
THEOREM RemindersKeepTokens == AllSpec => NewTokenSurvives
<1>1. RInv /\ [AllNext]_allVars =>
        [work' # work => \A k \in Devices :
           device[k].live /\ ~device'[k].live => device[k].token \in gone]_vars
  <2> SUFFICES ASSUME RInv, [AllNext]_allVars, work' # work PROVE Disowned
    BY DEF Disowned
  <2>1. CASE Pushing
    BY <2>1, NextDisowns DEF Pushing, Next, RInv
  <2>2. CASE Owner \/ Tick \/ UNCHANGED allVars
    BY <2>2 DEF Owner, Create, Update, Cancel, Tick, allVars, vars
  <2>3. ASSUME NEW w \in Workers, Errand(w) PROVE FALSE
    BY <2>3 DEF Errand, ClaimJob, ReadBody, Deliver, Telegram, CompleteJob, vars
  <2>4. ASSUME NEW w \in Workers, Trouble(w) PROVE FALSE
    BY <2>4 DEF Trouble, FailJob, DieOnErrand
  <2> QED  BY <2>1, <2>2, <2>3, <2>4 DEF AllNext
<1> QED  BY <1>1, RemindersInvariance, PTL DEF AllSpec, NewTokenSurvives
=============================================================================
