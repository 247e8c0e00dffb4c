---------------------------- MODULE PushDelivery ----------------------------
(***************************************************************************)
(* Native push: devices register for one account at a time, events leave   *)
(* one row per device in an outbox, workers hand the rows to Expo and      *)
(* later ask Expo for the receipts.                                        *)
(*                                                                         *)
(*   packages/core/src/mobile.ts          registration, dispatch, receipts *)
(*   packages/db/migrations/0057_durable_mobile_turns_push.sql             *)
(*                                                                         *)
(* Registration, revocation and dispatch exclude each other by one         *)
(* advisory lock held to the end of the transaction; receipts take none.   *)
(* What a dispatching transaction writes is seen when it commits, and the  *)
(* rows it wrote are locked until then.                                    *)
(***************************************************************************)
EXTENDS Naturals, FiniteSets

CONSTANTS
  Users,          \* accounts
  Installs,       \* installations of the app: device_identity
  Tokens,         \* Expo push tokens
  Events,         \* what is pushed: the event_key without its device
  Explicit,       \* the events with explicit_reminder, route 'reminder'
  Workers,
  MaxAttempts,    \* attempts before a row fails: 5 in retryPush and retryReceipt
  MaxRegistrations, MaxTrouble,  \* bounds of a behaviour
  None

ASSUME ExplicitAssumption == Explicit \subseteq Events
ASSUME BoundsAssumption ==
  MaxAttempts \in Nat /\ MaxRegistrations \in Nat /\ MaxTrouble \in Nat
ASSUME FiniteAssumption == IsFiniteSet(Users) /\ IsFiniteSet(Installs) /\ IsFiniteSet(Events)
ASSUME NoneAssumption == None \notin Users \cup Installs \cup Tokens \cup Workers

VARIABLES
  device,         \* mobile_devices: one row per account and installation
  push,           \* push_deliveries: one row per event and device
  lock,           \* who holds josi_mobile_device_registration
  work,           \* the batch each worker is at
  overdue,        \* events older than the ten minutes of FOREGROUND_GRACE_MS
  gone,           \* tokens Expo no longer knows
  copies,         \* history: tickets Expo gave for a row, less those it took back
  registrations,  \* registrations so far
  trouble         \* workers that died, rows taken from a slow worker, so far

bounds == <<registrations, trouble>>
vars == <<device, push, lock, work, overdue, gone, copies, bounds>>

Devices == Users \X Installs
Rows == Events \X Devices
OwnerOf(p) == p[2][1]
DeviceOf(p) == p[2]

NoDevice == [token |-> None, live |-> FALSE, front |-> FALSE, on |-> FALSE, bound |-> FALSE]
NoPush == [status |-> "none", lease |-> None, attempts |-> 0, checks |-> 0,
           token |-> None, foreground |-> FALSE]
Idle == [pc |-> "idle", rows |-> {}, verdict |-> [p \in Rows |-> "ready"],
         token |-> [p \in Rows |-> None]]

Unsent == {"queued", "retry"}
Settled == {"provider_accepted", "failed", "suppressed"}

----------------------------------------------------------------------------
(* Rows.                                                                   *)

Holds(w, p) == work[w].pc # "idle" /\ p \in work[w].rows
InTransaction(w) == work[w].pc \in {"checked", "flying"}
Written(w) == {p \in work[w].rows : work[w].verdict[p] \notin {"ready", "lost"}}
RowLocked(p) == \E w \in Workers : InTransaction(w) /\ p \in Written(w)

\* updated_at is older than ten minutes: surely when its worker died or let the
\* row go, and also when that worker is merely slow.
Late(p) == \E w \in Workers : push[p].lease = w /\ Holds(w, p)
SlowIn(S) == {p \in S : push[p].status \in {"sending", "checking"} /\ Late(p)}

\* retryPush
Retry(row) ==
  [row EXCEPT !.status = IF row.attempts >= MaxAttempts THEN "failed" ELSE "retry",
              !.lease = None, !.foreground = FALSE]
\* retryReceipt
RetryReceipt(row) ==
  [row EXCEPT !.status = IF row.checks >= MaxAttempts THEN "failed" ELSE "ticketed",
              !.lease = None, !.foreground = FALSE]
Settle(row, s) == [row EXCEPT !.status = s, !.lease = None, !.foreground = FALSE]

\* By id alone.
RevokeById(k, t) == [device EXCEPT ![k].live = FALSE]

\* update mobile_devices set revoked_at where id and token_fingerprint
RevokeByToken(k, t) ==
  IF device[k].token = t THEN [device EXCEPT ![k].live = FALSE] ELSE device

----------------------------------------------------------------------------
(* Accounts and devices.                                                   *)

\* register_mobile_device: the installation and the token leave every other
\* binding, and what waits for those bindings is suppressed.
Registered(u, i, row) ==
  LET key == <<u, i>>
      old == {k \in Devices \ {key} : device[k].live /\ (k[2] = i \/ device[k].token = row.token)}
  IN
  /\ push' = [p \in Rows |->
       IF DeviceOf(p) \in old /\ push[p].status \in Unsent
         THEN Settle(push[p], "suppressed") ELSE push[p]]
  /\ device' = [k \in Devices |->
       IF k = key THEN row ELSE IF k \in old THEN [device[k] EXCEPT !.live = FALSE] ELSE device[k]]

\* Registration does not wait for a dispatch under way.
RegisterUnlocked(u, i, t, front, on) ==
  /\ registrations < MaxRegistrations
  /\ t \notin gone
  /\ Registered(u, i, [token |-> t, live |-> TRUE, front |-> front, on |-> on, bound |-> TRUE])
  /\ registrations' = registrations + 1
  /\ UNCHANGED <<lock, work, overdue, gone, copies, trouble>>

\* upsertMobileDevice, as POST /mobile/devices calls it
Register(u, i, t, front, on) ==
  /\ registrations < MaxRegistrations
  /\ t \notin gone
  /\ lock = None
  /\ Registered(u, i, [token |-> t, live |-> TRUE, front |-> front, on |-> on, bound |-> TRUE])
  /\ registrations' = registrations + 1
  /\ UNCHANGED <<lock, work, overdue, gone, copies, trouble>>

\* revokeMobileDevice
Revoke(k) ==
  /\ device[k].live
  /\ lock = None
  /\ device' = [device EXCEPT ![k].live = FALSE]
  /\ push' = [p \in Rows |->
       IF DeviceOf(p) = k /\ push[p].status \in Unsent
         THEN Settle(push[p], "suppressed") ELSE push[p]]
  /\ UNCHANGED <<lock, work, overdue, gone, copies, bounds>>

\* The outbox inserts: a reminder and a completed turn are written for every live
\* device of their owner with the category on, tasks and approvals only for those
\* that are not in the foreground; on conflict nothing.
Outbox(e, u, front) ==
  push' = [p \in Rows |->
    IF /\ p[1] = e /\ OwnerOf(p) = u /\ push[p].status = "none"
       /\ device[DeviceOf(p)].live /\ device[DeviceOf(p)].on
       /\ front \/ ~device[DeviceOf(p)].front
    THEN [NoPush EXCEPT !.status = "queued"] ELSE push[p]]

Notify(e, u, front) ==
  /\ e \in Explicit => front
  /\ \A p \in Rows : p[1] = e => push[p].status = "none"
  /\ Outbox(e, u, front)
  /\ UNCHANGED <<device, lock, work, overdue, gone, copies, bounds>>

\* Ten minutes pass; the app is removed from a phone.
GraceEnds(e) ==
  /\ e \notin overdue
  /\ \E p \in Rows : p[1] = e /\ push[p].status # "none"
  /\ overdue' = overdue \cup {e}
  /\ UNCHANGED <<device, push, lock, work, gone, copies, bounds>>

Uninstall(t) ==
  /\ t \notin gone
  /\ gone' = gone \cup {t}
  /\ UNCHANGED <<device, push, lock, work, overdue, copies, bounds>>

----------------------------------------------------------------------------
(* processPushBatch.                                                       *)

\* What a worker let go is not taken up again.
ClaimWaiting(w, S) ==
  /\ work[w].pc = "idle"
  /\ S # {}
  /\ \A p \in S : push[p].status \in Unsent
  /\ push' = [p \in Rows |->
       IF p \in S THEN [push[p] EXCEPT !.status = "sending", !.lease = w, !.attempts = @ + 1]
       ELSE push[p]]
  /\ work' = [work EXCEPT ![w] = [Idle EXCEPT !.pc = "claimed", !.rows = S]]
  /\ UNCHANGED <<device, lock, overdue, gone, copies, bounds>>

\* One statement claims what is due and what another worker let go stale.
Claim(w, S) ==
  /\ work[w].pc = "idle"
  /\ S # {}
  /\ \A p \in S : push[p].status \in Unsent \cup {"sending"} /\ ~RowLocked(p)
  /\ trouble + Cardinality(SlowIn(S)) <= MaxTrouble
  /\ trouble' = trouble + Cardinality(SlowIn(S))
  /\ push' = [p \in Rows |->
       IF p \in S THEN [push[p] EXCEPT !.status = "sending", !.lease = w, !.attempts = @ + 1]
       ELSE push[p]]
  /\ work' = [work EXCEPT ![w] = [Idle EXCEPT !.pc = "claimed", !.rows = S]]
  /\ UNCHANGED <<device, lock, overdue, gone, copies, registrations>>

\* What the device says of a row.  quiet: it is within the device's quiet hours;
\* sealed: its token cannot be opened with this key.
Verdict(p, quiet, sealed) ==
  LET d == device[DeviceOf(p)]
      explicit == p[1] \in Explicit
  IN
  CASE ~d.live \/ ~d.on \/ (~explicit /\ quiet) -> "suppressed"
    [] ~explicit /\ p[1] \in overdue /\ (d.front \/ push[p].foreground) -> "suppressed"
    [] explicit /\ ~d.bound -> "suppressed"
    [] ~explicit /\ d.front -> "deferred"
    [] sealed -> "retry"
    [] OTHER -> "ready"

\* The transaction takes the lock and reads each device; what it settles there
\* it writes at once, if the row still carries its lease.
Check(w, quiet, sealed) ==
  /\ work[w].pc = "claimed"
  /\ lock = None
  /\ lock' = w
  /\ work' = [work EXCEPT ![w] = [@ EXCEPT
       !.pc = "checked",
       !.verdict = [p \in Rows |->
         IF p \notin work[w].rows THEN "ready"
         ELSE LET v == Verdict(p, quiet, sealed) IN
           IF v # "ready" /\ push[p].lease # w THEN "lost" ELSE v],
       !.token = [p \in Rows |->
         IF p \in work[w].rows THEN device[DeviceOf(p)].token ELSE None]]]
  /\ UNCHANGED <<device, push, overdue, gone, copies, bounds>>

\* The fence asks for the device, and not for the lease.
FencedByDevice(w, p) ==
  /\ device[DeviceOf(p)].live
  /\ device[DeviceOf(p)].token = work[w].token[p]

\* sent_token_fingerprint is written only while the row is still this worker's
\* and the device still this account's, with the token that was read.
Fenced(w, p) ==
  /\ push[p].lease = w
  /\ device[DeviceOf(p)].live
  /\ device[DeviceOf(p)].token = work[w].token[p]

\* What the end of the transaction leaves of a row.
Outcome(w, p, v) ==
  LET row == IF v \in {"ticketed", "failed", "again"}
               THEN [push[p] EXCEPT !.token = work[w].token[p]] ELSE push[p]
  IN
  CASE v = "suppressed" -> Settle(row, "suppressed")
    [] v = "deferred" -> [row EXCEPT !.status = "retry", !.lease = None, !.foreground = TRUE,
                            !.attempts = IF @ > 0 THEN @ - 1 ELSE 0]
    [] v \in {"retry", "again"} -> Retry(row)
    [] v = "ticketed" -> [row EXCEPT !.status = "ticketed", !.lease = None]
    [] v = "failed" -> Settle(row, "failed")
    [] OTHER -> row

Commit(w, verdict) ==
  /\ push' = [p \in Rows |->
       IF p \in work[w].rows THEN Outcome(w, p, verdict[p]) ELSE push[p]]
  /\ lock' = None
  /\ work' = [work EXCEPT ![w] = Idle]

Fence(w) ==
  /\ work[w].pc = "checked"
  /\ LET verdict == [p \in Rows |->
           IF p \notin work[w].rows \/ work[w].verdict[p] # "ready" THEN work[w].verdict[p]
           ELSE IF Fenced(w, p) THEN "fenced" ELSE "lost"]
     IN IF \E p \in work[w].rows : verdict[p] = "fenced"
          THEN /\ work' = [work EXCEPT ![w] = [@ EXCEPT !.pc = "flying", !.verdict = verdict]]
               /\ UNCHANGED <<push, lock>>
          ELSE Commit(w, verdict)
  /\ UNCHANGED <<device, overdue, gone, copies, bounds>>

Flying(w) == {p \in work[w].rows : work[w].verdict[p] = "fenced"}
Resolve(w, answer) ==
  [p \in Rows |-> IF p \in Flying(w) THEN answer[p] ELSE work[w].verdict[p]]

\* Expo answers for the whole request: not reachable or no answer, a status to
\* try again, or not JSON ("again"); any other refusal ("failed").
SendFails(w, v) ==
  /\ work[w].pc = "flying"
  /\ v \in {"again", "failed"}
  /\ Commit(w, Resolve(w, [p \in Flying(w) |-> v]))
  /\ UNCHANGED <<device, overdue, gone, copies, bounds>>

\* One ticket per message.  DeviceNotRegistered revokes the device that still
\* has the token it was sent to.
Tickets(w, answer) ==
  /\ work[w].pc = "flying"
  /\ \A p \in Flying(w) : answer[p] = "gone" => work[w].token[p] \in gone
  /\ LET lost == {p \in Flying(w) : answer[p] = "gone"}
         verdict == [p \in Flying(w) |-> IF p \in lost THEN "failed" ELSE answer[p]]
     IN /\ Commit(w, Resolve(w, verdict))
        /\ device' = [k \in Devices |->
             IF \E p \in lost : DeviceOf(p) = k /\ device[k].token = work[w].token[p]
               THEN [device[k] EXCEPT !.live = FALSE] ELSE device[k]]
        /\ copies' = [p \in Rows |->
             IF p \in Flying(w) /\ answer[p] = "ticketed" THEN copies[p] + 1 ELSE copies[p]]
  /\ UNCHANGED <<overdue, gone, bounds>>

----------------------------------------------------------------------------
(* processPushReceipts: no transaction, one statement per row.             *)

ClaimReceipts(w, S) ==
  /\ work[w].pc = "idle"
  /\ S # {}
  /\ \A p \in S : push[p].status \in {"ticketed", "checking"}
  /\ trouble + Cardinality(SlowIn(S)) <= MaxTrouble
  /\ trouble' = trouble + Cardinality(SlowIn(S))
  /\ push' = [p \in Rows |->
       IF p \in S THEN [push[p] EXCEPT !.status = "checking", !.lease = w, !.checks = @ + 1]
       ELSE push[p]]
  /\ work' = [work EXCEPT ![w] =
       [Idle EXCEPT !.pc = "receipts", !.rows = S,
          !.token = [p \in Rows |-> IF p \in S THEN push[p].token ELSE None]]]
  /\ UNCHANGED <<device, lock, overdue, gone, copies, registrations>>

Done(w, p) ==
  work' = [work EXCEPT ![w] =
    IF work[w].rows = {p} THEN Idle ELSE [work[w] EXCEPT !.rows = @ \ {p}]]

\* where id = $1 and lease_token = $2
Record(w, p, row) ==
  push' = IF push[p].lease = w THEN [push EXCEPT ![p] = row] ELSE push

Asked(w, p) ==
  work[w].pc = "receipts" /\ p \in work[w].rows /\ work[w].verdict[p] = "ready"

ReceiptSettles(w, p, s) ==
  /\ Asked(w, p)
  /\ s \in {"provider_accepted", "failed"}
  /\ Record(w, p, Settle(push[p], s))
  /\ Done(w, p)
  /\ UNCHANGED <<device, lock, overdue, gone, copies, bounds>>

\* No receipt yet, or no answer.
ReceiptPending(w, p) ==
  /\ Asked(w, p)
  /\ Record(w, p, RetryReceipt(push[p]))
  /\ Done(w, p)
  /\ UNCHANGED <<device, lock, overdue, gone, copies, bounds>>

\* MessageRateExceeded: Expo did not deliver it, and it is sent again.
ReceiptRateExceeded(w, p) ==
  /\ Asked(w, p)
  /\ Record(w, p, Retry(push[p]))
  /\ copies' = IF push[p].lease = w THEN [copies EXCEPT ![p] = @ - 1] ELSE copies
  /\ Done(w, p)
  /\ UNCHANGED <<device, lock, overdue, gone, bounds>>

\* DeviceNotRegistered: the device first, if it still has that token; then the row.
ReceiptRevokes(w, p) ==
  /\ Asked(w, p)
  /\ work[w].token[p] \in gone
  /\ device' = RevokeByToken(DeviceOf(p), work[w].token[p])
  /\ work' = [work EXCEPT ![w].verdict[p] = "failed"]
  /\ UNCHANGED <<push, lock, overdue, gone, copies, bounds>>

ReceiptFails(w, p) ==
  /\ work[w].pc = "receipts" /\ p \in work[w].rows /\ work[w].verdict[p] = "failed"
  /\ Record(w, p, Settle(push[p], "failed"))
  /\ Done(w, p)
  /\ UNCHANGED <<device, lock, overdue, gone, copies, bounds>>

\* A worker dies: its transaction rolls back, its lock is free, its rows keep
\* their lease.
Die(w) ==
  /\ work[w].pc # "idle"
  /\ trouble < MaxTrouble
  /\ trouble' = trouble + 1
  /\ lock' = IF lock = w THEN None ELSE lock
  /\ work' = [work EXCEPT ![w] = Idle]
  /\ UNCHANGED <<device, push, overdue, gone, copies, registrations>>

----------------------------------------------------------------------------
\* One device may be there already; before migration 0059 it has no owner_binding.
Init ==
  /\ \/ device = [k \in Devices |-> NoDevice]
     \/ \E k \in Devices, t \in Tokens, bound \in BOOLEAN :
          device = [[j \in Devices |-> NoDevice] EXCEPT
                      ![k] = [token |-> t, live |-> TRUE, front |-> FALSE, on |-> TRUE, bound |-> bound]]
  /\ push = [p \in Rows |-> NoPush]
  /\ lock = None
  /\ work = [w \in Workers |-> Idle]
  /\ overdue = {} /\ gone = {}
  /\ copies = [p \in Rows |-> 0]
  /\ registrations = 0 /\ trouble = 0

Receipt(w) == \E p \in work[w].rows :
  \/ \E s \in {"provider_accepted", "failed"} : ReceiptSettles(w, p, s)
  \/ ReceiptPending(w, p)
  \/ ReceiptRateExceeded(w, p)
  \/ ReceiptRevokes(w, p)
  \/ ReceiptFails(w, p)

Answered(w) ==
  \/ \E v \in {"again", "failed"} : SendFails(w, v)
  \/ work[w].pc = "flying" /\
       \E answer \in [Flying(w) -> {"ticketed", "gone", "failed", "again"}] : Tickets(w, answer)

Step(w) ==
  \/ \E S \in SUBSET Rows : Claim(w, S) \/ ClaimReceipts(w, S)
  \/ \E quiet, sealed \in BOOLEAN : Check(w, quiet, sealed)
  \/ Fence(w)
  \/ Answered(w)
  \/ Receipt(w)

Environment ==
  \/ \E u \in Users, i \in Installs, t \in Tokens, front, on \in BOOLEAN : Register(u, i, t, front, on)
  \/ \E k \in Devices : Revoke(k)
  \/ \E e \in Events : GraceEnds(e)
  \/ \E t \in Tokens : Uninstall(t)

Next ==
  \/ Environment
  \/ \E e \in Events, u \in Users, front \in BOOLEAN : Notify(e, u, front)
  \/ \E w \in Workers : Step(w) \/ Die(w)
Spec == Init /\ [][Next]_vars

----------------------------------------------------------------------------
(* Properties.                                                             *)

PushRow == [status : {"none", "queued", "sending", "ticketed", "checking",
                      "provider_accepted", "retry", "failed", "suppressed"},
            lease : Workers \cup {None}, attempts : Nat, checks : Nat,
            token : Tokens \cup {None}, foreground : BOOLEAN]
DeviceRow == [token : Tokens \cup {None}, live : BOOLEAN, front : BOOLEAN,
              on : BOOLEAN, bound : BOOLEAN]
Verdicts == {"ready", "lost", "suppressed", "deferred", "retry", "fenced", "failed"}
Batch == [pc : {"idle", "claimed", "checked", "flying", "receipts"}, rows : SUBSET Rows,
          verdict : [Rows -> Verdicts], token : [Rows -> Tokens \cup {None}]]

\* Types of the variables.  A row has a lease exactly while a worker is to answer
\* for it, and the lock is held exactly inside a dispatching transaction.
TypeOK ==
  /\ device \in [Devices -> DeviceRow]
  /\ push \in [Rows -> PushRow]
  /\ \A p \in Rows : ((push[p].lease # None) <=> (push[p].status \in {"sending", "checking"}))
  /\ lock \in Workers \cup {None}
  /\ work \in [Workers -> Batch]
  /\ \A w \in Workers : (InTransaction(w) <=> lock = w)
  /\ overdue \subseteq Events /\ gone \subseteq Tokens
  /\ copies \in [Rows -> Nat]
  /\ registrations \in Nat /\ trouble \in Nat

\* While Expo has a message, the token it was sent to belongs to no other
\* account: an account switch waits for the answer or comes before the check.
SentToItsOwner ==
  \A w \in Workers : work[w].pc = "flying" =>
    \A p \in Flying(w), k \in Devices :
      device[k].live /\ device[k].token = work[w].token[p] => k[1] = OwnerOf(p)

\* A row is never accepted by Expo twice with both tickets kept, however slow
\* its workers are and wherever they die: a second ticket needs a receipt that
\* took the first one back.
OneCopyKept == \A p \in Rows : copies[p] <= 1

\* An installation, and a token, serve one account at a time.
OneAccountPerDevice ==
  \A j, k \in Devices : device[j].live /\ device[k].live /\ j # k =>
    j[2] # k[2] /\ device[j].token # device[k].token

\* What a worker learns from Expo revokes a device only while the token Expo
\* disowned is the device's own: a late answer about the old token of a device
\* that registered again leaves it alone.
NewTokenSurvives ==
  [][work' # work => \A k \in Devices :
       device[k].live /\ ~device'[k].live => device[k].token \in gone]_vars

\* Every row of the outbox is settled: accepted, failed or suppressed.
EveryPushSettles ==
  \A p \in Rows : push[p].status # "none" ~> push[p].status \in Settled
=============================================================================
