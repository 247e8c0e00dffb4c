# A TLA+ model of Josi CE

Josi CE is a self-hosted assistant: people talk to it in the web application, in
a native application, or over chat channels; it drafts e-mails, calendar events
and contact changes, asks for approval, and carries approved work out through
connected accounts. It runs as an API process, a worker process, and PostgreSQL.
The processes share **database rows and nothing else**. Almost every rule that
matters ("an approval covers exactly what was shown", "a turn is answered once",
"nothing is repeated after a crash") is therefore a rule about how separate
queries of separate processes interleave, and that is what this project models.

## Conventions of every module

* One `db.query` is one step; one `db.transaction` is one step. Between two
  queries of a handler any other process may run.
* A process that dies is one that takes no further step; where dying has an
  effect of its own (a lost job row, a restart under the same id) there is a
  `WorkerDies` action, bounded by a constant.
* Time is not counted. A deadline is a set of rows whose deadline has passed
  (`lapsed`, `expired`, `stale`), and any row may enter it at any moment.
* Payloads are model values; a payload stands for its hash.
* History variables (what was sent, granted, ran, replied) record what happened in
  the world and guard nothing.
* Definitions named `...AnyStatus`, `...Twice`, `...Lost` and the like stand next
  to the operator they vary. They are deliberate mistakes: with one of them in
  place of the real operator, TLC finds the property named in `PROJECT.json`
  violated, which shows that the property depends on that line of the code.

## Inventory

"M" modelled, "P" partly, "-" not modelled; `PROJECT.json` gives the reasons and the
sources of every part, and the hazards at their lines.

| Part | | State | Operations | What is hard | Correct when |
|---|---|---|---|---|---|
| Tasks, actions, approvals (`core/tasks.ts`, `actionState.ts`, `approvals.ts`) | P | `tasks`, `assistant_action_states`, `approvals` | draft tools of a turn, decide, expire, reconcile, owner edits, `task.wake` | three rows per action, changed by four kinds of process; `transition()` is not a compare-and-set | consent is exact, nothing refused is sent, rows agree, outcomes stay |
| Durable turns (`core/mobile.ts`, `agent/durableEffects.ts`) | P | `assistant_turns`, `assistant_turn_effects`, `assistant_turn_capacity` | submit, retry, claim, renew, fence an effect, complete, fail | leases that expire under a live worker, retries, effects of unknown outcome | `RequestOnce` (below) |
| Job queue and scheduler (`core/queue.ts`, `worker/jobs.ts`) | P | `job_queue`, `schedules` | enqueue, claim, renew, complete, fail, tick | deaths, duplicate delivery, attempts | no accepted work is forgotten |
| Assistant loop (`agent/assistantAgent.ts`, `execute.ts`) | P | none of its own | hops, tool calls | exits at every hop | fences are respected |
| MCP server (`agent/mcp/server.ts`) | P | none of its own | the same tools from another process | outlives the CLI that asked | the same fences hold |
| Custom API calls (`connectors/customApi*.ts`, `agent/customApiTools.ts`) | P | `custom_api_pending_calls`, `_endpoints`, `_connections` | request, approve, deny, send, expire; test, edit, enable, delete | the allowlist changes while a request waits; one claim, after which nothing picks a request up again | `ConsentOnce` (below); sent as approved, to its own host, not when switched off |
| Push (`core/mobile.ts`) | M | `mobile_devices`, `push_deliveries` | register, revoke, notify, dispatch, receipts | leases, account switch, late provider answers | never to a former owner; one copy; every row settles |
| Reminders (`core/reminders.ts`) | P | `reminders` with a revision, its jobs | create, edit, cancel, deliver | a job of an older revision, a body read before an edit | said once, as it stands; it comes |
| Channels (`channels/telegram/*`) | P | `telegram_link_codes`, `_links`, `_updates`, threads | mint, redeem, unlink, handle an update, send | no transactions; redelivery; two redemptions at once | a chat speaks for one account; one turn per message; a revocation holds |
| Storage sync and storage (`connectors/storageSync.ts`, `storage/*`) | P | `folder_mappings`, `documents`, `document_text` | map, enable, disable, revoke, unmap; walk, gate, fetch, index, remove | a walk beside revocations, a changing provider, quotas, deaths | the index is what was granted, current, within the quota, and catches up |
| Calendar sync (`connectors/calendarSync.ts`) | P | `calendar_events`, `_event_links`, `_outbox`, `sync_cursor` | edit, push, pull, resolve | edits merge into a row being sent; lost answers; pulls that overlap | made once; nothing skipped; synced means equal |
| Workflows (`connectors/workflows.ts`, `agent/workflowTools.ts`) | P | `workflow_integrations`, `_definitions`, `_runs`, `_callback_events`, Vault slots | request, decide, send, record, callback; save, discover, disconnect, expose | the connection and its Vault slot change while a run waits; callbacks before the answer | `ConsentOnce`; sent where it was prepared for, and under its credential; ends as reported |
| Provider adapters, models (`connectors/providers/*`, `llm/*`) | P | metering rows | one call | a call that acts without its answer arriving; timeouts, kills | callers assume nothing more |
| Sessions, users, step-up (`auth/*`) | P | sessions, unlocks | login, revoke | revocation while work is queued | ended logins start nothing |
| HTTP API, database schema | P | the rows above | routes, constraints, triggers | - | as above |
| Contact sync, Obsidian | - | cursors, links | pull, apply | pages, deletions | converges |
| OAuth (`connectors/oauthState.ts`, `connections.ts`) | - | `oauth_states`, tokens | start, consume, refresh | two refreshes | a state is used once |
| Mail (`mail/*`) | - | messages, sends | send, receive | retry after SMTP | one message per request |
| Workspace coding, holds and locks, secrets, entitlements, licence, persona, operations, setup, web, OCR, voice, answer guards | - | configuration, text, files | - | little concurrency of their own | - |

How the parts interact: the API inserts a turn and its job in one statement; the
worker claims the job, then the turn, and runs the assistant loop; a tool call
goes through the effect fence into `executeTool`, which writes tasks, actions,
approvals, waiting API requests and workflow runs; the owner's decision (page,
chat, or a "yes") is a transaction that queues `task.wake`, or a route that sends at
once; the worker's `task.wake` calls the provider. A confirmed calendar task becomes
an event with an outbox row. A reminder's job and a completed turn leave rows in
the push outbox, which every tick of the worker empties. Telegram delivers updates
to the API, which runs the turn of the linked account. Expiry jobs and page views
tidy the same rows.

## Modules

| Module | Models |
|---|---|
| `TaskActions` | the life of a drafted action from the tool call to the provider |
| `RequestOnce` | abstract: what a turn promises the person who sent it |
| `DurableTurns` | turns, effects and jobs of one thread; implements `RequestOnce` |
| `ConsentOnce` | abstract: what asking for permission promises |
| `CustomApi` | a custom API, its allowlist and its waiting requests; implements `ConsentOnce` |
| `Workflows` | a workflow connection, its runs and callbacks; implements `ConsentOnce` |
| `PushDelivery` | devices, the push outbox, dispatch and receipts |
| `Reminders` | composes reminders and their job queue with `PushDelivery` |
| `Telegram` | link codes, links, and what one update of the bot does |
| `FolderSync` | the grant of a cloud folder and the walk that indexes it |
| `Calendar` | local events, their outbox, and pulls from Google |
| `MC...` | instances for TLC: symmetry, and tables that a cfg cannot write |
| `...Proofs` | inductive invariant and theorems of the module it is named for (`RemindersProofs`: of `PushDelivery` too) |

### TaskActions

Three kinds of process act on the rows `taskState`, `slots`, `action`,
`approval`, `lapsed` and `wakes`.

* A **turn** is one `draft_*` tool call (`execute.ts:117-261`). Its queries are
  `FindDraft`, `DropDraft` ... `DropWrite` (retiring a draft nobody presented),
  `FindPrepared`, `RetireAction`, `RetireApproval`, `RetireRead`, `RetireWrite`
  (retiring a prepared action that says something else), `CreateTask`,
  `AttachAction`, `MergeSlots`, then `AuthorizeByPolicy` or `RequestApproval`,
  `AwaitRead`, `AwaitWrite`, `Prepare`.
* The **owner** decides (`Decide`, one transaction, reached from the page and
  from a conversational yes or no) and edits (`EditSlots`, `EditCheck`,
  `EditWrite`, `EditWake`: `PATCH /tasks/:id`, `update_task_slots`,
  `approve_task`, `cancel_task`).
* A **worker** runs `task.wake`: `TakeWake`, `ReadTask`, `ReadAction`, `Claim`,
  `CheckAuthorized` or `CheckRefused`, `MarkExecuting`, `CallProvider`,
  `ConfirmRead`/`ConfirmWrite` or `FailRead`/`FailWrite`, `Settle`.
* Time: `Lapse`, `ExpirePrepared`, `ExpireApprovals`, `Reconcile`.

`transition()` appears everywhere as a read step that checks the table (`Legal`)
and a write step that does not look again, because that is what it is.

Abstracted: transactions are atomic (`for update` serialises those that touch the
same action; READ COMMITTED effects inside one are left out); the expiry writes
of `consumeApproval` and its caller are one step (`CheckRefused`);
`FindPrepared` reads the action and its task together; whether a draft may be
continued, whether it is complete and what `needsApproval` answers are left
open (any answer); a single (owner, thread, domain, operation) is modelled, which
is the scope in which drafts replace one another.

### DurableTurns and RequestOnce

`RequestOnce` has three variables: the phase of a request, the effects reserved
for it, and the occasions on which each was carried out. A request is answered
at most once, an effect is reserved before it happens and happens at most once,
and a failed request is tried again only while nothing was reserved.

`DurableTurns` models one thread of one owner. Turns are numbered in the order
of `created_at`; leases in the order they were handed out (uuids in the code).
`Submit` is the statement of `submitDurableTurn` with its triggers;
a worker goes through `ClaimJob`, `ClaimTurn` (the whole statement of
`claimDurableTurn`: revoked, interrupted, claim), `LookAtTurn`, the model phase
(`AskTool`, `FinishModel`), `CheckIncomplete`, `CheckEffects`, `CompleteTurn` or
`FailTurn`, `CompleteJob` or `FailJob`, with `Renew` for the heartbeat and
`Throw`, `ThrowJob` and `Settled` for queries that fail or whose answer is lost.
A tool call is a process of its own (`Begin`, `Run`, `SaveReceipt`), waited for
when tools run in process and not when they run in the MCP server
(`OutOfProcess`).

The refinement maps a request to the chain of its attempts: the root turn, its
retry, the retry of that (`request` records the root). The phase is "working"
while some attempt is queued or running, "answered" when one is completed, else
"failed"; what is reserved and carried out is the union over the chain. So
`KeepsPromise` says that **no chain of retries** is answered twice or repeats an
effect, although every attempt has fences of its own.

Abstracted: sending a `client_message_id` again returns the row it made, a
stutter; the two queries of `beginDurableToolEffect` are one step (only
the owner of the lease can change what the second one reads); the heartbeat's two
updates are one; the subqueries of one statement see one snapshot, and what READ
COMMITTED lets a concurrent statement slip in between snapshot and row lock is
left out; `attempts` stops at `MaxAttempts`, the only value it is compared with;
a turn always passes the checks of `submitDurableTurn` on attachments and reply
target (a refused submission changes nothing).

### CustomApi and ConsentOnce

`ConsentOnce` has four variables: the phase of a request, whom it was prepared
for, who agreed to it, and how often it was carried out. It is carried out at
most once, after that person agreed, and never after it was refused. What is
withdrawn after the agreement may still be on its way.

`CustomApi` models one connection, from the moment it serves, and four kinds of
process acting on the rows `connection`, `endpoint`, `calls` and `lapsed`.

* A **run of `call_custom_api`** (`ask`): `AskResolve`, `AskConnection` (the two
  queries of `resolveCustomApiAction`, with `buildCustomApiRequest`), then
  `AskFetch` and `AskCheck` for a read, or `AskInsert` for a write: the upsert of
  `requestCustomApiCall`, which renews the deadline of the same question.
* A **decision route** (`tap`): `TapRead` is the read at the head of
  `claimApproved` and `denyCustomApiCall`; then `TapDeny`, `TapExpire` or `TapClaim`;
  after a claim `TapEndpoint`, `TapConnection`, `TapRefuse` or `TapSend`, `TapCheck`,
  `TapResult`, `TapEvent`, with `TapCaught` and `TapCaughtResult` for the catch
  block. `TapThrows` is a query inside the try block that fails; `TapDies` is one
  outside of it, or the end of the process.
* An **administrator** (`admin`): `AdminRead` followed by `EditConnection`,
  `TestFetch` and `TestRecord`, or `EnableConnection`, each of which uses the row
  as it was read; and the operations whose write uses nothing that was read.
* The **clock and the worker**: `Lapse`, `ExpireCalls`.

`endpoint[e].meaning` is everything a row says (method, path template,
parameters), a payload is the base it was built on, the meaning and the
arguments: sealing and hashing make it a value that cannot change, so
`openApprovedRequest` is the identity on it. The history variable `barred` collects
the requests whose owner decided while a switch was off; any switch turned on
again empties it, which makes `SwitchedOffIsNotSent` as strong as the route's two
separate reads allow and no stronger.

The refinement maps a request to "granted" from its claim on, whatever its row
says later, to "asked" while it is pending, and to "refused" when it was
denied, ran out, or was deleted with its endpoint before anybody agreed.
`ExpireCalls` and the cascades refuse several requests at once.

Abstracted: creating the connection is `Init`; `status` and
`last_error_category`, which no guard reads, are left out, so that 403 and 429
look like any other failure; a base URL is a host and a rest, in which
the kind of authentication is included; replacing the credential is a flag of
`EditConnection`; an OpenAPI import is several `CreateEndpoint`; an ask whose fetch
threw counts as sent (with the outcome "other"); a run of the tool may stop
anywhere; events are left out except as queries that may fail; the clocks
of API and database are one; deleting a user or a thread is left out.

### PushDelivery

One row of `device` per account and installation, one row of `push` per event
and device. A registration (`Register`) switches the account of an installation,
`Revoke` ends one. `Notify` is any of the inserts that leave a row per device: reminders and
completed turns for every live device, tasks and approvals only for those that are not
in the foreground (`front`). A worker
goes through `Claim` (what is due, and what another worker let go stale), `Check`
(the transaction that takes the lock, reads each device and writes what is
suppressed or deferred), `Fence` (the guarded write of the token, before Expo is called) and `Tickets` or `SendFails`; later `ClaimReceipts` and one
of the `Receipt...` steps per row. Registration, revocation and dispatch exclude
each other by an advisory lock that is held to the end of the dispatching transaction,
while Expo is being called; receipts take no lock. A worker is slow when another one takes a row it still
holds, dead when it dies (`Die`): both cost one `trouble`. `copies` counts the tickets Expo gave
for a row and did not take back.

Abstracted: backoff (a row due again is due at any moment), message texts, sealing
of tokens (it works or does not, `sealed`), quiet hours (an answer that is left open).

### Reminders

The explicit events of `PushDelivery` are reminders. `Create`, `Update` and `Cancel` are
the owner's, each one transaction with the job of its revision; a worker goes
through `ClaimJob`, `ReadBody`, `Deliver` (the transaction that takes the row only at its
revision, says it and fills the outbox), `Telegram`, `CompleteJob`; `FailJob` requeues or gives up, `DieOnErrand` leaves a running row that
nobody reclaims. A worker turns to the outbox when it has no errand. Time is a
small clock here, because a reminder is about one: a job that failed is due again a tick
later, which stands for the backoff of `failJob` (`queue.ts:70`), and the clock goes beyond
`MaxTime` only while a job waits for that. So the job of a reminder is due at its time or
after it, never exactly at it once an attempt failed.

### Telegram

No operation of the channel opens a transaction, so a request is a chain of single
statements: minting (`MintBegin`, `MintInsert`, `MintNoCode`), unlinking (`UnlinkBegin`, `UnlinkLink`,
`UnlinkCodes`), and an update from `Receive`, which is the insert that makes `update_id`
unique, over `Identify`, `Redeem`, `LookForLink`, `InsertLink` or `FindThread`,
`BindThread`, `Turn` to `Reply`, `Sent`, `NotSent` or `ChatDead` and `RevokeForDeadChat`. A request
dies anywhere (`Die`); Telegram delivers again what was not acknowledged.
Two requests are under way, each of which does one thing after the other.

`revoked` of a request collects the links that were revoked when it received its
message. Abstracted: rate limit windows (any message may be over the limit), the
text of replies, attachments, the bot's configuration, the other channels.

### FolderSync

One mapped folder of one person, without subfolders. `Map`, `Enable`, `DisableBegin`/`DisableEnd`,
`RevokeBegin`/`RevokeEnd`, `UnmapBegin`/`UnmapEnd` are the person's and the administrator's
requests; the walk is `Start`, `Open`, `ListPage` and `Listed`, per file `Upsert`, `Gate`, `ScanBlocked`,
`MarkSkipped`, `Stamp`, `Fetch`, `FetchFails`, `Skip`, `SkipText`, `Clear`, `Insert`, `Indexed`, `Size`, and `Remove` at
its end; `Die` cuts it short anywhere. The provider's files change meanwhile
(`Edit`, `Delete`). A version is a file's content and its stamp; a document has a stamp, a state
and the version its text is from. `quiet` stops everything but the worker, which is
what liveness is about.

Abstracted: text and its extraction (a version can be indexed or not), malware findings,
`sync_state` and the global pause (no guard of the walk reads them between its statements),
the two queries of enabling a mapping (one step), local folders, writes to a folder.

### Calendar

`Create` and `Update` are an edit with its outbox row; the worker goes through `Enqueue`,
`Claim`, `Read`, then `Post` or `Patch` and what Google may answer (`AlreadyThere` and `Adopt` for 409,
`PatchRefused` for 412, `PostMisplaced` when no link is found, `NotSent` for any other), `Linked`, `Done`. A pull is `Begin`, `List` or
`CursorGone` (410), per item `Look` and `Cancelled`, `Conflict`, or `Take` with `Relink` or `Insert`, then `End`, or `PullFails`. Google moves by
`GoogleEdits` and `GoogleCancels`. A `Mark` is a fingerprint, which says whose fields it
was made of: a fingerprint of a row never equals one of an item of Google's, because
the two are made of differently named fields. `taken` records what a pull put to the
calendar.

Abstracted: the rows of a claimed batch are read one by one; link and state of a
pushed event are one step, as are reading and writing of an edit; pages
are one listing; the origin's own status is left out (it guards only what the
single worker starts); a tombstone at Google is an item that is not live.

### Workflows

One connection and one workflow of it. `Request` writes a run with the boundary
(address, credential, target) as it is then, the input sealed. The credential of a row
is a pointer to a Vault slot; `vault` is the save whose token the slot holds, `cred` the save
that wrote the row. A decision route (`tap`) goes through `TapRead`, `TapDeny` or `TapClaim`, `TapCheck`
(the row that `TapRead` read, compared with the boundary), `TapSecret` (the token, from the slot as it is
then), `TapSend`, `TapRecord`, `TapLog`, with `TapThrows` and
`TapCaught` for the catch block and `Die` for the end of the process. The provider ends a run (`Ends`) and calls back:
`Callback` is the look at the events, `RecordCallback` the write. An administrator
(`admin`) saves (`Save`, `SaveStore`, which overwrites the slot, `SaveRow`, `Hide`), discovers (`Discover`, `DiscoverFound`, `DiscoverFails`,
`Activate`, `Enable`), disconnects (`Disconnect`, `DisconnectClear`), exposes or hides (`Expose`) and registers webhook targets (`RegisterWebhook`).

The refinement of `ConsentOnce` maps a run to "granted" from its claim on. Abstracted: creating the
connection (`Init` is one that serves), schemas and validation, the deletion of history
after thirty days, a Vault that was never set up; the read and the insert of the request route are one step. The
pointer a save writes is sealed anew, and a sealed text is never the same twice, so that `cred`
tells two saves apart although both point at the same slot.

## Runs

Eleven runs pass; `calendar_recovery` is violated.

| Run | Instance | Shows |
|---|---|---|
| `task_drafts` | 2 tool calls, 2 tasks, 2 approvals, 1 payload, 2 workers, 1 death; fair | `RefusedIsNeverSent`, `ApprovalAndActionAgree`, `OutcomeIsFinal`, `EveryDraftSettles` |
| `task_edits` | 1 tool call, 1 task, 2 payloads, 2 owner requests, 2 workers, 1 death; symmetric | `ExactConsent`, `OneCallPerReadyTask` |
| `turn_races` | 2 turns, 2 workers that may stall for ever anywhere, 1 effect key, 1 login; symmetric | `RetryFindsNothing`, `TurnsInOrder`, `KeepsPromise` |
| `turn_live` | 2 turns, 1 worker, 2 deaths, 1 exception; fair | `EffectsRunOnce`, `CapacityIsExact`, `AcceptedIsSettled` |
| `api_calls` | 1 person, 1 endpoint, 1 request, 2 hosts, a read and a write, 1 ask and 2 decision routes at a time (each any number of times), 1 administrator with 2 changes; fair | `ExecutedWasSent`, `SentAsApproved`, `KeepsConsent`, `EveryCallSettles` |
| `push_races` | 2 accounts, 1 phone, 2 tokens, 2 workers, 1 event, 2 registrations, 1 slow batch or death; symmetric | `SentToItsOwner`, `OneCopyKept`, `NewTokenSurvives` |
| `reminders_delivery` | 1 reminder, 2 texts, 2 revisions, 2 instants ahead, 2 attempts at a job, 2 workers, 1 phone, 1 death or failed query; fair | `SaidAsItStands`, `ScheduledKeepsItsJob`, `ReminderComes`, `EveryPushSettles` |
| `telegram_links` | 2 accounts, 1 chat, 2 codes, 3 messages, 2 requests at a time, 2 links, 1 death; symmetric | `OneAccountPerChat`, `OneTurnAsTheLinkedUser`, `RevokedBeforeIsRefused`, `ThreadOfItsUser` |
| `folders_walks` | 2 files, one of them a Google document and one that grows too large, 2 edits, quotas of 1 and 2, 1 mapping, 1 request under way, 1 death; fair | `SettledIsCurrent`, `UnmappedLeavesNothing`, `QuotaKept`, `OnlyTheGoneAreRemoved`, `IndexCatchesUp` |
| `calendar_pulls` | 2 local events, 1 of Google's, 2 texts, the worker and one request of the API that pull, 2 edits, 1 change at Google, 1 lost answer or death; symmetric | `MadeOnce`, `NothingSkipped` |
| `workflow_runs` | 1 run, 2 decision routes, 1 administrator, 2 callbacks at once, 1 target, 2 changes, 1 death or failed query; fair | `SentAsPrepared`, `SentUnderItsCredential`, `SucceededWasReported`, `AcknowledgedStays`, `KeepsConsent`, `CompletedIsSettled` |
| `calendar_recovery` | 1 event, the worker, 2 edits, 1 lost answer or death | **violated**: `SyncedIsPushed` |

Each takes between a few seconds and three and a half minutes with two workers; the
largest is `telegram_links` with 1,447,624 distinct states.

Why the bounds suffice: two drafts of one conversation are what it takes for one
to retire the other; two payloads tell "what was approved" from "what was
edited"; two workers race for a claim and one of them may be stalled with stale
reads; a third of any of these only repeats an interleaving. A turn with a
predecessor and a retry needs two turns. One effect key and two hops let a model
repeat a call. `MaxAttempts = 2` lets a turn's job die. `Asks`, `Taps` and `Admins` bound
what is in flight at one time, not how often it happens, and one request of
`CustomApi` meets every change its endpoint can undergo; two changes are an edit or a move and
what switches the connection on again. Two accounts and one phone are what an account
switch needs, two tokens what a registration again needs. Two revisions are an edit under a running job.
Two codes and two links are two redemptions at once; three messages are one to link, one to
revoke, one that is refused. Two files tell the file in hand from the others and fill a quota of one. Two edits
are a create and an edit under way; one change of Google's is one that a pull
may miss. What is shown of small sets and marked in the table of theorems
below is proved for any number.

Symmetry is used only in runs without liveness properties, over ids that no
formula tells apart.

Deadlock is not checked: every instance really stops, when its turns, edits and
requests are used up.

### Fairness

`TaskActions!FairSpec`: weak fairness of each worker's step (the worker ticks
every 30 seconds and its queries return or throw), of `Lapse` (the clock moves)
and of `ExpirePrepared` (its schedule fires for ever). Nothing is assumed of
turns or of the owner. `DurableTurns!FairSpec`: the same for workers,
for `LeaseExpires` and `JobGrowsStale`, and for some tool call making progress
(tools have time limits). Nothing obliges a model to ask for anything, a client
to submit, or a heartbeat to fire. `CustomApi!FairSpec`: weak fairness of each
decision route's own steps (`TapWork`; dying and failing queries are excluded, and
nobody is obliged to call the route), of `Lapse` and of `ExpireCalls`.
`Reminders!AllFairSpec`: the clock, each worker's errand, and each worker's step at the
outbox when it has no errand (both belong to every tick). `FolderSync!FairSpec`: the walk
as a whole and the second halves of the API's requests; the provider may fail again and
again, so that a walk is repeated and not resumed, and only `quiet` behaviours are
promised anything. `Workflows!FairSpec`: a decision that has begun goes on, the provider ends
what it took up and repeats a callback that was not acknowledged; nothing obliges
anybody to decide. `Telegram` and `Calendar` have no liveness property.

### What the liveness properties exempt, and why

* `EveryDraftSettles` is `PreparedIsSettled` and `ApprovedIsSettled`; the second holds
  "unless a worker dies": only `assistant.turn` rows are ever reclaimed from a dead worker.
* `AcceptedIsSettled` holds "unless some job ended with an exception": an exception
  in the catch block of `assistant.turn` requeues the job while the turn is still
  running; the job is claimed again before the lease runs out, finds the turn
  running, and is marked done.
* `EveryCallSettles` is `WaitingRunsOut` (a question that is no longer repeated; each
  repetition renews the deadline) and `ResultIsRecorded` ("unless the route stopped":
  the decision and the request are separate statements).
* `ReminderComes` exempts a job whose worker died and one that was given up.
* `CompletedIsSettled` exempts a run that no request sends any more and whose id at the
  provider was never recorded, and a connection that is switched off.
* `IndexCatchesUp` is about a mapping that is active: one that was paused never is again.

### The violated property

`SyncedIsPushed` states what the repository documents and tests of a create whose answer was lost
(quoted under `findings`): when the event is edited before the retry, the retry adopts
what Google has from before the edit, marks the event as synced, and the edit never
reaches Google.

There is a second way, without any lost answer: two pulls overlap, and the one with
the older listing writes its text between the text and the link of the newer
(`calendarSync.ts:215` makes two statements of them), so that the event keeps the old text under
the new version. `SyncedUnlessAdopted` proves that it takes one or the other: a create
that adopts what it would not have posted, or a pull by the API.

### Disagreements met while modelling that have no run

These are reachable in the models or in what they abstract.

* `approvals.ts:543` says an approval is spent once; `consumeApproval` (548) marks nothing, and a
  failed task made ready again carries a second call under it.
* `actionState.ts:128` answers "was not sent" for an action whose retry succeeded, because
  `settleActionForTask` (250) leaves a failed action alone.
* `tasks.ts:32` says an unlisted transition throws; `transition()` (187) checks a row read
  earlier, so two that interleave may write an unlisted edge.
* With tools in the MCP server, an effect can pass its fence between
  `durableTurnHasEffects` (`jobs.ts:114`) and the write that makes the turn retryable,
  against `docs/DURABLE_MOBILE_TURNS.md:58`.
* With a second worker a turn's job can be completed by the process that does not run it,
  so that a death strands the turn.
* An approved API request whose route stops is never made (`customApiCalls.ts:231`); enabling a
  connection trusts a test of a row that was edited since (`customApi.ts:634`); a
  request is sent as it was sealed although its endpoint was edited meanwhile; a decision that
  read an old deadline expires a renewed request.
* Indexing that is switched off during a walk leaves what the walk still writes
  (`mappings.ts:283`); a paused mapping is never active again although its message says
  syncing resumes (`versions.ts:289`); Google documents are read again on every walk, and
  dropped from the index at a full quota (`storageSync.ts:504`).
* Two requests that mint a code at once leave two live codes (`linking.ts:78`, against
  `docs/TELEGRAM.md:141`); two first messages make two threads (`inbound.ts:328`); a reply is still sent after an
  unlink; a dead chat does not withdraw codes.
* Calendar: every pulled change of an event that was pushed reads as a conflict, for a
  fingerprint of a row never equals one of an item; rows left running by a death stay so;
  overlapping pulls can make a local event twice; a listing after a 410
  overwrites an edit that was not pushed yet.
* Workflows: `docs/DEVELOPER_SERVICE_CONNECTIONS.md:86` says "Credential, execution-target, schema,
  or exposure changes invalidate a pending request." The boundary holds the sealed pointer, not the token.
  When a decision has read the row, and an administrator's save then
  puts its token into the slot (`workflows.ts:239-251`) before the row (261), the decision claims the run, finds its row
  within the boundary (792), reads the slot (803) and sends to the old address under
  the new token. `SentUnderItsCredential` exempts exactly these runs (`replaced`), and shows
  that there is no other way while administrators act one after another; two saves that
  overlap can leave the token of the one beside the row of the other. Hiding and exposing
  again leaves a pending request valid. A run stays
  running for ever when its process dies or the secret is gone; a failure of the log
  overwrites a recorded outcome with "failed" (`unlogged`).

## Proofs

`TaskActionsProofs` proves, for any sets of tasks, approvals, payloads, turns,
edits, workers and any bound on deaths, under `NoneAssumption` (null is not an
id) and `CrashAssumption` (the bound is a number):

* `TypeCorrect`: `Spec => []TypeOK`
* `ConsentIsExact`: `Spec => []ExactConsent`
* `CallsAreClaimed`: `Spec => []OneCallPerReadyTask`
* `SuccessIsReal`: `Spec => []SucceededWasSent`
* `RefusalsHold`: `Spec => []RefusedIsNeverSent`
* `DecisionsAgree`: `Spec => []ApprovalAndActionAgree`
* `OutcomesAreFinal`: `Spec => OutcomeIsFinal`

The first four follow from `Invariance`, `Spec => []IInv`. Why an inductive invariant is needed:
that a call carries a granted payload is known only because the worker compared
the claimed slots with the hash of an approval (`Bound`: what a worker past its
check holds was granted), an approved approval was decided for the payload it
was requested for (`GrantsRecorded`, `ApprovalsMatch`), and a request keeps its
payload for ever. That calls are claimed once needs the numbering of claims
(`ClaimsCounted`: a worker past its claim holds a number nobody else holds, and
claims never exceed the writes that made the task ready). That a success is
real needs `ReportsAreTrue`: a worker on its way to report success has a call
of its task behind it. `IInv` is the conjunction of these; there is one lemma per
action, each with one step per part of the invariant it can disturb.

The other three follow from `DecisionInvariance`, `Spec => []DecisionInv`, proved on top of
`IInv`. `NextMoves` says once what any step may make of an action row (`RowMove`) and of an
approval (`ApprovalMove`): an outcome is left by no move, which is `OutcomeIsFinal`, and a
decision moves both rows at once, which keeps `DecisionsMatch`. A decided action stays
decided (`DecidedStays`), so `OnlyDecidedIsSent` needs to look only at the step that
authorises a worker, where the approval it finds approved points back at its own action.
The row of a task is inserted once, by the call that made the task (`AttachedOnce`):
otherwise a late insert could reopen what was decided.

`DurableTurnsProofs` proves, for any number of turns, logins, effect keys,
workers, attempts, hops, deaths and exceptions, under `BoundsAssumption` (the
bounds are numbers, a job has at least one attempt) and `NoneAssumption`:

* `TypeCorrect`: `Spec => []TypeOK`, the range of the capacity counter included
* `EffectsHappenOnce`: `Spec => []EffectsRunOnce`
* `OneReplyEach`: `Spec => []RepliesMatch`
* `RunInOrder`: `Spec => []TurnsInOrder`
* `CapacityCounts`: `Spec => []CapacityIsExact`
* `WaitingHaveJobs`: `Spec => []QueuedKeepsItsJob`
* `RetriesFindNothing`: `Spec => [](~OutOfProcess => RetryFindsNothing)`; the
  condition is needed: out of process, an effect can pass its fence after the
  look (see the disagreements above)
* `SettledStays`: `Spec => SettledIsFinal`
* `ImplementsPromise`: `~OutOfProcess => (Spec => KeepsPromise)`, the refinement of
  `RequestOnce`, under the same condition

The argument, part by part of its `IInv`:

* **Leases identify runs.** `TokensDiffer`: two workers never hold the same lease,
  since `ClaimTurn` draws a new one. So a run whose lease was taken away can
  never pass the fence `Holds` again (`HeldBefore`).
* **Replies and effects.** `RepliesMatch` is kept by its fence alone.
  `EffectsRunOnce` needs `GrantedOnce`: a call past its fence is the only one with
  its turn and key, and has not acted yet.
* **Retries.** A turn is marked retryable by a worker that looked for effects one
  query earlier. `FailureIsClean` says that the look is still true if the lease
  is: a call that reserved an effect in between would hold the same lease, in
  process it would have a worker waiting for it (`CallsAreAwaited`), and that
  worker would be the same one, which is not waiting but failing its turn. Out of
  process nobody waits, and the argument breaks there.
* **Order and queue.** `SubmittedInOrder`, `SentFirst` and `BegunIsNotQueued`: what
  ends a job is a worker whose turn began, or that saw it settled, and such a
  turn never waits again.
* **Capacity.** Each release subtracts exactly the turns that leave the counted
  set (`Released`), by the library's facts about cardinality.
* **Refinement.** On top of `IInv`, `ChainInv` says that of two attempts at one request
  the earlier was tried again. What was tried again failed and did nothing
  (`RetriedDidNothing`), so a turn that waits, runs, was answered or reserved anything is
  the last attempt (`LastIsAlone`), and a request says what that attempt says
  (`AloneSays`). `OneTurn` then turns a step of it into a step of its request;
  `ClaimTurn` gives up several requests at once.

`Continued` and `Claimed` say what any step leaves of a worker, `Forward` what it
leaves of a turn, `Passes`/`Acts`/`Ends` what a step of a call does; each part of
the invariant is then kept by arguments about these rather than about the
twenty actions.

`CustomApiProofs` proves, for any sets of people, endpoints, requests, hosts,
meanings, runs of the tool, decision routes and administrators, and any bound on
changes, under `ReadsAssumption`, `ChangesAssumption` and `NoneAssumption`:

* `TypeCorrect`: `Spec => []TypeOK` (no request is sent twice)
* `SentIsApproved`, `HostIsKept`, `SwitchesCount`, `ExecutedIsSent`:
  `Spec => []SentAsApproved`, `[]StaysOnHost`, `[]SwitchedOffIsNotSent`,
  `[]ExecutedWasSent`
* `SettledIsFinal`: `Spec => SettledStays`
* `ImplementsConsent`: `Spec => KeepsConsent`, the refinement of `ConsentOnce`

The argument, by the parts of its `IInv`:

* **One route past the claim.** `OneRouteEach`: `TapClaim` needs a pending row and
  leaves an approved one, so no two routes are deciding on the same request;
  `RouteOK` then says what a deciding route may rely on: the request was granted,
  was not sent before `TapSend` and was sent once after it, and its row is
  approved, or deleted, until the result is recorded. This gives `carried <= 1`.
* **Rows and agreement.** `RequestOK`: `granted` is set exactly for what was
  approved, by the owner, and a row that exists never changes its owner, endpoint
  or payload (`SaysTheSame`, kept by every step), which is why what was sent still
  equals what the row says.
* **Switches.** `BarredIsOff`: a barred request has a switch that is off; it stays
  off, since turning any on empties `barred`; the route reads one switch first and
  the other later, so `RouteOK` carries the fact that a route that saw its
  endpoint on has its connection off.
* **Refinement.** A claim is `Agree`, a send is `CarryOut`, an insert is `Ask`;
  `Withdrawn` shows that every other change of `calls` only moves pending rows to a
  refusal, which is `Refuse`, or leaves every phase alone, a stutter.

`AskRows`, `TapRows`, `AdminRows` and `ClockRows` say once what a family of steps
leaves of the rows; the invariant's parts cite these and not the thirty actions.

`RemindersProofs` proves of `PushDelivery`, for any numbers of accounts, phones, tokens, events and
workers, finite where they are counted (`FiniteAssumption`): `SentToItsOwnerAlways`,
`OneAccountPerDeviceAlways`, `OneCopyKeptAlways`, `NewTokenSurvivesAlways` and
`TypeCorrect`. `LeasesHold` says that a worker whose lease a row still carries finds
it as it left it, and that what its transaction wrote carries its lease, because a
locked row cannot be claimed; `VerdictsFit` says what it can have decided so far;
`CopiesMatch` ties the number of tickets kept to the status of the row, so that a row
about to be sent has none. That the token is its owner's while Expo has the message
needs the lock: nobody registers between `Check` and the commit.

Of `Reminders` the same module proves `SaidAsItStandsAlways` and
`ScheduledKeepsItsJobAlways`, for any numbers of reminders, revisions, due times and
workers. What one claims and says in one statement is easy; what a worker may rely on
while others edit, cancel, die and move the clock is the invariant `RInv`:

* `ErrandsRun`: a worker that has a job runs it, and it was due when it was claimed. A
  worker whose revision is not due therefore runs for a revision that is over
  (`NotDueIsOver`), and completing its job uses up nobody's.
* `OneErrandEach`: no two workers run one job, which is why a failure or a completion
  changes the job of the worker that reports it.
* `ErrandsKnow`: the body a worker read is that of its revision as long as that revision
  stands, and Telegram's copy comes from the one errand that said it.
* `NoJobAhead`, `ScheduledIsWhole`: jobs exist up to the current revision only, so that an
  edit's job is new and not an old row that a conflict would leave as it was.

**Composition.** `RemindersPush` shows that every step of reminders is a step of the
outbox or leaves the outbox alone (`DeliverNotifies`: a delivery is a `Notify` of an event
that has no row yet, which needs `SaidAsItStands`). With it `RemindersPushSafely` and
`RemindersKeepTokens` carry what is proved of `PushDelivery` over to the composed system.

`TelegramProofs` proves, for any numbers of accounts, chats, codes, messages and
requests, `OneAccountPerChatAlways`, `EveryLinkHasItsCodeAlways`, `OneTurnAlways`,
`RevokedIsRefusedAlways` and `ThreadOfItsUserAlways`. Without transactions each
request must carry what it relies on from statement to statement, and that is the
invariant: `HasItsCode` (the code it spent is spent in its chat and makes no link
yet), `ForItsLink`, `InItsThread`, `BeforeItsTurn`, `KnowsTheRevoked`, with `Apart` (no
two requests share a message or a code), `LinksAreSealed` (a link comes from one
code) and `ThreadsComeOnce`. `Kept` says what a step of one request leaves of another's.

`FolderSyncProofs` proves, for any folder, gates, quotas and bounds,
`SettledIsCurrentAlways`, `UnmappedLeavesNothingAlways`, `QuotaAlwaysKept` and
`OnlyTheGoneAreEverRemoved`. `InHandAt` follows the file in hand from its gate to its
text; `OrphanWritesNothing` is what makes a walk harmless whose mapping went: every
write of it finds no row; `UsageCounts` ties the number a walk carries to the rows
that count, the file before its gate left out; `WalkSaw` says that a complete walk
listed every file that never went away.

`CalendarProofs` proves, for any numbers of events, texts and requests of the API,
`MadeOnceAlways` and `NothingIsSkipped`. The first rests on `MadeById`: what Google has
for an event has the id of that event. The second needs `Known`: what was given out up
to a cursor was put to the calendar, for the stored cursor and the one every pull
read, and `Covers`: of what a pull listed, the rest is still to do as it was listed;
`NoneAhead` keeps the versions to come beyond every cursor.

`SyncedUnlessAdopted` says when the violated `SyncedIsPushed` does hold: where only the
worker pulls (`Apis = {}`), along behaviours in which a create that finds its id taken
adopts what it would have posted (`AdoptsItsOwn`). Nothing else is excluded: lost answers,
deaths, dropped cursors, and changes and cancellations at Google in between. Its `SInv`
rests on Google only moving on: `Agrees` ties a synced event to the version it is linked to
when that is Google's latest, `OneLink` (`OneLinkAlways`) says that no two events stand for
one of Google's, `OneAtATime` that a worker pushes or pulls, `WorkFits` and `PullFits` what
each step of a push and of a pull still knows of the event in hand, and that a cancelled
item is never the version it was last linked to. The run `calendar_recovery` violates
`AdoptsItsOwn` on its way to the counterexample.

`WorkflowsProofs` proves, for any numbers of runs, owners, decisions, administrators and
callbacks, `SentAsPreparedAlways`, `SucceededWasReportedAlways`, `AcknowledgedStaysAlways`
and `ImplementsConsent`, the refinement of `ConsentOnce`. `RunInv` says that a run is
untouched until it was claimed, and by its owner; `TapInv` what a request that claimed
a run may rely on between its queries; `Alone` that no two requests send one run;
`Traces` what a sending request leaves behind.

`CredentialKeptUnlessSaved` proves `SentUnderItsCredential` along behaviours in which
administrators act one after another (`OneAfterAnother`), of which the run has one. Its `KInv` rests on
`SlotFits`: outside a save the slot
holds the token of the row, and during one the connection is off, so that no decision
begins; `TapFits` says that what a deciding request read is what the slot holds, unless
the slot was written since.

Only model-checked: all liveness (`EveryDraftSettles`, `AcceptedIsSettled`,
`EveryCallSettles`, `ReminderComes`, `EveryPushSettles`, `IndexCatchesUp`,
`CompletedIsSettled`): fairness and `ENABLED` are beyond the prover. Every invariant and every
action property of the passing runs is stated by a theorem.

## Not modelled

* **Text**: replies, guards, presentation, prompts, persona and memory; formatting
  of calendar phrases. Their tests enumerate phrases, which a model cannot improve on.
* **Adapters without state**: providers, developer services, OCR, voice, the
  web application, setup, backup and update (sequences of external commands).
* **Cryptography** (vault, sealing, master key): a value is sealed or not; who
  may read it is not a question of interleaving.
* **Contact sync and Obsidian** have the shape of `Calendar` and `FolderSync`
  (cursor, page, apply), with records as payload.
* **OAuth handshakes, mail threads, step-up grants, holds and locks**: each state is
  consumed by one guarded statement; refreshes of a token by two processes and
  the deduplication of sent mail would be the next modules.
* **The rest of `storage`**: document versions, local folders, chat attachments, and the
  processing queue of `queue.ts`, whose `claimNext` and `finishJob` nothing outside
  the tests calls.
* **Entitlements, licence and parental limits**: they answer guards that the
  modules leave open (any answer), so that what is shown holds whatever they say.

Much of the repository's volume is of these kinds (pages, routes that read, setup,
adapters, migrations of tables that one process writes), which is why the modules stand
for a small share of its lines.
