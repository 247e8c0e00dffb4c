----------------------------- MODULE Workflows -----------------------------
(***************************************************************************)
(* Runs of an automation at Zapier, n8n or Make: prepared by the assistant *)
(* or a person, approved by that person, sent once, and ended by what the  *)
(* provider answers or reports later.  One connection to a provider and    *)
(* one workflow of it, which administrators change meanwhile.              *)
(*                                                                         *)
(*   packages/connectors/src/workflows.ts     connection, run, callback    *)
(*   apps/api/src/http/workflowRoutes.ts      the routes                   *)
(*   packages/agent/src/workflowTools.ts      the assistant's request      *)
(*   packages/db/migrations/0046_native_workflow_integrations.sql          *)
(*                                                                         *)
(* The input of a run is sealed into its row and read from nowhere else,   *)
(* so it has no name here.  A target stands for execution_ref and schema.  *)
(* A credential is named by the save that brought it: the sealed row       *)
(* (credentials_enc) only points to the Vault's slot, which has the token. *)
(***************************************************************************)
EXTENDS Naturals

CONSTANTS
  Runs,
  Owners,
  Taps,          \* requests that decide
  Admins,        \* requests that save, discover or disconnect
  Deliveries,    \* callbacks of the provider under way at once
  Bases,         \* addresses of the provider
  Targets,       \* what a workflow runs, and with which schema
  MaxChanges, MaxTrouble,  \* bounds of a behaviour
  None

ASSUME NoneAssumption == None \notin Owners \cup Targets \cup Runs
ASSUME BoundsAssumption == MaxChanges \in Nat /\ MaxTrouble \in Nat

VARIABLES
  integration,   \* workflow_integrations; cred is the save that sealed credentials_enc, 0 when empty
  definition,    \* workflow_definitions
  vault,         \* the save whose token is in the Vault's slot, 0 when the slots are deleted
  run,           \* workflow_runs
  lapsed,        \* runs past their expires_at
  events,        \* workflow_callback_events: the completions recorded, by run
  tap, admin,    \* the requests
  arrived,       \* callbacks between the look at events and the write
  outside,       \* what became of each run at the provider
  granted,       \* history: who approved a run
  carried,       \* history: how often the provider was called for it
  sent,          \* history: those calls, with the address, token and target used
  replaced,      \* history: runs whose decision was between row and token when the slot was written
  acknowledged,  \* history: what an acknowledged callback said of it
  unlogged,      \* history: runs whose record was made and not logged
  changes, trouble  \* so far

slot == <<vault, replaced>>
rows == <<integration, definition, slot>>
history == <<granted, carried, sent, acknowledged, unlogged>>
vars == <<rows, run, lapsed, events, tap, admin, arrived, outside, history, changes, trouble>>

Boundary == [base |-> integration.base, cred |-> integration.cred, target |-> definition.target]
NoBoundary == [base |-> None, cred |-> 0, target |-> None]
NoRun == [status |-> "none", owner |-> None, boundary |-> NoBoundary, external |-> FALSE]
IdleTap == [pc |-> "idle", run |-> None, approve |-> FALSE, boundary |-> NoBoundary,
            token |-> 0, result |-> "running"]
IdleAdmin == [pc |-> "idle", base |-> None, token |-> 0]

----------------------------------------------------------------------------
(* requestWorkflowRun.                                                     *)

Accessible == integration.enabled /\ definition.active /\ definition.exposed

Request(r, u) ==
  /\ run[r].status = "none" /\ Accessible
  /\ run' = [run EXCEPT ![r] =
       [status |-> "pending", owner |-> u, boundary |-> Boundary, external |-> FALSE]]
  /\ UNCHANGED <<rows, lapsed, events, tap, admin, arrived, outside, history, changes, trouble>>

Lapse(r) ==
  /\ run[r].status = "pending" /\ r \notin lapsed
  /\ lapsed' = lapsed \cup {r}
  /\ UNCHANGED <<rows, run, events, tap, admin, arrived, outside, history, changes, trouble>>

Expired(R) == [r \in Runs |-> IF r \in R /\ run[r].status = "pending"
                                THEN [run[r] EXCEPT !.status = "expired"] ELSE run[r]]

\* workflowHistory
History(u) ==
  /\ run' = Expired({r \in lapsed : run[r].owner = u})
  /\ UNCHANGED <<rows, lapsed, events, tap, admin, arrived, outside, history, changes, trouble>>

----------------------------------------------------------------------------
(* executeWorkflowRun.                                                     *)

Tap(t, u, r, approve) ==
  /\ tap[t].pc = "idle" /\ run[r].status # "none"
  /\ run' = Expired(lapsed)
  /\ tap' = IF run[r].owner = u
              THEN [tap EXCEPT ![t] = [IdleTap EXCEPT !.pc = "read", !.run = r, !.approve = approve]]
              ELSE tap
  /\ UNCHANGED <<rows, lapsed, events, admin, arrived, outside, history, changes, trouble>>

Serving ==
  /\ integration.status = "active" /\ integration.cred # 0 /\ integration.enabled
  /\ definition.active /\ definition.exposed
  /\ definition.target # None

Goto(t, pc) == tap' = [tap EXCEPT ![t].pc = pc]
Leave(t) == tap' = [tap EXCEPT ![t] = IdleTap]

\* The run, its connection and its workflow in one row, which is used to the end.
TapRead(t) ==
  /\ tap[t].pc = "read"
  /\ IF Serving /\ run[tap[t].run].status = "pending" /\ tap[t].run \notin lapsed
       THEN tap' = [tap EXCEPT ![t].pc = IF tap[t].approve THEN "claim" ELSE "deny",
                               ![t].boundary = Boundary]
       ELSE Leave(t)
  /\ UNCHANGED <<rows, run, lapsed, events, admin, arrived, outside, history, changes, trouble>>

TapDeny(t) ==
  /\ tap[t].pc = "deny"
  /\ run' = IF run[tap[t].run].status = "pending"
              THEN [run EXCEPT ![tap[t].run].status = "denied"] ELSE run
  /\ Leave(t)
  /\ UNCHANGED <<rows, lapsed, events, admin, arrived, outside, history, changes, trouble>>

WaitingAsRead(t) == TRUE   \* the status that was read is believed
Waiting(t) == run[tap[t].run].status = "pending"

\* The run is found by its own id where the provider names it so: known at once.
ClaimNamed(t) ==
  /\ tap[t].pc = "claim"
  /\ LET r == tap[t].run IN
     IF Waiting(t)
       THEN /\ run' = [run EXCEPT ![r].status = "running", ![r].external = TRUE]
            /\ granted' = [granted EXCEPT ![r] = run[r].owner]
            /\ Goto(t, "check")
       ELSE Leave(t) /\ UNCHANGED <<run, granted>>
  /\ UNCHANGED <<rows, lapsed, events, admin, arrived, outside, carried, sent, acknowledged,
                 unlogged, changes, trouble>>

TapClaim(t) ==
  /\ tap[t].pc = "claim"
  /\ LET r == tap[t].run IN
     IF Waiting(t)
       THEN /\ run' = [run EXCEPT ![r].status = "running"]
            /\ granted' = [granted EXCEPT ![r] = run[r].owner]
            /\ Goto(t, "check")
       ELSE Leave(t) /\ UNCHANGED <<run, granted>>
  /\ UNCHANGED <<rows, lapsed, events, admin, arrived, outside, carried, sent, acknowledged,
                 unlogged, changes, trouble>>

UnchangedEver(t) == TRUE   \* what was approved is believed to stand
\* The boundary sealed into the run is the one of the row that was read.
Unchanged(t) == run[tap[t].run].boundary = tap[t].boundary

TapCheck(t) ==
  /\ tap[t].pc = "check"
  /\ IF Unchanged(t)
       THEN Goto(t, "secret") /\ UNCHANGED run
       ELSE run' = [run EXCEPT ![tap[t].run].status = "denied"] /\ Leave(t)
  /\ UNCHANGED <<rows, lapsed, events, admin, arrived, outside, history, changes, trouble>>

\* What the slot holds now, whichever save the row that was read points from.  Outside
\* the try: without its secret the run stays as it is.
TapSecret(t) ==
  /\ tap[t].pc = "secret"
  /\ IF vault # 0 THEN tap' = [tap EXCEPT ![t].pc = "send", ![t].token = vault] ELSE Leave(t)
  /\ UNCHANGED <<rows, run, lapsed, events, admin, arrived, outside, history, changes, trouble>>

\* Whatever the provider accepts is done.
AcceptedIsDone(what) == "succeeded"
Completed(what) == what

\* The provider refuses the run, takes it up, or ends it at once; its answer is
\* heard or not.  (Of n8n the token is read and a webhook called that does not use it.)
TapSend(t) ==
  /\ tap[t].pc = "send"
  /\ LET r == tap[t].run IN
     /\ carried' = [carried EXCEPT ![r] = @ + 1]
     /\ sent' = sent \cup {[run |-> r, base |-> tap[t].boundary.base,
                            target |-> tap[t].boundary.target, token |-> tap[t].token]}
     /\ \E what \in {"none", "running", "succeeded", "failed"} :
          /\ outside' = [outside EXCEPT ![r] = what]
          /\ \/ /\ what \in {"running", "succeeded"}
                /\ tap' = [tap EXCEPT ![t].pc = "record", ![t].result = Completed(what)]
             \/ Goto(t, "caught")
  /\ UNCHANGED <<rows, run, lapsed, events, admin, arrived, granted, acknowledged, unlogged,
                  changes, trouble>>

\* With the id the provider gave it, if it gave one, whatever the row says by now.
TapRecord(t) ==
  /\ tap[t].pc = "record"
  /\ \E named \in BOOLEAN :
       run' = [run EXCEPT ![tap[t].run].status = tap[t].result, ![tap[t].run].external = named]
  /\ Goto(t, "log")
  /\ UNCHANGED <<rows, lapsed, events, admin, arrived, outside, history, changes, trouble>>

TapLog(t) ==
  /\ tap[t].pc = "log"
  /\ Leave(t)
  /\ UNCHANGED <<rows, run, lapsed, events, admin, arrived, outside, history, changes, trouble>>

\* The catch block also catches the write of the record and of the event.
TapThrows(t) ==
  /\ tap[t].pc \in {"record", "log"} /\ trouble < MaxTrouble
  /\ trouble' = trouble + 1
  /\ unlogged' = unlogged \cup {tap[t].run}
  /\ Goto(t, "caught")
  /\ UNCHANGED <<rows, run, lapsed, events, admin, arrived, outside, granted, carried, sent,
                 acknowledged, changes>>

TapCaught(t) ==
  /\ tap[t].pc = "caught"
  /\ run' = [run EXCEPT ![tap[t].run].status = "failed"]
  /\ Leave(t)
  /\ UNCHANGED <<rows, lapsed, events, admin, arrived, outside, history, changes, trouble>>

\* The process dies; before the try, a query that fails has the same effect.
Die(t) ==
  /\ tap[t].pc # "idle" /\ trouble < MaxTrouble
  /\ trouble' = trouble + 1
  /\ Leave(t)
  /\ UNCHANGED <<rows, run, lapsed, events, admin, arrived, outside, history, changes>>

----------------------------------------------------------------------------
(* The provider and its callbacks.                                         *)

Ends(r) ==
  /\ outside[r] = "running"
  /\ \E what \in {"succeeded", "failed"} : outside' = [outside EXCEPT ![r] = what]
  /\ UNCHANGED <<rows, run, lapsed, events, tap, admin, arrived, history, changes, trouble>>

\* Verified, of an enabled connection, and not seen; else nothing is changed.
Callback(d, r) ==
  /\ outside[r] \in {"succeeded", "failed"} /\ <<d, r>> \notin arrived
  /\ integration.enabled /\ vault # 0
  /\ r \notin events
  /\ arrived' = arrived \cup {<<d, r>>}
  /\ UNCHANGED <<rows, run, lapsed, events, tap, admin, outside, history, changes, trouble>>

Settle(r) ==
  /\ run' = [run EXCEPT ![r].status = outside[r]]
  /\ acknowledged' = [acknowledged EXCEPT ![r] = outside[r]]

\* The event is recorded before its run is looked for.
RecordCallbackFirst(d, r) ==
  /\ <<d, r>> \in arrived
  /\ arrived' = arrived \ {<<d, r>>}
  /\ events' = events \cup {r}
  /\ IF r \notin events /\ run[r].external /\ run[r].status = "running"
       THEN Settle(r) ELSE UNCHANGED <<run, acknowledged>>
  /\ UNCHANGED <<rows, lapsed, tap, admin, outside, granted, carried, sent, unlogged,
                 changes, trouble>>

\* recordWorkflowCallback: one statement, which keeps the event of a known run.
RecordCallback(d, r) ==
  /\ <<d, r>> \in arrived
  /\ arrived' = arrived \ {<<d, r>>}
  /\ IF r \notin events /\ run[r].external /\ run[r].status = "running"
       THEN events' = events \cup {r} /\ Settle(r)
       ELSE UNCHANGED <<events, run, acknowledged>>
  /\ UNCHANGED <<rows, lapsed, tap, admin, outside, granted, carried, sent, unlogged,
                 changes, trouble>>

----------------------------------------------------------------------------
(* Administrators.                                                         *)

Change == changes < MaxChanges /\ changes' = changes + 1
AdminGoto(a, pc) == admin' = [admin EXCEPT ![a].pc = pc]
Others == <<run, lapsed, events, tap, arrived, outside, history, trouble>>

\* A decision at these has read its row, and not yet the token.
Deciding == {"claim", "check", "secret"}

\* The connection stays on while it is saved.
SaveServing(a, b) ==
  /\ Change /\ admin[a].pc = "idle"
  /\ admin' = [admin EXCEPT ![a] = [pc |-> "store", base |-> b, token |-> changes' + 1]]
  /\ UNCHANGED <<integration, definition, slot, Others>>

\* saveWorkflowIntegration, its credential tested: reserved, then the Vault's slots,
\* then the row, then the exposures withdrawn.
Save(a, b) ==
  /\ Change /\ admin[a].pc = "idle"
  /\ integration' = [integration EXCEPT !.enabled = FALSE]
  /\ admin' = [admin EXCEPT ![a] = [pc |-> "store", base |-> b, token |-> changes' + 1]]
  /\ UNCHANGED <<definition, slot, Others>>

\* The slots of the connection are written over, while row and exposures are as before:
\* a decision that has read the old row finds the new token.
SaveStore(a) ==
  /\ admin[a].pc = "store"
  /\ vault' = admin[a].token
  /\ replaced' = replaced \cup {tap[t].run : t \in {u \in Taps : tap[u].pc \in Deciding}}
  /\ AdminGoto(a, "save")
  /\ UNCHANGED <<integration, definition, Others, changes>>

\* A sealed credential is never the same text twice.
SaveRow(a) ==
  /\ admin[a].pc = "save"
  /\ integration' = [base |-> admin[a].base, cred |-> admin[a].token,
                     status |-> "active", enabled |-> FALSE]
  /\ AdminGoto(a, "hide")
  /\ UNCHANGED <<definition, slot, Others, changes>>

Hide(a) ==
  /\ admin[a].pc \in {"hide", "withdraw"}
  /\ definition' = [definition EXCEPT !.exposed = FALSE]
  /\ IF admin[a].pc = "hide" THEN admin' = [admin EXCEPT ![a] = IdleAdmin]
                             ELSE AdminGoto(a, "clear")
  /\ UNCHANGED <<integration, slot, Others, changes>>

\* discoverWorkflows: the catalogue, the connection active, then enabled.
Discover(a) ==
  /\ Change /\ admin[a].pc = "idle"
  /\ AdminGoto(a, "fetch")
  /\ UNCHANGED <<rows, Others>>

\* Only what the provider itself names has its target from the catalogue.
DiscoverFound(a) ==
  /\ admin[a].pc = "fetch" /\ vault # 0
  /\ \E found \in BOOLEAN, target \in Targets \cup {definition.target} :
       definition' = IF found THEN [definition EXCEPT !.active = TRUE, !.target = target]
                              ELSE [definition EXCEPT !.active = FALSE]
  /\ AdminGoto(a, "active")
  /\ UNCHANGED <<integration, slot, Others, changes>>

DiscoverFails(a) ==
  /\ admin[a].pc = "fetch"
  /\ integration' = [integration EXCEPT !.status = "error", !.enabled = FALSE]
  /\ admin' = [admin EXCEPT ![a] = IdleAdmin]
  /\ UNCHANGED <<definition, slot, Others, changes>>

Activate(a) ==
  /\ admin[a].pc = "active"
  /\ integration' = [integration EXCEPT !.status = "active"]
  /\ AdminGoto(a, "enable")
  /\ UNCHANGED <<definition, slot, Others, changes>>

Enable(a) ==
  /\ admin[a].pc = "enable"
  /\ integration' = [integration EXCEPT !.enabled = TRUE]
  /\ admin' = [admin EXCEPT ![a] = IdleAdmin]
  /\ UNCHANGED <<definition, slot, Others, changes>>

\* disconnectWorkflowIntegration: the row, the exposures, the slots.
Disconnect(a) ==
  /\ Change /\ admin[a].pc = "idle"
  /\ integration' = [integration EXCEPT !.enabled = FALSE, !.status = "disconnected", !.cred = 0]
  /\ AdminGoto(a, "withdraw")
  /\ UNCHANGED <<definition, slot, Others>>

DisconnectClear(a) ==
  /\ admin[a].pc = "clear" /\ vault' = 0
  /\ admin' = [admin EXCEPT ![a] = IdleAdmin]
  /\ UNCHANGED <<integration, definition, replaced, Others, changes>>

Expose(on) ==
  /\ Change /\ definition' = [definition EXCEPT !.exposed = on]
  /\ UNCHANGED <<integration, slot, admin, Others>>

RegisterWebhook(target) ==
  /\ Change /\ definition' = [definition EXCEPT !.target = target]
  /\ UNCHANGED <<integration, slot, admin, Others>>

----------------------------------------------------------------------------
Init ==
  /\ \E b \in Bases : integration = [base |-> b, cred |-> 1, status |-> "active", enabled |-> TRUE]
  /\ \E target \in Targets \cup {None} :
       definition = [target |-> target, active |-> TRUE, exposed |-> TRUE]
  /\ vault = 1 /\ replaced = {}
  /\ run = [r \in Runs |-> NoRun] /\ lapsed = {} /\ events = {}
  /\ tap = [t \in Taps |-> IdleTap] /\ admin = [a \in Admins |-> IdleAdmin]
  /\ arrived = {} /\ outside = [r \in Runs |-> "none"]
  /\ granted = [r \in Runs |-> None] /\ carried = [r \in Runs |-> 0] /\ sent = {}
  /\ acknowledged = [r \in Runs |-> None] /\ unlogged = {}
  /\ changes = 0 /\ trouble = 0

TapStep(t) ==
  \/ TapRead(t) \/ TapDeny(t) \/ TapClaim(t) \/ TapCheck(t) \/ TapSecret(t)
  \/ TapSend(t) \/ TapRecord(t) \/ TapLog(t) \/ TapCaught(t)

AdminStep(a) ==
  \/ \E b \in Bases : Save(a, b)
  \/ SaveStore(a) \/ SaveRow(a) \/ Hide(a)
  \/ Discover(a) \/ DiscoverFound(a) \/ DiscoverFails(a) \/ Activate(a) \/ Enable(a)
  \/ Disconnect(a) \/ DisconnectClear(a)

Next ==
  \/ \E r \in Runs, u \in Owners : Request(r, u)
  \/ \E r \in Runs : Lapse(r) \/ Ends(r)
  \/ \E u \in Owners : History(u)
  \/ \E t \in Taps, u \in Owners, r \in Runs, approve \in BOOLEAN : Tap(t, u, r, approve)
  \/ \E t \in Taps : TapStep(t) \/ TapThrows(t) \/ Die(t)
  \/ \E d \in Deliveries, r \in Runs : Callback(d, r) \/ RecordCallback(d, r)
  \/ \E a \in Admins : AdminStep(a)
  \/ \E on \in BOOLEAN : Expose(on)
  \/ \E target \in Targets : RegisterWebhook(target)

Spec == Init /\ [][Next]_vars

\* A request that has begun goes on; the provider ends what it took up, and repeats
\* a callback that was not acknowledged.
Fairness ==
  /\ \A t \in Taps : WF_vars(TapStep(t))
  /\ \A r \in Runs : WF_vars(Ends(r))
  /\ \A d \in Deliveries, r \in Runs : WF_vars(Callback(d, r)) /\ WF_vars(RecordCallback(d, r))
FairSpec == Spec /\ Fairness

----------------------------------------------------------------------------
(* Properties.                                                             *)

\* A request at these has claimed its run.
Sending == {"check", "secret", "send", "record", "log", "caught"}

Statuses == {"none", "pending", "running", "succeeded", "failed", "denied", "expired"}
Integration == [base : Bases, cred : Nat, status : {"active", "error", "disconnected"},
                enabled : BOOLEAN]
Definition == [target : Targets \cup {None}, active : BOOLEAN, exposed : BOOLEAN]
Boundaries == [base : Bases \cup {None}, cred : Nat, target : Targets \cup {None}]
RunRow == [status : Statuses, owner : Owners \cup {None}, boundary : Boundaries,
           external : BOOLEAN]
TapState == [pc : {"idle", "read", "deny", "claim"} \cup Sending, run : Runs \cup {None},
             approve : BOOLEAN, boundary : Boundaries, token : Nat,
             result : {"running", "succeeded"}]
AdminState == [pc : {"idle", "store", "save", "hide", "fetch", "active", "enable", "withdraw",
                     "clear"},
               base : Bases \cup {None}, token : Nat]

\* The rows, the requests and the histories are what the code's queries and types
\* let them be.
TypeOK ==
  /\ integration \in Integration /\ definition \in Definition /\ vault \in Nat
  /\ run \in [Runs -> RunRow] /\ lapsed \subseteq Runs /\ events \subseteq Runs
  /\ tap \in [Taps -> TapState] /\ admin \in [Admins -> AdminState]
  /\ arrived \subseteq Deliveries \X Runs
  /\ outside \in [Runs -> {"none", "running", "succeeded", "failed"}]
  /\ granted \in [Runs -> Owners \cup {None}] /\ carried \in [Runs -> Nat]
  /\ sent \subseteq [run : Runs, base : Bases \cup {None}, target : Targets \cup {None}, token : Nat]
  /\ replaced \subseteq Runs
  /\ acknowledged \in [Runs -> {None, "succeeded", "failed"}] /\ unlogged \subseteq Runs
  /\ changes \in 0..MaxChanges /\ trouble \in 0..MaxTrouble

\* Asked once, agreed to by its owner, and carried out at most once: however often
\* the decision is tapped, whatever runs out, and whichever request dies on the way.
Phase == [r \in Runs |->
  CASE run[r].status = "none" -> "unasked"
    [] run[r].status = "pending" -> "asked"
    [] granted[r] # None -> "granted"
    [] OTHER -> "refused"]

Consent == INSTANCE ConsentOnce WITH
  Requests <- Runs, People <- Owners, Nobody <- None,
  phase <- Phase, asked <- [r \in Runs |-> run[r].owner],
  consent <- granted, carried <- carried

KeepsConsent == Consent!Spec

\* What is sent goes to the address and runs the target that the run was prepared for,
\* whatever is saved, discovered or registered while it waits or is being decided.
SentAsPrepared ==
  \A s \in sent : /\ s.base = run[s.run].boundary.base
                  /\ s.target = run[s.run].boundary.target

\* A run is sent under the credential it was prepared for, although its row only points
\* at a slot that every save writes over.  The exception is a save that writes the slot
\* between the row and the token of a decision: docs/DEVELOPER_SERVICE_CONNECTIONS.md has
\* every change of the credential invalidate a pending request, and the code does not.
SentUnderItsCredential ==
  \A s \in sent : s.run \notin replaced => s.token = run[s.run].boundary.cred

\* A run that reads as succeeded succeeded at the provider: an accepted request is
\* not a completed one.
SucceededWasReported == \A r \in Runs : run[r].status = "succeeded" => outside[r] = "succeeded"

\* What an acknowledged callback said is what the run says, unless the request that
\* sent it failed after its record: nothing of that request comes too late.
AcknowledgedStays ==
  \A r \in Runs : acknowledged[r] # None /\ r \notin unlogged => run[r].status = acknowledged[r]

\* Nobody sends this run, and nobody can find it by the provider's id.
Orphaned(r) ==
  /\ run[r].status = "running" /\ ~run[r].external
  /\ \A t \in Taps : tap[t].run = r => tap[t].pc \notin Sending

\* A run that ended at the provider is settled: a callback that came too early for
\* its run to be known is not used up by that.
CompletedIsSettled ==
  \A r \in Runs : outside[r] \in {"succeeded", "failed"} /\ run[r].status = "running" ~>
    run[r].status # "running" \/ Orphaned(r) \/ ~integration.enabled \/ vault = 0
=============================================================================
