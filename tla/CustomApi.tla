----------------------------- MODULE CustomApi -----------------------------
(***************************************************************************)
(* Custom API calls: an administrator lists what may be called on a        *)
(* connection, the assistant asks for one of those actions, a write waits  *)
(* for the person it was prepared for, and the route that approves it also *)
(* sends it.                                                               *)
(*                                                                         *)
(*   packages/connectors/src/customApiCalls.ts    the waiting requests     *)
(*   packages/connectors/src/customApi.ts         connection and endpoints *)
(*   packages/connectors/src/customApiRequest.ts  building and sending     *)
(*   packages/agent/src/customApiTools.ts         call_custom_api          *)
(*   apps/api/src/http/customApiRoutes.ts         owner and administrator  *)
(*   packages/db/migrations/0044_custom_api_connections.sql                *)
(*                                                                         *)
(* One query is one step.  One connection is modelled, from the moment it  *)
(* serves: its endpoints are the rows under it.                            *)
(***************************************************************************)
EXTENDS Naturals, FiniteSets

CONSTANTS
  Owners,      \* the people requests are made for
  Endpoints,   \* custom_api_endpoints rows
  Calls,       \* custom_api_pending_calls rows
  Hosts,       \* host names, and
  Paths,       \* everything else a base URL or a credential can differ in
  Meanings,    \* what an endpoint row can say: method, path, parameters
  Reads,       \* the meanings whose capability is 'read'
  Arguments,   \* what the model fills in, the body included
  Asks,        \* runs of call_custom_api
  Taps,        \* requests of owners to approve or deny
  Admins,      \* administrators' requests on the connection
  MaxChanges,  \* how many requests of administrators a behaviour contains
  None

ASSUME ReadsAssumption == Reads \subseteq Meanings
ASSUME ChangesAssumption == MaxChanges \in Nat
ASSUME NoneAssumption == None \notin Owners \cup Endpoints \cup Calls

VARIABLES
  connection,  \* the connection row
  endpoint,    \* the rows of its allowlist
  calls,       \* the requests that wait, or waited
  lapsed,      \* waiting requests whose expires_at is in the past
  ask,         \* progress of each run of the tool
  tap,         \* progress of each decision route
  admin,       \* progress of each test, edit or enable
  changes,     \* requests of administrators so far
  granted,     \* history: who agreed to each request
  carried,     \* history: how often each request was sent
  sent,        \* history: what reached the network, as what, and whither
  barred,      \* history: decisions taken while something was switched off
  broken       \* history: requests whose decision route did not finish

rows == <<connection, endpoint, changes>>
history == <<granted, carried, sent>>
vars == <<connection, endpoint, calls, lapsed, ask, tap, admin, changes,
          granted, carried, sent, barred, broken>>

Base == [host : Hosts, path : Paths]
Payload == [base : Base, meaning : Meanings, arg : Arguments]

CallStatus == {"none", "pending", "approved", "denied", "expired", "executed",
               "failed", "gone"}
Undecided == {"none", "pending"}
Refusals == {"denied", "expired"}

\* A status below 400, a refused credential (401), and everything else: 403 and
\* 429 differ from it only in what the administrator's page says.
Outcomes == {"ok", "refused", "other"}

Serves(e) ==
  /\ connection.there /\ connection.enabled
  /\ endpoint[e].row = "live" /\ endpoint[e].enabled

NoCall == [status |-> "none", owner |-> None, endpoint |-> None, payload |-> None]
IdleAsk == [pc |-> "idle", user |-> None, endpoint |-> None, meaning |-> None,
            arg |-> None, base |-> None, outcome |-> "other"]
IdleTap == [pc |-> "idle", user |-> None, call |-> None, meaning |-> None,
            on |-> FALSE, base |-> None, outcome |-> "other"]
IdleAdmin == [pc |-> "idle", base |-> None, checked |-> "null", outcome |-> "other"]

----------------------------------------------------------------------------
(* What the actors share.                                                  *)

SetStatus(c, s) == calls' = [calls EXCEPT ![c] = [@ EXCEPT !.status = s]]

\* update ... where id = $1: nothing happens to a row that was deleted.
SetResult(c, s) ==
  IF calls[c].status = "gone" THEN UNCHANGED calls ELSE SetStatus(c, s)

\* recordCustomApiCheck: whoever asked the API says how it went.  A refused
\* credential switches the connection off.
RecordCheck(outcome) ==
  connection' = IF ~connection.there THEN connection ELSE
    [connection EXCEPT
       !.enabled = @ /\ outcome # "refused",
       !.checked = IF outcome = "ok" THEN "yes" ELSE "no"]

\* custom_api_pending_calls.endpoint_id ... on delete cascade
Cascade(E) ==
  calls' = [c \in Calls |->
    IF calls[c].endpoint \in E THEN [calls[c] EXCEPT !.status = "gone"] ELSE calls[c]]

----------------------------------------------------------------------------
(* The assistant: call_custom_api.                                         *)

\* resolveCustomApiAction looks for an enabled action under an enabled
\* connection ...
AskResolve(a, u, e) ==
  /\ ask[a].pc = "idle"
  /\ Serves(e)
  /\ ask' = [ask EXCEPT ![a] = [IdleAsk EXCEPT !.pc = "connection", !.user = u,
               !.endpoint = e, !.meaning = endpoint[e].meaning]]
  /\ UNCHANGED <<rows, calls, lapsed, tap, admin, history, barred, broken>>

\* ... and then reads the connection by id.  buildCustomApiRequest may refuse
\* the arguments.
AskConnection(a) ==
  /\ ask[a].pc = "connection"
  /\ \/ ask' = [ask EXCEPT ![a] = IdleAsk]
     \/ /\ connection.there
        /\ \E x \in Arguments :
             ask' = [ask EXCEPT ![a] = [@ EXCEPT !.arg = x, !.base = connection.base,
                       !.pc = IF ask[a].meaning \in Reads THEN "fetch" ELSE "insert"]]
  /\ UNCHANGED <<rows, calls, lapsed, tap, admin, history, barred, broken>>

Prepared(a) == [base |-> ask[a].base, meaning |-> ask[a].meaning, arg |-> ask[a].arg]

\* A conflict key without its predicate: any earlier request is taken up again.
SameEver(a) ==
  {c \in Calls : /\ calls[c].status \notin {"none", "gone"}
                 /\ calls[c].owner = ask[a].user
                 /\ calls[c].endpoint = ask[a].endpoint
                 /\ calls[c].payload = Prepared(a)}

\* The rows custom_api_pending_calls_one_pending makes an insert conflict with.
Same(a) ==
  {c \in Calls : /\ calls[c].status = "pending"
                 /\ calls[c].owner = ask[a].user
                 /\ calls[c].endpoint = ask[a].endpoint
                 /\ calls[c].payload = Prepared(a)}

\* requestCustomApiCall.  The insert fails when the endpoint was deleted; asking
\* again for what already waits renews its expires_at.
AskInsert(a) ==
  /\ ask[a].pc = "insert"
  /\ \/ /\ endpoint[ask[a].endpoint].row # "live"
        /\ UNCHANGED <<calls, lapsed>>
     \/ /\ endpoint[ask[a].endpoint].row = "live"
        /\ \E c \in Same(a) :
             /\ SetStatus(c, "pending")
             /\ lapsed' = lapsed \ {c}
     \/ /\ endpoint[ask[a].endpoint].row = "live"
        /\ Same(a) = {}
        /\ \E c \in Calls :
             /\ calls[c].status = "none"
             /\ calls' = [calls EXCEPT ![c] = [status |-> "pending",
                  owner |-> ask[a].user, endpoint |-> ask[a].endpoint,
                  payload |-> Prepared(a)]]
        /\ UNCHANGED lapsed
  /\ ask' = [ask EXCEPT ![a] = IdleAsk]
  /\ UNCHANGED <<rows, tap, admin, history, barred, broken>>

\* A read runs now.
AskFetch(a) ==
  /\ ask[a].pc = "fetch"
  /\ \E o \in Outcomes : ask' = [ask EXCEPT ![a] = [@ EXCEPT !.pc = "check", !.outcome = o]]
  /\ sent' = sent \cup {[call |-> None, user |-> ask[a].user, payload |-> Prepared(a),
                         to |-> ask[a].base, barred |-> FALSE]}
  /\ UNCHANGED <<rows, calls, lapsed, tap, admin, granted, carried, barred, broken>>

AskCheck(a) ==
  /\ ask[a].pc = "check"
  /\ RecordCheck(ask[a].outcome)
  /\ ask' = [ask EXCEPT ![a] = IdleAsk]
  /\ UNCHANGED <<endpoint, changes, calls, lapsed, tap, admin, history, barred, broken>>

AskStep(a) ==
  \/ \E u \in Owners, e \in Endpoints : AskResolve(a, u, e)
  \/ AskConnection(a) \/ AskInsert(a) \/ AskFetch(a) \/ AskCheck(a)

----------------------------------------------------------------------------
(* The owner: POST /pending/:id/approve and /pending/:id/deny.             *)

Goto(t, pc) == tap' = [tap EXCEPT ![t] = [@ EXCEPT !.pc = pc]]
Leave(t) == tap' = [tap EXCEPT ![t] = IdleTap]
Call(t) == calls[tap[t].call]

\* Between the decision and the record of what came of it.
Deciding == {"endpoint", "connection", "refuse", "send", "check", "result", "event",
             "caught", "caughtResult"}

\* claimApproved and denyCustomApiCall first read the row: not theirs, or not
\* pending, is an answer and changes nothing.
TapRead(t, u, c) ==
  /\ tap[t].pc = "idle"
  /\ calls[c].status = "pending" /\ calls[c].owner = u
  /\ \E pc \in {"deny", IF c \in lapsed THEN "expire" ELSE "claim"} :
       tap' = [tap EXCEPT ![t] = [IdleTap EXCEPT !.pc = pc, !.user = u, !.call = c]]
  /\ UNCHANGED <<rows, calls, lapsed, ask, admin, history, barred, broken>>

TapDeny(t) ==
  /\ tap[t].pc = "deny"
  /\ IF Call(t).status = "pending" THEN SetStatus(tap[t].call, "denied")
     ELSE UNCHANGED calls
  /\ Leave(t)
  /\ UNCHANGED <<rows, lapsed, ask, admin, history, barred, broken>>

ExpireAnyStatus(t) ==
  /\ tap[t].pc = "expire"
  /\ SetResult(tap[t].call, "expired")
  /\ Leave(t)
  /\ UNCHANGED <<rows, lapsed, ask, admin, history, barred, broken>>

\* The deadline was passed when the row was read; it is not looked at again.
TapExpire(t) ==
  /\ tap[t].pc = "expire"
  /\ IF Call(t).status = "pending" THEN SetStatus(tap[t].call, "expired")
     ELSE UNCHANGED calls
  /\ Leave(t)
  /\ UNCHANGED <<rows, lapsed, ask, admin, history, barred, broken>>

Claimable(t) == Call(t).status = "pending" /\ tap[t].call \notin lapsed

TapClaim(t) ==
  /\ tap[t].pc = "claim"
  /\ \/ /\ Claimable(t)
        /\ SetStatus(tap[t].call, "approved")
        /\ granted' = [granted EXCEPT ![tap[t].call] = tap[t].user]
        /\ barred' = IF Serves(Call(t).endpoint) THEN barred ELSE barred \cup {tap[t].call}
        /\ Goto(t, "endpoint")
     \/ /\ ~Claimable(t)
        /\ Leave(t)
        /\ UNCHANGED <<calls, granted, barred>>
  /\ UNCHANGED <<rows, lapsed, ask, admin, carried, sent, broken>>

TapEndpoint(t) ==
  /\ tap[t].pc = "endpoint"
  /\ LET e == endpoint[Call(t).endpoint] IN
       IF e.row = "live"
       THEN tap' = [tap EXCEPT ![t] = [@ EXCEPT !.pc = "connection",
                      !.meaning = e.meaning, !.on = e.enabled]]
       ELSE Goto(t, "refuse")
  /\ UNCHANGED <<rows, calls, lapsed, ask, admin, history, barred, broken>>

SwitchedOn(t) == connection.there /\ connection.enabled /\ tap[t].on

TapConnection(t) ==
  /\ tap[t].pc = "connection"
  /\ IF SwitchedOn(t)
     THEN tap' = [tap EXCEPT ![t] = [@ EXCEPT !.pc = "send", !.base = connection.base]]
     ELSE Goto(t, "refuse")
  /\ UNCHANGED <<rows, calls, lapsed, ask, admin, history, barred, broken>>

LeaveUnrecorded(t) ==
  /\ tap[t].pc = "refuse"
  /\ Leave(t)
  /\ UNCHANGED <<rows, calls, lapsed, ask, admin, history, barred, broken>>

TapRefuse(t) ==
  /\ tap[t].pc = "refuse"
  /\ SetResult(tap[t].call, "failed")
  /\ Leave(t)
  /\ UNCHANGED <<rows, lapsed, ask, admin, history, barred, broken>>

\* A request put together again from what the endpoint row says now.
RebuiltPayload(t) == [Call(t).payload EXCEPT !.meaning = tap[t].meaning]

\* openApprovedRequest: the sealed request, whose hash was pinned.
SealedPayload(t) == Call(t).payload

\* customApiFetch re-parses the URL it is about to send.
StaysHome(t) == SealedPayload(t).base.host = tap[t].base.host

\* customApiFetch of the approve route: nothing is sent, or it is sent and an
\* answer arrives, or it is sent and none does (or a redirect).
TapSend(t) ==
  /\ tap[t].pc = "send"
  /\ \/ /\ Goto(t, "caught")
        /\ UNCHANGED <<carried, sent>>
     \/ /\ StaysHome(t)
        /\ carried' = [carried EXCEPT ![tap[t].call] = @ + 1]
        /\ sent' = sent \cup {[call |-> tap[t].call, user |-> tap[t].user,
                     payload |-> SealedPayload(t), to |-> tap[t].base,
                     barred |-> tap[t].call \in barred]}
        /\ \/ \E o \in Outcomes :
                tap' = [tap EXCEPT ![t] = [@ EXCEPT !.pc = "check", !.outcome = o]]
           \/ Goto(t, "caught")
  /\ UNCHANGED <<rows, calls, lapsed, ask, admin, granted, barred, broken>>

TapCheck(t) ==
  /\ tap[t].pc = "check"
  /\ RecordCheck(tap[t].outcome)
  /\ Goto(t, "result")
  /\ UNCHANGED <<endpoint, changes, calls, lapsed, ask, admin, history, barred, broken>>

TapResult(t) ==
  /\ tap[t].pc = "result"
  /\ SetResult(tap[t].call, IF tap[t].outcome = "ok" THEN "executed" ELSE "failed")
  /\ Goto(t, "event")
  /\ UNCHANGED <<rows, lapsed, ask, admin, history, barred, broken>>

TapEvent(t) ==
  /\ tap[t].pc = "event"
  /\ Leave(t)
  /\ UNCHANGED <<rows, calls, lapsed, ask, admin, history, barred, broken>>

\* The catch block of the route: whatever was thrown, the API did not answer.
TapCaught(t) ==
  /\ tap[t].pc = "caught"
  /\ RecordCheck("other")
  /\ Goto(t, "caughtResult")
  /\ UNCHANGED <<endpoint, changes, calls, lapsed, ask, admin, history, barred, broken>>

TapCaughtResult(t) ==
  /\ tap[t].pc = "caughtResult"
  /\ SetResult(tap[t].call, "failed")
  /\ Leave(t)
  /\ UNCHANGED <<rows, lapsed, ask, admin, history, barred, broken>>

\* A query of the try block fails, whether or not its write was committed.
TapThrows(t) ==
  /\ tap[t].pc \in {"check", "result", "event"}
  /\ Goto(t, "caught")
  /\ UNCHANGED <<rows, calls, lapsed, ask, admin, history, barred, broken>>

\* A query outside the try block fails, or the API process dies.
TapDies(t) ==
  /\ tap[t].pc \in Deciding
  /\ Leave(t)
  /\ broken' = broken \cup {tap[t].call}
  /\ UNCHANGED <<rows, calls, lapsed, ask, admin, history, barred>>

TapWork(t) ==
  \/ TapDeny(t) \/ TapExpire(t) \/ TapClaim(t) \/ TapEndpoint(t) \/ TapConnection(t)
  \/ TapRefuse(t) \/ TapSend(t) \/ TapCheck(t) \/ TapResult(t) \/ TapEvent(t)
  \/ TapCaught(t) \/ TapCaughtResult(t)

TapStep(t) ==
  \/ \E u \in Owners, c \in Calls : TapRead(t, u, c)
  \/ TapWork(t) \/ TapThrows(t) \/ TapDies(t)

----------------------------------------------------------------------------
(* The administrator.  Requests whose write uses nothing they read are one *)
(* step; a test, an edit and an enable use the row they read first.        *)

Change == changes < MaxChanges /\ changes' = changes + 1

AdminRead(d) ==
  /\ Change
  /\ admin[d].pc = "idle" /\ connection.there
  /\ admin' = [admin EXCEPT ![d] = [IdleAdmin EXCEPT !.pc = "read",
                 !.base = connection.base, !.checked = connection.checked]]
  /\ UNCHANGED <<connection, endpoint, calls, lapsed, ask, tap, history, barred, broken>>

\* updateCustomApi: what reconnects (or replaces the credential) switches off.
EditConnection(d, b, replaced) ==
  /\ admin[d].pc = "read"
  /\ LET reconnects == b # admin[d].base \/ replaced IN
       connection' = IF ~connection.there THEN connection ELSE
         [connection EXCEPT
            !.base = b,
            !.enabled = @ /\ ~reconnects,
            !.checked = IF reconnects THEN "null" ELSE @]
  /\ admin' = [admin EXCEPT ![d] = IdleAdmin]
  /\ UNCHANGED <<endpoint, changes, calls, lapsed, ask, tap, history, barred, broken>>

\* runTest: a GET to the test path of the connection as it was read.
TestFetch(d) ==
  /\ admin[d].pc = "read"
  /\ \E o \in Outcomes : admin' = [admin EXCEPT ![d] = [@ EXCEPT !.pc = "check", !.outcome = o]]
  /\ UNCHANGED <<rows, calls, lapsed, ask, tap, history, barred, broken>>

TestRecord(d) ==
  /\ admin[d].pc = "check"
  /\ RecordCheck(admin[d].outcome)
  /\ admin' = [admin EXCEPT ![d] = IdleAdmin]
  /\ UNCHANGED <<endpoint, changes, calls, lapsed, ask, tap, history, barred, broken>>

\* enableCustomApi looks at last_check_ok of the row the route read.
EnableConnection(d) ==
  /\ admin[d].pc = "read"
  /\ IF admin[d].checked = "yes" /\ connection.there
     THEN /\ connection' = [connection EXCEPT !.enabled = TRUE]
          /\ barred' = {}
     ELSE UNCHANGED <<connection, barred>>
  /\ admin' = [admin EXCEPT ![d] = IdleAdmin]
  /\ UNCHANGED <<endpoint, changes, calls, lapsed, ask, tap, history, broken>>

DisableConnection ==
  /\ Change
  /\ connection.there
  /\ connection' = [connection EXCEPT !.enabled = FALSE]
  /\ UNCHANGED <<endpoint, calls, lapsed, ask, tap, admin, history, barred, broken>>

DeleteConnection ==
  /\ Change
  /\ connection.there
  /\ connection' = [connection EXCEPT !.there = FALSE, !.enabled = FALSE]
  /\ endpoint' = [e \in Endpoints |->
       IF endpoint[e].row = "live" THEN [endpoint[e] EXCEPT !.row = "gone"] ELSE endpoint[e]]
  /\ Cascade(Endpoints)
  /\ UNCHANGED <<lapsed, ask, tap, admin, history, barred, broken>>

\* It arrives disabled, always.
CreateEndpoint(e, m) ==
  /\ Change
  /\ connection.there /\ endpoint[e].row = "none"
  /\ endpoint' = [endpoint EXCEPT ![e] = [row |-> "live", meaning |-> m, enabled |-> FALSE]]
  /\ UNCHANGED <<connection, calls, lapsed, ask, tap, admin, history, barred, broken>>

\* Editing what an action does takes it back off.
EditEndpoint(e, m) ==
  /\ Change
  /\ endpoint[e].row = "live"
  /\ endpoint' = [endpoint EXCEPT ![e] = [@ EXCEPT !.meaning = m, !.enabled = FALSE]]
  /\ UNCHANGED <<connection, calls, lapsed, ask, tap, admin, history, barred, broken>>

SetEndpointEnabled(e, on) ==
  /\ Change
  /\ endpoint[e].row = "live"
  /\ endpoint' = [endpoint EXCEPT ![e] = [@ EXCEPT !.enabled = on]]
  /\ barred' = IF on THEN {} ELSE barred
  /\ UNCHANGED <<connection, calls, lapsed, ask, tap, admin, history, broken>>

DeleteEndpoint(e) ==
  /\ Change
  /\ endpoint[e].row = "live"
  /\ endpoint' = [endpoint EXCEPT ![e] = [@ EXCEPT !.row = "gone"]]
  /\ Cascade({e})
  /\ UNCHANGED <<connection, lapsed, ask, tap, admin, history, barred, broken>>

AdminStep ==
  \/ \E d \in Admins :
       \/ AdminRead(d) \/ TestFetch(d) \/ TestRecord(d) \/ EnableConnection(d)
       \/ \E b \in Base, replaced \in BOOLEAN : EditConnection(d, b, replaced)
  \/ DisableConnection \/ DeleteConnection
  \/ \E e \in Endpoints :
       \/ \E m \in Meanings : CreateEndpoint(e, m) \/ EditEndpoint(e, m)
       \/ \E on \in BOOLEAN : SetEndpointEnabled(e, on)
       \/ DeleteEndpoint(e)

----------------------------------------------------------------------------
(* The clock and the worker's approvals.expire job.                        *)

Lapse(c) ==
  /\ calls[c].status = "pending" /\ c \notin lapsed
  /\ lapsed' = lapsed \cup {c}
  /\ UNCHANGED <<rows, calls, ask, tap, admin, history, barred, broken>>

Due == {c \in lapsed : calls[c].status = "pending"}

ExpireCalls ==
  /\ Due # {}
  /\ calls' = [c \in Calls |->
       IF c \in Due THEN [calls[c] EXCEPT !.status = "expired"] ELSE calls[c]]
  /\ UNCHANGED <<rows, lapsed, ask, tap, admin, history, barred, broken>>

----------------------------------------------------------------------------
\* After set-up: the API answered the administrator's test, the connection and
\* some endpoints were switched on, the other endpoints do not exist yet.
Init ==
  /\ \E b \in Base :
       connection = [there |-> TRUE, base |-> b, enabled |-> TRUE, checked |-> "yes"]
  /\ endpoint \in [Endpoints -> [row : {"live"}, meaning : Meanings, enabled : {TRUE}]
                                \cup [row : {"none"}, meaning : {None}, enabled : {FALSE}]]
  /\ calls = [c \in Calls |-> NoCall]
  /\ lapsed = {}
  /\ ask = [a \in Asks |-> IdleAsk]
  /\ tap = [t \in Taps |-> IdleTap]
  /\ admin = [d \in Admins |-> IdleAdmin]
  /\ changes = 0
  /\ granted = [c \in Calls |-> None]
  /\ carried = [c \in Calls |-> 0]
  /\ sent = {}
  /\ barred = {}
  /\ broken = {}

Next ==
  \/ \E a \in Asks : AskStep(a)
  \/ \E t \in Taps : TapStep(t)
  \/ AdminStep
  \/ \E c \in Calls : Lapse(c)
  \/ ExpireCalls

Spec == Init /\ [][Next]_vars

\* A decision route runs on once it is called, the clock moves, and the worker's
\* schedule fires for ever.  Nobody is obliged to ask, decide or administer.
FairSpec ==
  /\ Spec
  /\ \A t \in Taps : WF_vars(TapWork(t))
  /\ \A c \in Calls : WF_vars(Lapse(c))
  /\ WF_vars(ExpireCalls)

----------------------------------------------------------------------------
(* Properties.                                                             *)

CallRow ==
  [status : CallStatus, owner : Owners \cup {None}, endpoint : Endpoints \cup {None},
   payload : Payload \cup {None}]
EndpointRow ==
  [row : {"none", "live", "gone"}, meaning : Meanings \cup {None}, enabled : BOOLEAN]
ConnectionRow ==
  [there : BOOLEAN, base : Base, enabled : BOOLEAN, checked : {"null", "yes", "no"}]
AskState ==
  [pc : {"idle", "connection", "insert", "fetch", "check"}, user : Owners \cup {None},
   endpoint : Endpoints \cup {None}, meaning : Meanings \cup {None},
   arg : Arguments \cup {None}, base : Base \cup {None}, outcome : Outcomes]
TapState ==
  [pc : {"idle", "claim", "deny", "expire"} \cup Deciding, user : Owners \cup {None},
   call : Calls \cup {None}, meaning : Meanings \cup {None}, on : BOOLEAN,
   base : Base \cup {None}, outcome : Outcomes]
AdminState ==
  [pc : {"idle", "read", "check"}, base : Base \cup {None},
   checked : {"null", "yes", "no"}, outcome : Outcomes]
Sending ==
  [call : Calls \cup {None}, user : Owners, payload : Payload, to : Base,
   barred : BOOLEAN]

\* Every variable keeps its type; in particular no request is sent twice, however
\* many tabs agree to it (claimApproved).
TypeOK ==
  /\ connection \in ConnectionRow
  /\ endpoint \in [Endpoints -> EndpointRow]
  /\ calls \in [Calls -> CallRow]
  /\ lapsed \subseteq Calls
  /\ ask \in [Asks -> AskState]
  /\ tap \in [Taps -> TapState]
  /\ admin \in [Admins -> AdminState]
  /\ changes \in 0 .. MaxChanges
  /\ granted \in [Calls -> Owners \cup {None}]
  /\ carried \in [Calls -> 0 .. 1]
  /\ sent \subseteq Sending
  /\ barred \subseteq Calls /\ broken \subseteq Calls

\* Everything that left for an API was either a read, or exactly the request its
\* own owner was shown and agreed to, whatever was edited in the meantime
\* (claimApproved, openApprovedRequest and the approve route).
SentAsApproved ==
  \A s \in sent :
    IF s.call = None THEN s.payload.meaning \in Reads
    ELSE /\ s.payload = calls[s.call].payload
         /\ s.user = calls[s.call].owner /\ granted[s.call] = s.user

\* A request prepared for one host is never sent through a connection that was
\* moved to another one while its owner was deciding (customApiFetch).
StaysOnHost == \A s \in sent : s.payload.base.host = s.to.host

\* A request whose owner decided after an administrator had switched the action
\* or the connection off is not sent, unless something was switched on again
\* ("the switches are checked AGAIN here").
SwitchedOffIsNotSent == \A s \in sent : ~s.barred

\* A request that was denied, ran out, or failed keeps saying so until its
\* endpoint is deleted: no tab, no late answer and no repeated question brings
\* it back.
SettledStays ==
  [][\A c \in Calls : calls[c].status \in Refusals \cup {"failed"} =>
       calls'[c].status \in {calls[c].status, "gone"}]_vars

\* What is called executed was sent, and what was sent at all was approved first.
ExecutedWasSent ==
  \A c \in Calls :
    /\ calls[c].status = "executed" => carried[c] = 1
    /\ calls[c].status \in Undecided \cup Refusals => carried[c] = 0

\* The route implements a consent that is used once.
Phase ==
  [c \in Calls |->
    IF granted[c] # None THEN "granted"
    ELSE IF calls[c].status = "none" THEN "unasked"
    ELSE IF calls[c].status = "pending" THEN "asked"
    ELSE "refused"]

Consent == INSTANCE ConsentOnce WITH
  Requests <- Calls, People <- Owners, Nobody <- None,
  phase <- Phase, asked <- [c \in Calls |-> calls[c].owner],
  consent <- granted, carried <- carried

KeepsConsent == Consent!Spec

\* An approved request gets its result recorded, unless the route that approved
\* it did not run to its end (the approve route).
ResultIsRecorded ==
  \A c \in Calls :
    (calls[c].status = "approved" /\ c \notin broken)
      ~> (calls[c].status # "approved" \/ c \in broken)

\* A waiting request is decided or runs out, once the assistant stops asking for
\* the same thing again (expireCustomApiCalls).
WaitingRunsOut ==
  <>[][~\E a \in Asks : AskInsert(a)]_vars =>
    \A c \in Calls : calls[c].status = "pending" ~> calls[c].status # "pending"

\* No request of the assistant waits for ever, before its decision or after it.
EveryCallSettles == WaitingRunsOut /\ ResultIsRecorded
============================================================================
