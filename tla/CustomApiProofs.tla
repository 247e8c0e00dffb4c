-------------------------- MODULE CustomApiProofs --------------------------
(***************************************************************************)
(* What holds of CustomApi for any number of people, tabs, runs of the     *)
(* tool, administrators, endpoints and requests.                           *)
(***************************************************************************)
EXTENDS CustomApi, TLAPS

----------------------------------------------------------------------------
(* The inductive invariant.                                                *)

\* A row that exists is complete; agreement is recorded for exactly the rows that
\* were approved, and nothing is sent without it.
RequestOK(c) ==
  /\ IF calls[c].status = "none" THEN calls[c].owner = None /\ calls[c].endpoint = None
     ELSE /\ calls[c].owner \in Owners /\ calls[c].endpoint \in Endpoints
          /\ calls[c].payload \in Payload
  /\ calls[c].status \in Undecided \cup Refusals => granted[c] = None
  /\ calls[c].status \in {"approved", "executed", "failed"} => granted[c] # None
  /\ granted[c] = None => carried[c] = 0
  /\ granted[c] # None => granted[c] = calls[c].owner
  /\ calls[c].status = "executed" => carried[c] = 1

Requests == \A c \in Calls : RequestOK(c)

\* Where a decision route is, and what has become of its request by then.
RouteOK(t) ==
  LET r == tap[t] IN
  /\ r.pc # "idle" => /\ r.call \in Calls
                      /\ calls[r.call].status # "none"
                      /\ r.user = calls[r.call].owner
  /\ r.pc \in Deciding => granted[r.call] # None
  /\ r.pc \in {"endpoint", "connection", "refuse", "send"} => carried[r.call] = 0
  /\ r.pc \in {"check", "result", "event"} => carried[r.call] = 1
  /\ r.pc \in {"endpoint", "connection", "refuse", "send", "check", "result"} =>
       calls[r.call].status \in {"approved", "gone"}
  /\ r.pc \in {"connection", "send"} => r.meaning \in Meanings
  /\ r.pc = "send" => r.base \in Base /\ r.call \notin barred
  /\ r.pc = "connection" /\ r.on /\ r.call \in barred =>
       ~(connection.there /\ connection.enabled)

Routes == \A t \in Taps : RouteOK(t)

\* One decision route at a time is past the claim of a request.
OneRouteEach ==
  \A t, u \in Taps :
    tap[t].pc \in Deciding /\ tap[u].pc \in Deciding /\ tap[t].call = tap[u].call => t = u

\* What a run of the tool holds while it prepares a request.
RunOK(a) ==
  /\ ask[a].pc # "idle" => /\ ask[a].user \in Owners /\ ask[a].endpoint \in Endpoints
                           /\ ask[a].meaning \in Meanings
  /\ ask[a].pc \in {"insert", "fetch"} => ask[a].arg \in Arguments /\ ask[a].base \in Base
  /\ ask[a].pc = "fetch" => ask[a].meaning \in Reads

Runs == \A a \in Asks : RunOK(a)

\* So do administrators, and rows that are live say something.
Listed ==
  /\ \A e \in Endpoints : endpoint[e].row = "live" => endpoint[e].meaning \in Meanings
  /\ \A d \in Admins : admin[d].pc = "read" => admin[d].base \in Base

\* While a decision counts as taken too late, what it asks for is off.
BarredIsOff ==
  \A c \in barred : granted[c] # None /\ ~Serves(calls[c].endpoint)

IInv ==
  /\ TypeOK /\ Requests /\ Routes /\ OneRouteEach /\ Runs /\ Listed /\ BarredIsOff
  /\ SentAsApproved /\ StaysOnHost /\ SwitchedOffIsNotSent

----------------------------------------------------------------------------
(* Elementary updates.                                                     *)

TapPcs == {"idle", "claim", "deny", "expire"} \cup Deciding

\* A decision route that moves on stays well formed, as does one that ends.
LEMMA GotoShape ==
  ASSUME tap \in [Taps -> TapState], NEW t \in Taps, NEW pc \in TapPcs, Goto(t, pc)
  PROVE  tap' \in [Taps -> TapState]
  BY DEF Goto, TapState, TapPcs

LEMMA LeaveShape ==
  ASSUME tap \in [Taps -> TapState], NEW t \in Taps, Leave(t)
  PROVE  tap' \in [Taps -> TapState]
<1>1. "idle" \in TapPcs /\ "other" \in Outcomes
  BY DEF TapPcs, Outcomes
<1>2. IdleTap \in TapState
  BY <1>1 DEF IdleTap, TapState, TapPcs
<1> QED  BY <1>2 DEF Leave

\* Changing the status of a row changes nothing else of it.
LEMMA StatusShape ==
  ASSUME calls \in [Calls -> CallRow], NEW c \in Calls, NEW s \in CallStatus, SetStatus(c, s)
  PROVE  /\ calls' \in [Calls -> CallRow]
         /\ calls'[c] = [calls[c] EXCEPT !.status = s]
         /\ \A d \in Calls \ {c} : calls'[d] = calls[d]
  BY DEF SetStatus, CallRow

LEMMA ResultShape ==
  ASSUME calls \in [Calls -> CallRow], NEW c \in Calls, NEW s \in CallStatus, SetResult(c, s)
  PROVE  /\ calls' \in [Calls -> CallRow]
         /\ calls'[c] = IF calls[c].status = "gone" THEN calls[c]
                        ELSE [calls[c] EXCEPT !.status = s]
         /\ \A d \in Calls \ {c} : calls'[d] = calls[d]
<1>1. CASE calls[c].status = "gone"
  BY <1>1 DEF SetResult
<1>2. CASE calls[c].status # "gone"
  BY <1>2, StatusShape DEF SetResult
<1> QED  BY <1>1, <1>2

\* What a row says besides its status, in terms of the fields.
LEMMA RowFields ==
  ASSUME NEW r \in CallRow, NEW s \in CallStatus
  PROVE  /\ [r EXCEPT !.status = s] \in CallRow
         /\ [r EXCEPT !.status = s].status = s
         /\ [r EXCEPT !.status = s].owner = r.owner
         /\ [r EXCEPT !.status = s].endpoint = r.endpoint
         /\ [r EXCEPT !.status = s].payload = r.payload
  BY DEF CallRow

\* The names a status may have.
LEMMA Statuses ==
  /\ "pending" \in CallStatus /\ "approved" \in CallStatus /\ "denied" \in CallStatus
  /\ "expired" \in CallStatus /\ "executed" \in CallStatus /\ "failed" \in CallStatus
  /\ "gone" \in CallStatus /\ "none" \in CallStatus
  BY DEF CallStatus

LEMMA Places ==
  /\ "endpoint" \in TapPcs /\ "connection" \in TapPcs /\ "refuse" \in TapPcs
  /\ "send" \in TapPcs /\ "check" \in TapPcs /\ "result" \in TapPcs /\ "event" \in TapPcs
  /\ "caught" \in TapPcs /\ "caughtResult" \in TapPcs
  /\ "claim" \in TapPcs /\ "deny" \in TapPcs /\ "expire" \in TapPcs
  BY DEF TapPcs, Deciding

\* Recording a check never moves a connection, and never switches it on.
LEMMA CheckShape ==
  ASSUME connection \in ConnectionRow, NEW o, RecordCheck(o)
  PROVE  /\ connection' \in ConnectionRow
         /\ connection'.there = connection.there /\ connection'.base = connection.base
         /\ connection'.enabled => connection.enabled
<1>1. CASE ~connection.there
  BY <1>1 DEF RecordCheck
<1>2. CASE connection.there
  BY <1>2 DEF RecordCheck, ConnectionRow
<1> QED  BY <1>1, <1>2

\* Rows that go with an endpoint keep what they say.
LEMMA CascadeShape ==
  ASSUME calls \in [Calls -> CallRow], NEW E, Cascade(E)
  PROVE  /\ calls' \in [Calls -> CallRow]
         /\ \A c \in Calls : \/ calls'[c] = calls[c]
                             \/ /\ calls[c].endpoint \in E
                                /\ calls'[c] = [calls[c] EXCEPT !.status = "gone"]
  BY Statuses, RowFields DEF Cascade

----------------------------------------------------------------------------
(* Every variable keeps its type.                                          *)

\* Idle runs of the tool and idle administrators.
LEMMA IdleForms == IdleAsk \in AskState /\ IdleAdmin \in AdminState
<1>1. "other" \in Outcomes
  BY DEF Outcomes
<1> QED  BY <1>1 DEF AskState, IdleAsk, AdminState, IdleAdmin

\* What a run of the tool has prepared is a payload.
LEMMA PreparedShape ==
  ASSUME NEW a \in Asks, RunOK(a), ask[a].pc \in {"insert", "fetch"}
  PROVE  Prepared(a) \in Payload
  BY DEF RunOK, Prepared, Payload

LEMMA AskType ==
  ASSUME IInv, NEW a \in Asks, AskStep(a)
  PROVE  TypeOK'
<1> USE DEF IInv, TypeOK, rows, history
<1>0. RunOK(a)
  BY DEF Runs
<1>1. ASSUME NEW u \in Owners, NEW e \in Endpoints, AskResolve(a, u, e)
      PROVE  TypeOK'
  <2>1. endpoint[e].meaning \in Meanings \cup {None}
    BY DEF EndpointRow
  <2>2. [IdleAsk EXCEPT !.pc = "connection", !.user = u, !.endpoint = e,
           !.meaning = endpoint[e].meaning] \in AskState
    BY <2>1, IdleForms DEF AskState, IdleAsk
  <2> QED  BY <1>1, <2>2 DEF AskResolve
<1>2. CASE AskConnection(a)
  <2>1. connection.base \in Base
    BY DEF ConnectionRow
  <2>2. \A x \in Arguments :
          [ask[a] EXCEPT !.arg = x, !.base = connection.base,
             !.pc = IF ask[a].meaning \in Reads THEN "fetch" ELSE "insert"] \in AskState
    BY <2>1 DEF AskState
  <2> QED  BY <1>2, <2>2, IdleForms DEF AskConnection
<1>3. CASE AskInsert(a)
  <2>1. ask' \in [Asks -> AskState]
    BY <1>3, IdleForms DEF AskInsert
  <2>2. Prepared(a) \in Payload /\ ask[a].user \in Owners /\ ask[a].endpoint \in Endpoints
    BY <1>0, <1>3, PreparedShape DEF AskInsert, RunOK
  <2>3. [status |-> "pending", owner |-> ask[a].user, endpoint |-> ask[a].endpoint,
         payload |-> Prepared(a)] \in CallRow
    BY <2>2, Statuses DEF CallRow
  <2>4. calls' \in [Calls -> CallRow] /\ lapsed' \subseteq Calls
    <3>1. ASSUME NEW c \in Same(a), SetStatus(c, "pending")
          PROVE  calls' \in [Calls -> CallRow]
      BY <3>1, StatusShape, Statuses DEF Same
    <3> QED  BY <1>3, <2>3, <3>1 DEF AskInsert
  <2> QED  BY <1>3, <2>1, <2>4 DEF AskInsert
<1>4. CASE AskFetch(a)
  <2>1. Prepared(a) \in Payload /\ ask[a].user \in Owners /\ ask[a].base \in Base
        /\ ask[a].meaning \in Meanings
    BY <1>0, <1>4, PreparedShape DEF AskFetch, RunOK
  <2>2. [call |-> None, user |-> ask[a].user, payload |-> Prepared(a),
         to |-> ask[a].base, barred |-> FALSE] \in Sending
    BY <2>1 DEF Sending
  <2>3. ask' \in [Asks -> AskState]
    <3>1. \A o \in Outcomes : [ask[a] EXCEPT !.pc = "check", !.outcome = o] \in AskState
      BY DEF AskState
    <3> QED  BY <1>4, <3>1 DEF AskFetch
  <2> QED  BY <1>4, <2>2, <2>3 DEF AskFetch
<1>5. CASE AskCheck(a)
  BY <1>5, CheckShape, IdleForms DEF AskCheck
<1> QED  BY <1>1, <1>2, <1>3, <1>4, <1>5 DEF AskStep

LEMMA TapType ==
  ASSUME IInv, NEW t \in Taps, TapStep(t)
  PROVE  TypeOK'
<1> USE DEF IInv, TypeOK, rows, history
<1>0. tap[t].pc # "idle" => tap[t].call \in Calls
  BY DEF Routes, RouteOK
<1>1. ASSUME NEW u \in Owners, NEW c \in Calls, TapRead(t, u, c)
      PROVE  TypeOK'
  <2>1. \A pc \in {"deny", IF c \in lapsed THEN "expire" ELSE "claim"} :
          [IdleTap EXCEPT !.pc = pc, !.user = u, !.call = c] \in TapState
    <3> SUFFICES ASSUME NEW pc \in {"deny", IF c \in lapsed THEN "expire" ELSE "claim"}
                 PROVE  [IdleTap EXCEPT !.pc = pc, !.user = u, !.call = c] \in TapState
      OBVIOUS
    <3>1. pc \in TapPcs
      BY Places
    <3>2. "other" \in Outcomes
      BY DEF Outcomes
    <3> QED  BY <3>1, <3>2 DEF IdleTap, TapState, TapPcs
  <2> QED  BY <1>1, <2>1 DEF TapRead
<1>2. CASE TapDeny(t)
  BY <1>0, <1>2, StatusShape, LeaveShape, Statuses DEF TapDeny
<1>3. CASE TapExpire(t)
  BY <1>0, <1>3, StatusShape, LeaveShape, Statuses DEF TapExpire
<1>4. CASE TapClaim(t)
  <2>1. tap[t].call \in Calls /\ tap[t].user \in Owners \cup {None}
    BY <1>0, <1>4 DEF TapClaim, TapState
  <2>2. tap' \in [Taps -> TapState]
    BY <1>4, GotoShape, LeaveShape, Places DEF TapClaim
  <2>3. calls' \in [Calls -> CallRow]
    BY <1>4, <2>1, StatusShape, Statuses DEF TapClaim
  <2>4. granted' \in [Calls -> Owners \cup {None}] /\ barred' \subseteq Calls
    BY <1>4, <2>1 DEF TapClaim
  <2> QED  BY <1>4, <2>2, <2>3, <2>4 DEF TapClaim
<1>5. CASE TapEndpoint(t)
  <2>1. Call(t).endpoint \in Endpoints
    BY <1>0, <1>5 DEF TapEndpoint, Call, Requests, RequestOK, Routes, RouteOK
  <2>2. endpoint[Call(t).endpoint].meaning \in Meanings \cup {None}
        /\ endpoint[Call(t).endpoint].enabled \in BOOLEAN
    BY <2>1 DEF EndpointRow
  <2>3. [tap[t] EXCEPT !.pc = "connection", !.meaning = endpoint[Call(t).endpoint].meaning,
           !.on = endpoint[Call(t).endpoint].enabled] \in TapState
    BY <2>2, Places DEF TapState, TapPcs
  <2>4. Goto(t, "refuse") => tap' \in [Taps -> TapState]
    BY GotoShape, Places
  <2> QED  BY <1>5, <2>3, <2>4 DEF TapEndpoint
<1>6. CASE TapConnection(t)
  <2>1. connection.base \in Base
    BY DEF ConnectionRow
  <2>2. [tap[t] EXCEPT !.pc = "send", !.base = connection.base] \in TapState
    BY <2>1, Places DEF TapState, TapPcs
  <2>3. Goto(t, "refuse") => tap' \in [Taps -> TapState]
    BY GotoShape, Places
  <2> QED  BY <1>6, <2>2, <2>3 DEF TapConnection
<1>7. CASE TapRefuse(t)
  BY <1>0, <1>7, ResultShape, LeaveShape, Statuses DEF TapRefuse
<1>8. CASE TapSend(t)
  <2>1. \A o \in Outcomes : [tap[t] EXCEPT !.pc = "check", !.outcome = o] \in TapState
    BY Places DEF TapState, TapPcs
  <2>2. tap' \in [Taps -> TapState]
    <3>1. Goto(t, "caught") => tap' \in [Taps -> TapState]
      BY GotoShape, Places
    <3> QED  BY <1>8, <2>1, <3>1 DEF TapSend
  <2>3. tap[t].call \in Calls /\ tap[t].base \in Base /\ tap[t].meaning \in Meanings
        /\ carried[tap[t].call] = 0
    BY <1>8 DEF TapSend, Routes, RouteOK
  <2>4. carried' \in [Calls -> 0 .. 1]
    <3>1. carried[tap[t].call] + 1 \in 0 .. 1
      BY <2>3
    <3> QED  BY <1>8, <2>3, <3>1 DEF TapSend
  <2>5. SealedPayload(t) \in Payload /\ tap[t].user \in Owners
    BY <1>8, <2>3 DEF TapSend, SealedPayload, Call, Routes, RouteOK, Requests, RequestOK
  <2>6. [call |-> tap[t].call, user |-> tap[t].user, payload |-> SealedPayload(t),
         to |-> tap[t].base,
         barred |-> tap[t].call \in barred] \in Sending
    BY <2>3, <2>5 DEF Sending
  <2>7. sent' \subseteq Sending
    BY <1>8, <2>6 DEF TapSend
  <2> QED  BY <1>8, <2>2, <2>4, <2>7 DEF TapSend
<1>9. CASE TapCheck(t)
  BY <1>9, CheckShape, GotoShape, Places DEF TapCheck
<1>10. CASE TapResult(t)
  <2>1. calls' \in [Calls -> CallRow]
    BY <1>0, <1>10, ResultShape, Statuses DEF TapResult
  <2> QED  BY <1>10, <2>1, GotoShape, Places DEF TapResult
<1>11. CASE TapEvent(t)
  BY <1>11, LeaveShape DEF TapEvent
<1>12. CASE TapCaught(t)
  BY <1>12, CheckShape, GotoShape, Places DEF TapCaught
<1>13. CASE TapCaughtResult(t)
  BY <1>0, <1>13, ResultShape, LeaveShape, Statuses DEF TapCaughtResult
<1>14. CASE TapThrows(t)
  BY <1>14, GotoShape, Places DEF TapThrows
<1>15. CASE TapDies(t)
  <2>1. tap[t].call \in Calls
    BY <1>0, <1>15 DEF TapDies, Deciding
  <2> QED  BY <1>15, <2>1, LeaveShape DEF TapDies
<1> QED  BY <1>1, <1>2, <1>3, <1>4, <1>5, <1>6, <1>7, <1>8, <1>9, <1>10, <1>11, <1>12,
            <1>13, <1>14, <1>15 DEF TapStep, TapWork

LEMMA ChangeShape ==
  ASSUME changes \in 0 .. MaxChanges, Change
  PROVE  changes' \in 0 .. MaxChanges
  BY ChangesAssumption DEF Change

LEMMA EndpointShape ==
  ASSUME NEW r \in EndpointRow, NEW m \in Meanings, NEW on \in BOOLEAN
  PROVE  /\ [row |-> "live", meaning |-> m, enabled |-> on] \in EndpointRow
         /\ [r EXCEPT !.meaning = m, !.enabled = on] \in EndpointRow
         /\ [r EXCEPT !.enabled = on] \in EndpointRow
         /\ [r EXCEPT !.row = "gone"] \in EndpointRow
  BY DEF EndpointRow

LEMMA AdminType ==
  ASSUME IInv, AdminStep
  PROVE  TypeOK'
<1> USE DEF IInv, TypeOK, rows, history
<1>1. ASSUME NEW d \in Admins, AdminRead(d)
      PROVE  TypeOK'
  <2>1. [IdleAdmin EXCEPT !.pc = "read", !.base = connection.base,
           !.checked = connection.checked] \in AdminState
    BY IdleForms DEF AdminState, IdleAdmin, ConnectionRow
  <2> QED  BY <1>1, <2>1, ChangeShape DEF AdminRead
<1>2. ASSUME NEW d \in Admins, TestFetch(d)
      PROVE  TypeOK'
  <2>1. admin' \in [Admins -> AdminState]
    BY <1>2 DEF TestFetch, AdminState
  <2> QED  BY <1>2, <2>1 DEF TestFetch, Listed
<1>3. ASSUME NEW d \in Admins, TestRecord(d)
      PROVE  TypeOK'
  BY <1>3, CheckShape, IdleForms DEF TestRecord
<1>4. ASSUME NEW d \in Admins, EnableConnection(d)
      PROVE  TypeOK'
  <2>1. connection' \in ConnectionRow
    BY <1>4 DEF EnableConnection, ConnectionRow
  <2> QED  BY <1>4, <2>1, IdleForms DEF EnableConnection
<1>5. ASSUME NEW d \in Admins, NEW b \in Base, NEW replaced \in BOOLEAN,
             EditConnection(d, b, replaced)
      PROVE  TypeOK'
  <2>1. connection' \in ConnectionRow
    BY <1>5 DEF EditConnection, ConnectionRow
  <2> QED  BY <1>5, <2>1, IdleForms DEF EditConnection
<1>6. CASE DisableConnection
  <2>1. connection' \in ConnectionRow
    BY <1>6 DEF DisableConnection, ConnectionRow
  <2> QED  BY <1>6, <2>1, ChangeShape DEF DisableConnection
<1>7. CASE DeleteConnection
  <2>1. connection' \in ConnectionRow
    BY <1>7 DEF DeleteConnection, ConnectionRow
  <2>2. endpoint' \in [Endpoints -> EndpointRow]
    BY <1>7 DEF DeleteConnection, EndpointRow
  <2> QED  BY <1>7, <2>1, <2>2, CascadeShape, ChangeShape DEF DeleteConnection
<1>8. ASSUME NEW e \in Endpoints, NEW m \in Meanings, CreateEndpoint(e, m)
      PROVE  TypeOK'
  BY <1>8, EndpointShape, ChangeShape DEF CreateEndpoint
<1>9. ASSUME NEW e \in Endpoints, NEW m \in Meanings, EditEndpoint(e, m)
      PROVE  TypeOK'
  BY <1>9, EndpointShape, ChangeShape DEF EditEndpoint
<1>10. ASSUME NEW e \in Endpoints, NEW on \in BOOLEAN, SetEndpointEnabled(e, on)
       PROVE  TypeOK'
  <2>1. endpoint' \in [Endpoints -> EndpointRow]
    BY <1>10 DEF SetEndpointEnabled, EndpointRow
  <2> QED  BY <1>10, <2>1, ChangeShape DEF SetEndpointEnabled
<1>11. ASSUME NEW e \in Endpoints, DeleteEndpoint(e)
       PROVE  TypeOK'
  <2>1. endpoint' \in [Endpoints -> EndpointRow]
    BY <1>11 DEF DeleteEndpoint, EndpointRow
  <2> QED  BY <1>11, <2>1, CascadeShape, ChangeShape DEF DeleteEndpoint
<1> QED  BY <1>1, <1>2, <1>3, <1>4, <1>5, <1>6, <1>7, <1>8, <1>9, <1>10, <1>11 DEF AdminStep

LEMMA TypeKept ==
  ASSUME IInv, Next
  PROVE  TypeOK'
<1>1. ASSUME NEW c \in Calls, Lapse(c)
      PROVE  TypeOK'
  BY <1>1 DEF IInv, TypeOK, Lapse, rows, history
<1>2. CASE ExpireCalls
  <2>1. calls' \in [Calls -> CallRow]
    BY <1>2, RowFields, Statuses DEF ExpireCalls, IInv, TypeOK
  <2> QED  BY <1>2, <2>1 DEF IInv, TypeOK, ExpireCalls, rows, history
<1> QED  BY <1>1, <1>2, AskType, TapType, AdminType DEF Next

----------------------------------------------------------------------------
(* Requests.                                                               *)

\* A row that takes a status its agreement allows stays well formed ...
LEMMA StatusMoves ==
  ASSUME IInv, NEW c \in Calls, NEW s \in CallStatus \ {"none"}, SetStatus(c, s),
         calls[c].status # "none", UNCHANGED <<granted, carried>>,
         s \in Undecided \cup Refusals => granted[c] = None,
         s \in {"approved", "executed", "failed"} => granted[c] # None,
         s = "executed" => carried[c] = 1
  PROVE  Requests'
<1>1. calls \in [Calls -> CallRow] /\ calls[c] \in CallRow
  BY DEF IInv, TypeOK
<1>2. /\ calls'[c] = [calls[c] EXCEPT !.status = s]
      /\ \A d \in Calls \ {c} : calls'[d] = calls[d]
  BY <1>1, StatusShape
<1>3. /\ calls'[c].status = s /\ calls'[c].owner = calls[c].owner
      /\ calls'[c].endpoint = calls[c].endpoint /\ calls'[c].payload = calls[c].payload
  BY <1>1, <1>2, RowFields
<1> QED  BY <1>2, <1>3 DEF IInv, Requests, RequestOK

\* ... and so it does when the result of what was agreed to is recorded.
LEMMA ResultMoves ==
  ASSUME IInv, NEW c \in Calls, NEW s \in {"executed", "failed"}, SetResult(c, s),
         calls[c].status # "none", UNCHANGED <<granted, carried>>, granted[c] # None,
         s = "executed" => carried[c] = 1
  PROVE  Requests'
<1>1. CASE calls[c].status = "gone"
  BY <1>1 DEF SetResult, IInv, Requests, RequestOK
<1>2. CASE calls[c].status # "gone"
  <2>1. SetStatus(c, s)
    BY <1>2 DEF SetResult
  <2> QED  BY <2>1, StatusMoves, Statuses DEF Undecided, Refusals
<1> QED  BY <1>1, <1>2

\* Rows that go with their endpoint.
LEMMA CascadeMoves ==
  ASSUME IInv, NEW E, None \notin E, Cascade(E), UNCHANGED <<granted, carried>>
  PROVE  Requests'
<1> SUFFICES ASSUME NEW c \in Calls
             PROVE  RequestOK(c)'
  BY DEF Requests
<1>1. calls \in [Calls -> CallRow] /\ calls[c] \in CallRow /\ RequestOK(c)
  BY DEF IInv, TypeOK, Requests
<1>2. CASE calls'[c] = calls[c]
  BY <1>1, <1>2 DEF RequestOK
<1>3. CASE calls[c].endpoint \in E /\ calls'[c] = [calls[c] EXCEPT !.status = "gone"]
  <2>1. /\ calls'[c].status = "gone" /\ calls'[c].owner = calls[c].owner
        /\ calls'[c].endpoint = calls[c].endpoint /\ calls'[c].payload = calls[c].payload
    BY <1>1, <1>3, RowFields, Statuses
  <2>2. calls[c].status # "none"
    BY <1>1, <1>3 DEF RequestOK
  <2> QED  BY <1>1, <2>1, <2>2 DEF RequestOK, Undecided, Refusals
<1> QED  BY <1>1, <1>2, <1>3, CascadeShape

\* The rows a run of the tool holds on to: what it asks for is complete.
LEMMA AskRequests ==
  ASSUME IInv, NEW a \in Asks, AskStep(a)
  PROVE  Requests'
<1>0. UNCHANGED <<granted, carried>>
  BY DEF AskStep, AskResolve, AskConnection, AskInsert, AskFetch, AskCheck, rows, history
<1>1. CASE AskInsert(a)
  <2>1. CASE UNCHANGED calls
    BY <1>0, <2>1 DEF IInv, Requests, RequestOK
  <2>2. ASSUME NEW c \in Same(a), SetStatus(c, "pending")
        PROVE  Requests'
    <3>1. c \in Calls /\ calls[c].status = "pending"
      BY DEF Same
    <3>2. granted[c] = None
      BY <3>1 DEF IInv, Requests, RequestOK, Undecided
    <3> QED  BY <1>0, <2>2, <3>1, <3>2, StatusMoves, Statuses
  <2>3. ASSUME NEW c \in Calls, calls[c].status = "none",
               calls' = [calls EXCEPT ![c] = [status |-> "pending",
                  owner |-> ask[a].user, endpoint |-> ask[a].endpoint,
                  payload |-> Prepared(a)]]
        PROVE  Requests'
    <3>1. Prepared(a) \in Payload /\ ask[a].user \in Owners /\ ask[a].endpoint \in Endpoints
      BY <1>1, PreparedShape DEF AskInsert, IInv, Runs, RunOK
    <3>2. calls \in [Calls -> CallRow]
      BY DEF IInv, TypeOK
    <3>3. /\ calls'[c].status = "pending" /\ calls'[c].owner = ask[a].user
          /\ calls'[c].endpoint = ask[a].endpoint /\ calls'[c].payload = Prepared(a)
          /\ \A d \in Calls \ {c} : calls'[d] = calls[d]
      BY <2>3, <3>2
    <3>4. granted[c] = None
      BY <2>3 DEF IInv, Requests, RequestOK, Undecided
    <3> QED  BY <1>0, <3>1, <3>3, <3>4 DEF IInv, Requests, RequestOK
  <2> QED  BY <1>1, <2>1, <2>2, <2>3 DEF AskInsert
<1>2. CASE ~AskInsert(a)
  <2>1. UNCHANGED calls
    BY <1>2 DEF AskStep, AskResolve, AskConnection, AskFetch, AskCheck
  <2> QED  BY <1>0, <2>1 DEF IInv, Requests, RequestOK
<1> QED  BY <1>1, <1>2

\* A decision route: the row it decides on is the one it read.
LEMMA TapRequests ==
  ASSUME IInv, NEW t \in Taps, TapStep(t)
  PROVE  Requests'
<1>0. /\ RouteOK(t)
      /\ tap[t].pc # "idle" => tap[t].call \in Calls /\ RequestOK(tap[t].call)
      /\ calls \in [Calls -> CallRow]
      /\ carried \in [Calls -> 0 .. 1]
      /\ granted \in [Calls -> Owners \cup {None}]
  BY DEF IInv, Routes, RouteOK, Requests, TypeOK
<1>1. CASE UNCHANGED <<calls, granted, carried>>
  BY <1>1 DEF IInv, Requests, RequestOK
<1>2. CASE TapDeny(t)
  <2>1. CASE Call(t).status = "pending"
    <3>1. SetStatus(tap[t].call, "denied") /\ granted[tap[t].call] = None
      BY <1>0, <1>2, <2>1 DEF TapDeny, Call, RequestOK, Undecided
    <3> QED  BY <1>0, <1>2, <2>1, <3>1, StatusMoves, Statuses DEF TapDeny, Call, history
  <2> QED  BY <1>1, <1>2, <2>1 DEF TapDeny, history
<1>3. CASE TapExpire(t)
  <2>1. CASE Call(t).status = "pending"
    <3>1. SetStatus(tap[t].call, "expired") /\ granted[tap[t].call] = None
      BY <1>0, <1>3, <2>1 DEF TapExpire, Call, RequestOK, Undecided
    <3> QED  BY <1>0, <1>3, <2>1, <3>1, StatusMoves, Statuses DEF TapExpire, Call, history
  <2> QED  BY <1>1, <1>3, <2>1 DEF TapExpire, history
<1>4. CASE TapClaim(t)
  <2>1. ASSUME NEW c \in Calls, c = tap[t].call, Claimable(t)
        PROVE  Requests'
    <3>1. /\ calls[c].status = "pending" /\ tap[t].user = calls[c].owner
          /\ SetStatus(c, "approved") /\ granted' = [granted EXCEPT ![c] = tap[t].user]
          /\ UNCHANGED carried
      BY <1>0, <1>4, <2>1 DEF TapClaim, Claimable, Call, RouteOK
    <3>2. calls[c] \in CallRow /\ RequestOK(c)
      BY <1>0 DEF IInv, Requests
    <3>3. /\ calls'[c] = [calls[c] EXCEPT !.status = "approved"]
          /\ \A d \in Calls \ {c} : calls'[d] = calls[d]
      BY <1>0, <3>1, StatusShape, Statuses
    <3>4. /\ calls'[c].status = "approved" /\ calls'[c].owner = calls[c].owner
          /\ calls'[c].endpoint = calls[c].endpoint /\ calls'[c].payload = calls[c].payload
      BY <3>2, <3>3, RowFields, Statuses
    <3>5. granted'[c] = calls[c].owner /\ \A d \in Calls \ {c} : granted'[d] = granted[d]
      BY <1>0, <3>1
    <3>6. calls[c].owner \in Owners /\ calls[c].endpoint \in Endpoints
          /\ calls[c].payload \in Payload /\ carried[c] = 0
      BY <3>1, <3>2 DEF RequestOK, Undecided
    <3>7. RequestOK(c)'
      BY <3>1, <3>4, <3>5, <3>6, NoneAssumption DEF RequestOK, Undecided, Refusals
    <3>8. \A d \in Calls \ {c} : RequestOK(d)'
      BY <3>1, <3>3, <3>5 DEF IInv, Requests, RequestOK
    <3> QED  BY <3>7, <3>8 DEF Requests
  <2>2. tap[t].call \in Calls
    BY <1>0, <1>4 DEF TapClaim
  <2> QED  BY <1>1, <1>4, <2>1, <2>2 DEF TapClaim
<1>5. CASE TapRefuse(t)
  <2>1. /\ tap[t].call \in Calls /\ granted[tap[t].call] # None
        /\ calls[tap[t].call].status # "none"
    BY <1>0, <1>5 DEF TapRefuse, RouteOK, Deciding
  <2> QED  BY <1>5, <2>1, ResultMoves DEF TapRefuse, history
<1>6. CASE TapSend(t)
  <2>1. tap[t].call \in Calls /\ granted[tap[t].call] # None /\ carried[tap[t].call] = 0
        /\ calls[tap[t].call].status \in {"approved", "gone"}
    BY <1>0, <1>6 DEF TapSend, RouteOK, Deciding
  <2>2. CASE carried' = [carried EXCEPT ![tap[t].call] = @ + 1]
    <3>1. \A d \in Calls \ {tap[t].call} : carried'[d] = carried[d]
      BY <1>0, <2>2
    <3> QED  BY <1>6, <2>1, <3>1 DEF TapSend, IInv, Requests, RequestOK
  <2> QED  BY <1>1, <1>6, <2>2 DEF TapSend
<1>7. CASE TapResult(t)
  <2>1. /\ tap[t].call \in Calls /\ granted[tap[t].call] # None
        /\ calls[tap[t].call].status # "none" /\ carried[tap[t].call] = 1
    BY <1>0, <1>7 DEF TapResult, RouteOK, Deciding
  <2> QED  BY <1>7, <2>1, ResultMoves DEF TapResult, history
<1>8. CASE TapCaughtResult(t)
  <2>1. /\ tap[t].call \in Calls /\ granted[tap[t].call] # None
        /\ calls[tap[t].call].status # "none"
    BY <1>0, <1>8 DEF TapCaughtResult, RouteOK, Deciding
  <2> QED  BY <1>8, <2>1, ResultMoves DEF TapCaughtResult, history
<1>9. CASE \/ TapEndpoint(t) \/ TapConnection(t) \/ TapCheck(t) \/ TapEvent(t)
           \/ TapCaught(t) \/ TapThrows(t) \/ TapDies(t)
           \/ \E u \in Owners, c \in Calls : TapRead(t, u, c)
  <2>1. UNCHANGED <<calls, granted, carried>>
    BY <1>9 DEF TapEndpoint, TapConnection, TapCheck, TapEvent, TapCaught, TapThrows,
                TapDies, TapRead, history
  <2> QED  BY <1>1, <2>1
<1> QED  BY <1>2, <1>3, <1>4, <1>5, <1>6, <1>7, <1>8, <1>9 DEF TapStep, TapWork

\* Administrators can only take rows away.
LEMMA AdminRequests ==
  ASSUME IInv, AdminStep
  PROVE  Requests'
<1>0. UNCHANGED <<granted, carried>>
  BY DEF AdminStep, AdminRead, TestFetch, TestRecord, EnableConnection, EditConnection,
         DisableConnection, DeleteConnection, CreateEndpoint, EditEndpoint,
         SetEndpointEnabled, DeleteEndpoint, history
<1>1. CASE DeleteConnection
  BY <1>0, <1>1, CascadeMoves, NoneAssumption DEF DeleteConnection
<1>2. ASSUME NEW e \in Endpoints, DeleteEndpoint(e)
      PROVE  Requests'
  BY <1>0, <1>2, CascadeMoves, NoneAssumption DEF DeleteEndpoint
<1>3. CASE UNCHANGED calls
  BY <1>0, <1>3 DEF IInv, Requests, RequestOK
<1> QED
  BY <1>1, <1>2, <1>3 DEF AdminStep, AdminRead, TestFetch, TestRecord, EnableConnection,
     EditConnection, DisableConnection, CreateEndpoint, EditEndpoint, SetEndpointEnabled

LEMMA RequestsKept ==
  ASSUME IInv, Next
  PROVE  Requests'
<1>1. ASSUME NEW c \in Calls, Lapse(c)
      PROVE  Requests'
  BY <1>1 DEF Lapse, history, IInv, Requests, RequestOK
<1>2. CASE ExpireCalls
  <2> SUFFICES ASSUME NEW c \in Calls
               PROVE  RequestOK(c)'
    BY DEF Requests
  <2>1. calls[c] \in CallRow /\ RequestOK(c) /\ UNCHANGED <<granted, carried>>
    BY <1>2 DEF IInv, TypeOK, Requests, ExpireCalls, history
  <2>2. CASE c \in Due
    <3>1. calls'[c] = [calls[c] EXCEPT !.status = "expired"] /\ calls[c].status = "pending"
      BY <1>2, <2>2 DEF ExpireCalls, Due
    <3>2. /\ calls'[c].status = "expired" /\ calls'[c].owner = calls[c].owner
          /\ calls'[c].endpoint = calls[c].endpoint /\ calls'[c].payload = calls[c].payload
      BY <2>1, <3>1, RowFields, Statuses
    <3> QED  BY <2>1, <3>1, <3>2 DEF RequestOK, Undecided, Refusals
  <2>3. CASE c \notin Due
    BY <1>2, <2>1, <2>3 DEF ExpireCalls, RequestOK
  <2> QED  BY <2>2, <2>3
<1> QED  BY <1>1, <1>2, AskRequests, TapRequests, AdminRequests DEF Next

----------------------------------------------------------------------------
(* Decision routes.                                                        *)

\* What a route that moves on takes along, and what one that ends leaves.
LEMMA GotoFields ==
  ASSUME tap \in [Taps -> TapState], NEW t \in Taps, NEW pc, Goto(t, pc)
  PROVE  /\ tap'[t].pc = pc /\ tap'[t].call = tap[t].call /\ tap'[t].user = tap[t].user
         /\ tap'[t].meaning = tap[t].meaning /\ tap'[t].on = tap[t].on
         /\ tap'[t].base = tap[t].base
         /\ \A u \in Taps \ {t} : tap'[u] = tap[u]
<1>1. tap[t] \in TapState
  OBVIOUS
<1>2. tap'[t] = [tap[t] EXCEPT !.pc = pc] /\ \A u \in Taps \ {t} : tap'[u] = tap[u]
  BY DEF Goto
<1> QED  BY <1>1, <1>2 DEF TapState

LEMMA LeaveFields ==
  ASSUME tap \in [Taps -> TapState], NEW t \in Taps, Leave(t)
  PROVE  tap'[t].pc = "idle" /\ \A u \in Taps \ {t} : tap'[u] = tap[u]
  BY DEF Leave, IdleTap

\* A route that stands still is not disturbed by what only ends its row, or
\* touches rows nobody agreed to.
LEMMA RouteKept ==
  ASSUME IInv, NEW u \in Taps, tap'[u] = tap[u],
         \A d \in Calls : calls[d].status # "none" =>
           calls'[d].status # "none" /\ calls'[d].owner = calls[d].owner,
         tap[u].pc \in Deciding =>
           /\ calls'[tap[u].call].status \in {calls[tap[u].call].status, "gone"}
           /\ granted'[tap[u].call] # None
           /\ carried'[tap[u].call] = carried[tap[u].call]
           /\ tap[u].call \in barred' =>
                /\ tap[u].call \in barred
                /\ connection'.there /\ connection'.enabled =>
                     connection.there /\ connection.enabled
  PROVE  RouteOK(u)'
  BY DEF IInv, Routes, RouteOK, Deciding

\* A row a route is deciding on was agreed to, so it does not wait.
LEMMA DecidingRow ==
  ASSUME IInv, NEW u \in Taps, tap[u].pc \in Deciding
  PROVE  /\ tap[u].call \in Calls /\ granted[tap[u].call] # None
         /\ calls[tap[u].call].status \notin Undecided \cup Refusals
  BY DEF IInv, Routes, RouteOK, Deciding, Requests, RequestOK

\* Whatever becomes of a row, it goes on saying what was asked, and of whom.
SaysTheSame(d) ==
  /\ calls'[d].owner = calls[d].owner /\ calls'[d].endpoint = calls[d].endpoint
  /\ calls'[d].payload = calls[d].payload

\* Runs of the tool touch only rows that wait, or do not exist.
LEMMA AskRows ==
  ASSUME IInv, NEW a \in Asks, AskStep(a)
  PROVE  /\ UNCHANGED <<tap, granted, carried, barred, endpoint, admin>>
         /\ connection'.there /\ connection'.enabled => connection.there /\ connection.enabled
         /\ \A d \in Calls :
              /\ calls[d].status \notin Undecided => calls'[d] = calls[d]
              /\ calls[d].status # "none" => calls'[d].status = calls[d].status /\ SaysTheSame(d)
<1> USE DEF rows, history
<1>1. UNCHANGED <<tap, granted, carried, barred, endpoint, admin>>
  BY DEF AskStep, AskResolve, AskConnection, AskInsert, AskFetch, AskCheck
<1>2. connection'.there /\ connection'.enabled => connection.there /\ connection.enabled
  <2>1. connection \in ConnectionRow
    BY DEF IInv, TypeOK
  <2>2. CASE AskCheck(a)
    BY <2>1, <2>2, CheckShape DEF AskCheck
  <2>3. CASE UNCHANGED connection
    BY <2>3
  <2> QED  BY <2>2, <2>3 DEF AskStep, AskResolve, AskConnection, AskInsert, AskFetch
<1>3. CASE AskInsert(a)
  <2>0. calls \in [Calls -> CallRow]
    BY DEF IInv, TypeOK
  <2>1. CASE UNCHANGED calls
    BY <1>1, <1>2, <2>1 DEF SaysTheSame
  <2>2. ASSUME NEW c \in Same(a), SetStatus(c, "pending"), NEW d \in Calls
        PROVE  /\ calls[d].status \notin Undecided => calls'[d] = calls[d]
               /\ calls'[d].status = calls[d].status /\ SaysTheSame(d)
    <3>1. c \in Calls /\ calls[c].status = "pending" /\ calls[c] \in CallRow
      BY <2>0 DEF Same
    <3>2. calls'[c] = [calls[c] EXCEPT !.status = "pending"]
          /\ \A e \in Calls \ {c} : calls'[e] = calls[e]
      BY <2>0, <2>2, <3>1, StatusShape, Statuses
    <3>3. /\ calls'[c].status = "pending" /\ calls'[c].owner = calls[c].owner
          /\ calls'[c].endpoint = calls[c].endpoint /\ calls'[c].payload = calls[c].payload
      BY <3>1, <3>2, RowFields, Statuses
    <3> QED  BY <3>1, <3>2, <3>3 DEF Undecided, SaysTheSame
  <2>3. ASSUME NEW c \in Calls, calls[c].status = "none", NEW d \in Calls,
               calls' = [calls EXCEPT ![c] = [status |-> "pending",
                  owner |-> ask[a].user, endpoint |-> ask[a].endpoint,
                  payload |-> Prepared(a)]]
        PROVE  /\ calls[d].status \notin Undecided => calls'[d] = calls[d]
               /\ calls[d].status # "none" =>
                    calls'[d].status = calls[d].status /\ SaysTheSame(d)
    BY <2>0, <2>3 DEF Undecided, SaysTheSame
  <2> QED  BY <1>1, <1>2, <1>3, <2>1, <2>2, <2>3 DEF AskInsert
<1>4. CASE UNCHANGED calls
  BY <1>1, <1>2, <1>4 DEF SaysTheSame
<1> QED  BY <1>3, <1>4 DEF AskStep, AskResolve, AskConnection, AskFetch, AskCheck

LEMMA AskRoutes ==
  ASSUME IInv, NEW a \in Asks, AskStep(a)
  PROVE  Routes' /\ OneRouteEach'
<1>1. \A u \in Taps : RouteOK(u)'
  BY AskRows, RouteKept, DecidingRow DEF SaysTheSame
<1> QED  BY <1>1, AskRows DEF Routes, IInv, OneRouteEach

\* Administrators end rows, and switch something on only where nothing counts as
\* barred any more.
LEMMA AdminRows ==
  ASSUME IInv, AdminStep
  PROVE  /\ UNCHANGED <<tap, granted, carried, ask, sent>>
         /\ \A d \in Calls : calls'[d].status \in {calls[d].status, "gone"} /\ SaysTheSame(d)
         /\ \/ barred' = {}
            \/ /\ barred' = barred
               /\ connection'.there /\ connection'.enabled =>
                    connection.there /\ connection.enabled
               /\ \A e \in Endpoints : Serves(e)' => Serves(e)
<1> USE DEF rows, history
<1>0. /\ connection \in ConnectionRow /\ endpoint \in [Endpoints -> EndpointRow]
      /\ calls \in [Calls -> CallRow]
  BY DEF IInv, TypeOK
<1>1. UNCHANGED <<tap, granted, carried, ask, sent>>
  BY DEF AdminStep, AdminRead, TestFetch, TestRecord, EnableConnection, EditConnection,
         DisableConnection, DeleteConnection, CreateEndpoint, EditEndpoint,
         SetEndpointEnabled, DeleteEndpoint
<1>2. \A d \in Calls : calls'[d].status \in {calls[d].status, "gone"} /\ SaysTheSame(d)
  <2>1. ASSUME NEW E, Cascade(E), NEW d \in Calls
        PROVE  calls'[d].status \in {calls[d].status, "gone"} /\ SaysTheSame(d)
    <3>1. calls[d] \in CallRow
      BY <1>0
    <3>2. calls'[d] = calls[d] \/ calls'[d] = [calls[d] EXCEPT !.status = "gone"]
      BY <1>0, <2>1, CascadeShape
    <3>3. LET r == [calls[d] EXCEPT !.status = "gone"] IN
            r.status = "gone" /\ r.owner = calls[d].owner /\ r.endpoint = calls[d].endpoint
            /\ r.payload = calls[d].payload
      BY <3>1, RowFields, Statuses
    <3> QED  BY <3>2, <3>3 DEF SaysTheSame
  <2>2. UNCHANGED calls => \A d \in Calls : SaysTheSame(d)
    BY DEF SaysTheSame
  <2> QED  BY <2>1, <2>2 DEF AdminStep, AdminRead, TestFetch, TestRecord, EnableConnection,
              EditConnection, DisableConnection, DeleteConnection, CreateEndpoint,
              EditEndpoint, SetEndpointEnabled, DeleteEndpoint
<1> DEFINE Off == connection'.there /\ connection'.enabled =>
                    connection.there /\ connection.enabled
<1>3. Off /\ UNCHANGED endpoint => \A e \in Endpoints : Serves(e)' => Serves(e)
  BY DEF Serves
<1>4. ASSUME NEW d \in Admins, TestRecord(d)
      PROVE  barred' = barred /\ Off /\ UNCHANGED endpoint
  BY <1>0, <1>4, CheckShape DEF TestRecord
<1>5. ASSUME NEW d \in Admins, NEW b \in Base, NEW replaced \in BOOLEAN,
             EditConnection(d, b, replaced)
      PROVE  barred' = barred /\ Off /\ UNCHANGED endpoint
  BY <1>0, <1>5 DEF EditConnection, ConnectionRow
<1>6. CASE DisableConnection
  <2>1. barred' = barred /\ Off /\ UNCHANGED endpoint
    BY <1>0, <1>6 DEF DisableConnection, ConnectionRow
  <2> QED  BY <1>1, <1>2, <1>3, <2>1
<1>7. CASE DeleteConnection
  <2>1. barred' = barred /\ ~connection'.there
    BY <1>0, <1>7 DEF DeleteConnection, ConnectionRow
  <2> QED  BY <1>1, <1>2, <2>1 DEF Serves
<1>8. ASSUME NEW e \in Endpoints,
             \/ \E m \in Meanings : CreateEndpoint(e, m) \/ EditEndpoint(e, m)
             \/ SetEndpointEnabled(e, FALSE) \/ DeleteEndpoint(e)
      PROVE  barred' = barred /\ UNCHANGED connection
             /\ \A x \in Endpoints : Serves(x)' => Serves(x)
  <2>1. barred' = barred /\ UNCHANGED connection
    BY <1>8 DEF CreateEndpoint, EditEndpoint, SetEndpointEnabled, DeleteEndpoint
  <2>2. /\ \A x \in Endpoints \ {e} : endpoint'[x] = endpoint[x]
        /\ endpoint'[e].row # "live" \/ ~endpoint'[e].enabled
    <3>1. \A m \in Meanings : CreateEndpoint(e, m) => ~endpoint'[e].enabled
      BY <1>0 DEF CreateEndpoint
    <3>2. \A m \in Meanings : EditEndpoint(e, m) => ~endpoint'[e].enabled
      BY <1>0 DEF EditEndpoint, EndpointRow
    <3>3. SetEndpointEnabled(e, FALSE) => ~endpoint'[e].enabled
      BY <1>0 DEF SetEndpointEnabled, EndpointRow
    <3>4. DeleteEndpoint(e) => endpoint'[e].row = "gone"
      BY <1>0 DEF DeleteEndpoint, EndpointRow
    <3>5. \A x \in Endpoints \ {e} : endpoint'[x] = endpoint[x]
      BY <1>0, <1>8 DEF CreateEndpoint, EditEndpoint, SetEndpointEnabled, DeleteEndpoint
    <3> QED  BY <1>8, <3>1, <3>2, <3>3, <3>4, <3>5
  <2> QED  BY <2>1, <2>2 DEF Serves
<1>9. ASSUME NEW e \in Endpoints, SetEndpointEnabled(e, TRUE)
      PROVE  barred' = {}
  BY <1>9 DEF SetEndpointEnabled
<1>10. ASSUME NEW d \in Admins, AdminRead(d) \/ TestFetch(d)
       PROVE  barred' = barred /\ Off /\ UNCHANGED endpoint
  BY <1>10 DEF AdminRead, TestFetch
<1>11. ASSUME NEW d \in Admins, EnableConnection(d)
       PROVE  barred' = {} \/ (barred' = barred /\ Off /\ UNCHANGED endpoint)
  BY <1>11 DEF EnableConnection
<1> HIDE DEF Off
<1>12. \/ barred' = {}
       \/ barred' = barred /\ Off /\ \A e \in Endpoints : Serves(e)' => Serves(e)
  <2>1. UNCHANGED connection => Off
    BY DEF Off
  <2>2. CASE DisableConnection \/ DeleteConnection
    BY <1>6, <1>7, <2>2 DEF Off
  <2>3. ASSUME NEW d \in Admins,
               \/ AdminRead(d) \/ TestFetch(d) \/ TestRecord(d) \/ EnableConnection(d)
               \/ \E b \in Base, replaced \in BOOLEAN : EditConnection(d, b, replaced)
        PROVE  \/ barred' = {}
               \/ barred' = barred /\ Off /\ \A e \in Endpoints : Serves(e)' => Serves(e)
    BY <1>3, <1>4, <1>5, <1>10, <1>11, <2>3
  <2>4. ASSUME NEW e \in Endpoints,
               \/ \E m \in Meanings : CreateEndpoint(e, m) \/ EditEndpoint(e, m)
               \/ \E on \in BOOLEAN : SetEndpointEnabled(e, on)
               \/ DeleteEndpoint(e)
        PROVE  \/ barred' = {}
               \/ barred' = barred /\ Off /\ \A x \in Endpoints : Serves(x)' => Serves(x)
    BY <1>8, <1>9, <2>1, <2>4
  <2> QED  BY <2>2, <2>3, <2>4 DEF AdminStep
<1> QED  BY <1>1, <1>2, <1>12 DEF Off

LEMMA AdminRoutes ==
  ASSUME IInv, AdminStep
  PROVE  Routes' /\ OneRouteEach'
<1>1. ASSUME NEW u \in Taps
      PROVE  RouteOK(u)'
  <2>1. tap[u].pc \in Deciding =>
           /\ calls'[tap[u].call].status \in {calls[tap[u].call].status, "gone"}
           /\ granted'[tap[u].call] # None
           /\ carried'[tap[u].call] = carried[tap[u].call]
           /\ tap[u].call \in barred' =>
                /\ tap[u].call \in barred
                /\ connection'.there /\ connection'.enabled =>
                     connection.there /\ connection.enabled
    BY AdminRows, DecidingRow
  <2>2. \A d \in Calls : calls[d].status # "none" =>
           calls'[d].status # "none" /\ calls'[d].owner = calls[d].owner
    BY AdminRows DEF SaysTheSame
  <2> QED  BY <2>1, <2>2, AdminRows, RouteKept
<1> QED  BY <1>1, AdminRows DEF Routes, OneRouteEach, IInv

\* Only the routes' own steps move them, one at a time.
LEMMA TapOthers ==
  ASSUME IInv, NEW t \in Taps, TapStep(t)
  PROVE  \A u \in Taps \ {t} : tap'[u] = tap[u]
<1> USE DEF Goto, Leave
<1>1. tap \in [Taps -> TapState]
  BY DEF IInv, TypeOK
<1>2. CASE \E u \in Owners, c \in Calls : TapRead(t, u, c)
  BY <1>1, <1>2 DEF TapRead
<1>3. CASE \/ TapDeny(t) \/ TapExpire(t) \/ TapClaim(t) \/ TapEndpoint(t)
           \/ TapConnection(t) \/ TapRefuse(t)
  BY <1>1, <1>3 DEF TapDeny, TapExpire, TapClaim, TapEndpoint, TapConnection, TapRefuse
<1>4. CASE TapSend(t)
  BY <1>1, <1>4 DEF TapSend
<1>5. CASE \/ TapCheck(t) \/ TapResult(t) \/ TapEvent(t) \/ TapCaught(t)
           \/ TapCaughtResult(t) \/ TapThrows(t) \/ TapDies(t)
  BY <1>1, <1>5 DEF TapCheck, TapResult, TapEvent, TapCaught, TapCaughtResult, TapThrows,
                    TapDies
<1> QED  BY <1>2, <1>3, <1>4, <1>5 DEF TapStep, TapWork

\* What a route does to rows: only to its own, and only if that may be decided by
\* it; the others' agreement, sending and switches stay.
LEMMA TapRows ==
  ASSUME IInv, NEW t \in Taps, TapStep(t)
  PROVE  /\ \A d \in Calls : /\ SaysTheSame(d)
                             /\ calls[d].status # "none" => calls'[d].status # "none"
                             /\ granted[d] # None => granted'[d] = granted[d]
         /\ \A d \in Calls \ {tap[t].call} :
              /\ calls'[d] = calls[d] /\ granted'[d] = granted[d]
              /\ carried'[d] = carried[d] /\ (d \in barred' <=> d \in barred)
         /\ connection'.there /\ connection'.enabled => connection.there /\ connection.enabled
         /\ tap[t].pc = "idle" => UNCHANGED <<calls, granted, carried, barred>>
<1> USE DEF history, rows
<1>0. /\ tap[t].pc # "idle" => tap[t].call \in Calls /\ calls[tap[t].call].status # "none"
      /\ calls \in [Calls -> CallRow] /\ connection \in ConnectionRow
      /\ carried \in [Calls -> 0 .. 1] /\ granted \in [Calls -> Owners \cup {None}]
  BY DEF IInv, Routes, RouteOK, TypeOK
<1>1. CASE \E u \in Owners, c \in Calls : TapRead(t, u, c)
  BY <1>1 DEF TapRead, SaysTheSame
<1>2. ASSUME NEW s \in CallStatus \ {"none"}, tap[t].call \in Calls,
             SetResult(tap[t].call, s) \/ SetStatus(tap[t].call, s) \/ UNCHANGED calls
      PROVE  /\ \A d \in Calls : /\ SaysTheSame(d)
                                 /\ calls[d].status # "none" => calls'[d].status # "none"
             /\ \A d \in Calls \ {tap[t].call} : calls'[d] = calls[d]
  <2>1. calls[tap[t].call] \in CallRow
    BY <1>0, <1>2
  <2>2. CASE SetStatus(tap[t].call, s)
    <3>1. s \in CallStatus /\ s # "none"
      BY <1>2
    <3>2. calls'[tap[t].call] = [calls[tap[t].call] EXCEPT !.status = s]
          /\ \A d \in Calls \ {tap[t].call} : calls'[d] = calls[d]
      BY <1>0, <1>2, <2>2, <3>1, StatusShape
    <3>3. calls'[tap[t].call].status = s
          /\ calls'[tap[t].call].owner = calls[tap[t].call].owner
          /\ calls'[tap[t].call].endpoint = calls[tap[t].call].endpoint
          /\ calls'[tap[t].call].payload = calls[tap[t].call].payload
      BY <2>1, <3>1, <3>2, RowFields
    <3> QED  BY <3>1, <3>2, <3>3 DEF SaysTheSame
  <2>3. CASE UNCHANGED calls
    BY <2>3 DEF SaysTheSame
  <2> QED  BY <1>2, <2>2, <2>3 DEF SetResult
<1>3. CASE TapDeny(t) \/ TapExpire(t) \/ TapRefuse(t) \/ TapResult(t) \/ TapCaughtResult(t)
  <2>1. \E s \in CallStatus \ {"none"} : SetResult(tap[t].call, s)
          \/ SetStatus(tap[t].call, s) \/ UNCHANGED calls
    BY <1>3, Statuses DEF TapDeny, TapExpire, TapRefuse, TapResult, TapCaughtResult
  <2>2. tap[t].call \in Calls /\ tap[t].pc # "idle"
    BY <1>0, <1>3 DEF TapDeny, TapExpire, TapRefuse, TapResult, TapCaughtResult
  <2>3. UNCHANGED <<connection, granted, carried, barred>>
    BY <1>3 DEF TapDeny, TapExpire, TapRefuse, TapResult, TapCaughtResult
  <2> QED  BY <1>2, <2>1, <2>2, <2>3
<1>4. CASE TapClaim(t)
  <2>1. tap[t].call \in Calls /\ tap[t].pc # "idle"
    BY <1>0, <1>4 DEF TapClaim
  <2>2. SetStatus(tap[t].call, "approved") \/ UNCHANGED calls
    BY <1>4 DEF TapClaim
  <2>3. UNCHANGED <<connection, carried>>
        /\ barred \subseteq barred' /\ barred' \subseteq barred \cup {tap[t].call}
    BY <1>4 DEF TapClaim
  <2>4. \A d \in Calls : /\ granted[d] # None => granted'[d] = granted[d]
                         /\ d # tap[t].call => granted'[d] = granted[d]
    <3>1. CASE Claimable(t)
      <4>1. granted' = [granted EXCEPT ![tap[t].call] = tap[t].user]
        BY <1>4, <3>1 DEF TapClaim
      <4>2. granted[tap[t].call] = None
        BY <1>4, <2>1, <3>1 DEF Claimable, Call, IInv, Requests, RequestOK, Undecided
      <4> QED  BY <1>0, <4>1, <4>2
    <3> QED  BY <1>4, <3>1 DEF TapClaim
  <2> QED  BY <1>2, <2>1, <2>2, <2>3, <2>4, Statuses
<1>5. CASE TapSend(t)
  <2>1. UNCHANGED <<connection, calls, granted, barred>> /\ tap[t].pc # "idle"
    BY <1>5 DEF TapSend
  <2>2. carried' = [carried EXCEPT ![tap[t].call] = @ + 1] \/ UNCHANGED carried
    BY <1>5 DEF TapSend
  <2>3. \A d \in Calls \ {tap[t].call} : carried'[d] = carried[d]
    BY <1>0, <2>2
  <2> QED  BY <2>1, <2>3 DEF SaysTheSame
<1>6. CASE TapCheck(t) \/ TapCaught(t)
  <2>1. UNCHANGED <<calls, granted, carried, barred>>
    BY <1>6 DEF TapCheck, TapCaught
  <2>2. connection'.there /\ connection'.enabled => connection.there /\ connection.enabled
    BY <1>0, <1>6, CheckShape DEF TapCheck, TapCaught
  <2> QED  BY <2>1, <2>2 DEF SaysTheSame
<1>7. CASE TapEndpoint(t) \/ TapConnection(t) \/ TapEvent(t) \/ TapThrows(t) \/ TapDies(t)
  BY <1>7 DEF TapEndpoint, TapConnection, TapEvent, TapThrows, TapDies, SaysTheSame
<1> QED  BY <1>1, <1>3, <1>4, <1>5, <1>6, <1>7 DEF TapStep, TapWork

\* Where the route that moved is, after each of its steps; it is past the claim
\* only if it was, or claimed a row that was waiting.
LEMMA TapItself ==
  ASSUME IInv, NEW t \in Taps, TapStep(t)
  PROVE  /\ RouteOK(t)'
         /\ tap'[t].pc \in Deciding =>
              /\ tap'[t].call = tap[t].call
              /\ \/ tap[t].pc \in Deciding
                 \/ tap[t].call \in Calls /\ calls[tap[t].call].status = "pending"
<1>0. /\ tap \in [Taps -> TapState] /\ tap[t] \in TapState /\ RouteOK(t)
      /\ calls \in [Calls -> CallRow] /\ connection \in ConnectionRow
      /\ carried \in [Calls -> 0 .. 1] /\ granted \in [Calls -> Owners \cup {None}]
  BY DEF IInv, TypeOK, Routes
<1>1. /\ tap[t].pc # "idle" => tap[t].call \in Calls /\ RequestOK(tap[t].call)
      /\ tap[t].pc # "idle" => tap[t].user = calls[tap[t].call].owner
  BY <1>0 DEF IInv, RouteOK, Requests
<1>2. ASSUME tap'[t].pc = "idle"
      PROVE  RouteOK(t)' /\ tap'[t].pc \notin Deciding
  BY <1>2 DEF RouteOK, Deciding
<1>3. ASSUME Leave(t)
      PROVE  RouteOK(t)' /\ tap'[t].pc \notin Deciding
  BY <1>0, <1>2, <1>3, LeaveFields
<1>4. ASSUME tap[t].pc # "idle", tap'[t].call = tap[t].call, tap'[t].user = tap[t].user
      PROVE  /\ tap'[t].call \in Calls /\ calls'[tap'[t].call].status # "none"
             /\ tap'[t].user = calls'[tap'[t].call].owner
             /\ tap[t].pc \in Deciding => granted'[tap'[t].call] # None
  BY <1>0, <1>1, <1>4, TapRows DEF RouteOK, SaysTheSame
<1>5. ASSUME NEW u \in Owners, NEW c \in Calls, TapRead(t, u, c)
      PROVE  RouteOK(t)' /\ tap'[t].pc \notin Deciding
  <2>1. /\ tap'[t].call = c /\ tap'[t].user = u /\ tap'[t].pc \in {"deny", "expire", "claim"}
        /\ UNCHANGED calls /\ calls[c].status = "pending" /\ calls[c].owner = u
    BY <1>0, <1>5 DEF TapRead, IdleTap
  <2> QED  BY <2>1 DEF RouteOK, Deciding
<1>6. CASE \/ TapDeny(t) \/ TapExpire(t) \/ TapRefuse(t) \/ TapEvent(t)
           \/ TapCaughtResult(t) \/ TapDies(t)
  BY <1>3, <1>6 DEF TapDeny, TapExpire, TapRefuse, TapEvent, TapCaughtResult, TapDies
<1>7. CASE TapClaim(t)
  <2>1. CASE ~Claimable(t)
    BY <1>3, <1>7, <2>1 DEF TapClaim
  <2>2. CASE Claimable(t)
    <3>1. /\ calls[tap[t].call].status = "pending" /\ tap[t].pc = "claim"
          /\ SetStatus(tap[t].call, "approved") /\ UNCHANGED carried /\ Goto(t, "endpoint")
          /\ granted' = [granted EXCEPT ![tap[t].call] = tap[t].user]
      BY <1>7, <2>2 DEF TapClaim, Claimable, Call
    <3>2. tap'[t].pc = "endpoint" /\ tap'[t].call = tap[t].call /\ tap'[t].user = tap[t].user
      BY <1>0, <3>1, GotoFields
    <3>3. calls'[tap[t].call] = [calls[tap[t].call] EXCEPT !.status = "approved"]
          /\ calls[tap[t].call] \in CallRow
      BY <1>0, <1>1, <3>1, StatusShape, Statuses
    <3>4. calls'[tap[t].call].status = "approved"
      BY <3>3, RowFields, Statuses
    <3>5. carried[tap[t].call] = 0 /\ calls[tap[t].call].owner \in Owners
      BY <1>1, <3>1 DEF RequestOK, Undecided
    <3>6. granted'[tap[t].call] # None
      BY <1>0, <1>1, <3>1, <3>5, NoneAssumption
    <3> QED  BY <1>1, <1>4, <3>1, <3>2, <3>4, <3>5, <3>6 DEF RouteOK, Deciding
  <2> QED  BY <2>1, <2>2
<1>8. CASE TapEndpoint(t)
  <2>1. tap[t].pc = "endpoint" /\ tap[t].pc \in Deciding
        /\ UNCHANGED <<calls, carried, granted, barred, connection>>
        /\ tap[t].call \in Calls /\ calls[tap[t].call].endpoint \in Endpoints
        /\ carried[tap[t].call] = 0 /\ calls[tap[t].call].status \in {"approved", "gone"}
    BY <1>0, <1>1, <1>8 DEF TapEndpoint, Deciding, RouteOK, RequestOK, history, rows
  <2>2. CASE Goto(t, "refuse")
    <3>1. tap'[t].pc = "refuse" /\ tap'[t].call = tap[t].call /\ tap'[t].user = tap[t].user
      BY <1>0, <2>2, GotoFields
    <3> QED  BY <1>4, <2>1, <3>1 DEF RouteOK, Deciding
  <2>3. ASSUME NEW e \in Endpoints, e = calls[tap[t].call].endpoint,
               endpoint[e].row = "live",
               tap' = [tap EXCEPT ![t] = [@ EXCEPT !.pc = "connection",
                      !.meaning = endpoint[e].meaning, !.on = endpoint[e].enabled]]
        PROVE  RouteOK(t)' /\ tap'[t].call = tap[t].call
    <3>1. tap'[t] = [tap[t] EXCEPT !.pc = "connection",
                      !.meaning = endpoint[e].meaning, !.on = endpoint[e].enabled]
      BY <1>0, <2>3
    <3>2. /\ tap'[t].pc = "connection" /\ tap'[t].call = tap[t].call
          /\ tap'[t].user = tap[t].user
          /\ tap'[t].meaning = endpoint[e].meaning /\ tap'[t].on = endpoint[e].enabled
      BY <1>0, <3>1 DEF TapState
    <3>3. endpoint[e].meaning \in Meanings
      BY <2>3 DEF IInv, Listed
    <3>4. tap'[t].on /\ tap[t].call \in barred => ~(connection.there /\ connection.enabled)
      BY <2>3, <3>2 DEF IInv, BarredIsOff, Serves
    <3> QED  BY <1>4, <2>1, <3>2, <3>3, <3>4 DEF RouteOK, Deciding
  <2> QED  BY <1>8, <2>1, <2>2, <2>3 DEF TapEndpoint, Call
<1>9. CASE TapConnection(t)
  <2>1. /\ tap[t].pc = "connection" /\ tap[t].pc \in Deciding
        /\ UNCHANGED <<calls, carried, granted, barred, connection>>
        /\ carried[tap[t].call] = 0 /\ calls[tap[t].call].status \in {"approved", "gone"}
        /\ tap[t].meaning \in Meanings
    BY <1>0, <1>9 DEF TapConnection, Deciding, RouteOK, history, rows
  <2>2. CASE Goto(t, "refuse")
    <3>1. tap'[t].pc = "refuse" /\ tap'[t].call = tap[t].call /\ tap'[t].user = tap[t].user
      BY <1>0, <2>2, GotoFields
    <3> QED  BY <1>4, <2>1, <3>1 DEF RouteOK, Deciding
  <2>3. CASE SwitchedOn(t)
    <3>1. tap'[t] = [tap[t] EXCEPT !.pc = "send", !.base = connection.base]
      BY <1>0, <1>9, <2>3 DEF TapConnection
    <3>2. /\ tap'[t].pc = "send" /\ tap'[t].call = tap[t].call /\ tap'[t].user = tap[t].user
          /\ tap'[t].meaning = tap[t].meaning /\ tap'[t].base = connection.base
      BY <1>0, <3>1 DEF TapState
    <3>3. tap[t].call \notin barred /\ connection.base \in Base
      BY <1>0, <2>1, <2>3 DEF SwitchedOn, RouteOK, ConnectionRow
    <3> QED  BY <1>4, <2>1, <3>2, <3>3 DEF RouteOK, Deciding
  <2> QED  BY <1>9, <2>1, <2>2, <2>3 DEF TapConnection
<1>10. ASSUME tap[t].pc \in Deciding, NEW pc \in {"caught", "caughtResult"}, Goto(t, pc)
       PROVE  RouteOK(t)' /\ tap'[t].call = tap[t].call
  <2>1. tap'[t].pc = pc /\ tap'[t].call = tap[t].call /\ tap'[t].user = tap[t].user
    BY <1>0, <1>10, GotoFields
  <2>2. tap[t].pc # "idle"
    BY <1>10 DEF Deciding
  <2> QED  BY <1>4, <1>10, <2>1, <2>2 DEF RouteOK, Deciding
<1>11. CASE TapSend(t)
  <2>1. /\ tap[t].pc = "send" /\ tap[t].pc \in Deciding /\ UNCHANGED <<calls, granted>>
        /\ carried[tap[t].call] = 0 /\ calls[tap[t].call].status \in {"approved", "gone"}
    BY <1>0, <1>11 DEF TapSend, Deciding, RouteOK
  <2>2. ASSUME NEW o \in Outcomes, carried' = [carried EXCEPT ![tap[t].call] = @ + 1],
               tap' = [tap EXCEPT ![t] = [@ EXCEPT !.pc = "check", !.outcome = o]]
        PROVE  RouteOK(t)' /\ tap'[t].call = tap[t].call
    <3>1. tap'[t] = [tap[t] EXCEPT !.pc = "check", !.outcome = o]
      BY <1>0, <2>2
    <3>2. tap'[t].pc = "check" /\ tap'[t].call = tap[t].call /\ tap'[t].user = tap[t].user
      BY <1>0, <3>1 DEF TapState
    <3>3. carried'[tap[t].call] = 1
      BY <1>0, <1>1, <2>1, <2>2
    <3> QED  BY <1>4, <2>1, <3>2, <3>3 DEF RouteOK, Deciding
  <2>3. CASE Goto(t, "caught")
    BY <1>10, <2>1, <2>3
  <2> QED  BY <1>11, <2>1, <2>2, <2>3 DEF TapSend
<1>12. CASE TapCheck(t)
  <2>1. /\ tap[t].pc = "check" /\ tap[t].pc \in Deciding /\ UNCHANGED <<calls, granted, carried>>
        /\ carried[tap[t].call] = 1 /\ calls[tap[t].call].status \in {"approved", "gone"}
    BY <1>0, <1>12 DEF TapCheck, Deciding, RouteOK, history
  <2>2. tap'[t].pc = "result" /\ tap'[t].call = tap[t].call /\ tap'[t].user = tap[t].user
    BY <1>0, <1>12, GotoFields DEF TapCheck
  <2> QED  BY <1>4, <2>1, <2>2 DEF RouteOK, Deciding
<1>13. CASE TapResult(t)
  <2>1. /\ tap[t].pc = "result" /\ tap[t].pc \in Deciding /\ UNCHANGED carried
        /\ carried[tap[t].call] = 1
    BY <1>0, <1>13 DEF TapResult, Deciding, RouteOK, history
  <2>2. tap'[t].pc = "event" /\ tap'[t].call = tap[t].call /\ tap'[t].user = tap[t].user
    BY <1>0, <1>13, GotoFields DEF TapResult
  <2> QED  BY <1>4, <2>1, <2>2 DEF RouteOK, Deciding
<1>14. CASE TapCaught(t) \/ TapThrows(t)
  <2>1. tap[t].pc \in Deciding
    BY <1>14 DEF TapCaught, TapThrows, Deciding
  <2> QED  BY <1>10, <1>14, <2>1 DEF TapCaught, TapThrows
<1> QED  BY <1>5, <1>6, <1>7, <1>8, <1>9, <1>11, <1>12, <1>13, <1>14 DEF TapStep, TapWork

LEMMA TapRoutes ==
  ASSUME IInv, NEW t \in Taps, TapStep(t)
  PROVE  Routes' /\ OneRouteEach'
<1>1. \A u \in Taps \ {t} : tap'[u] = tap[u]
  BY TapOthers
<1>2. /\ RouteOK(t)'
      /\ tap'[t].pc \in Deciding =>
           /\ tap'[t].call = tap[t].call
           /\ \/ tap[t].pc \in Deciding
              \/ tap[t].call \in Calls /\ calls[tap[t].call].status = "pending"
  BY TapItself
<1>3. ASSUME NEW u \in Taps \ {t}, tap[u].pc \in Deciding, tap[u].call = tap[t].call
      PROVE  /\ tap[t].pc \notin Deciding
             /\ calls[tap[t].call].status \notin Undecided \cup Refusals
  BY <1>3, DecidingRow DEF IInv, OneRouteEach
<1>4. OneRouteEach'
  BY <1>1, <1>2, <1>3 DEF OneRouteEach, IInv, Undecided
<1>5. ASSUME NEW u \in Taps \ {t}
      PROVE  RouteOK(u)'
  <2>1. CASE tap[u].pc \in Deciding /\ tap[u].call = tap[t].call
    <3>1. UNCHANGED <<calls, granted, carried, barred>>
      BY <1>3, <1>5, <2>1 DEF TapStep, TapWork, TapRead, TapDeny, TapExpire, TapClaim,
         TapEndpoint, TapConnection, TapRefuse, TapSend, TapCheck, TapResult, TapEvent,
         TapCaught, TapCaughtResult, TapThrows, TapDies, Claimable, Call, Deciding, Undecided,
         history
    <3> QED  BY <1>1, <2>1, <3>1, RouteKept, TapRows, DecidingRow DEF SaysTheSame
  <2>2. CASE ~(tap[u].pc \in Deciding /\ tap[u].call = tap[t].call)
    <3>1. tap[u].pc \in Deciding => tap[u].call \in Calls \ {tap[t].call}
                                    /\ granted[tap[u].call] # None
      BY <2>2, DecidingRow
    <3> QED  BY <1>1, <3>1, RouteKept, TapRows DEF SaysTheSame
  <2> QED  BY <2>1, <2>2
<1> QED  BY <1>2, <1>4, <1>5 DEF Routes

\* The clock and the worker touch only rows that wait.
LEMMA ClockRows ==
  ASSUME IInv, (\E c \in Calls : Lapse(c)) \/ ExpireCalls
  PROVE  /\ UNCHANGED <<connection, endpoint, tap, ask, admin, granted, carried, barred, sent>>
         /\ \A d \in Calls :
              \/ UNCHANGED calls[d]
              \/ /\ calls[d].status = "pending" /\ calls'[d].status = "expired"
                 /\ SaysTheSame(d)
<1> USE DEF rows, history
<1>1. CASE \E c \in Calls : Lapse(c)
  BY <1>1 DEF Lapse
<1>2. CASE ExpireCalls
  <2>1. ASSUME NEW d \in Due
        PROVE  calls[d].status = "pending" /\ calls'[d].status = "expired" /\ SaysTheSame(d)
    <3>1. d \in Calls /\ calls[d] \in CallRow /\ calls[d].status = "pending"
      BY DEF Due, IInv, TypeOK
    <3>2. calls'[d] = [calls[d] EXCEPT !.status = "expired"]
      BY <1>2, <3>1 DEF ExpireCalls
    <3>3. LET r == [calls[d] EXCEPT !.status = "expired"] IN
            r.status = "expired" /\ r.owner = calls[d].owner
            /\ r.endpoint = calls[d].endpoint /\ r.payload = calls[d].payload
      BY <3>1, RowFields, Statuses
    <3> QED  BY <3>1, <3>2, <3>3 DEF SaysTheSame
  <2>2. \A d \in Calls \ Due : UNCHANGED calls[d]
    BY <1>2 DEF ExpireCalls
  <2>3. UNCHANGED <<connection, endpoint, tap, ask, admin, granted, carried, barred, sent>>
    BY <1>2 DEF ExpireCalls
  <2> QED  BY <2>1, <2>2, <2>3
<1> QED  BY <1>1, <1>2

LEMMA RoutesKept ==
  ASSUME IInv, Next
  PROVE  Routes' /\ OneRouteEach'
<1>1. CASE (\E c \in Calls : Lapse(c)) \/ ExpireCalls
  <2>1. ASSUME NEW u \in Taps
        PROVE  RouteOK(u)'
    <3>1. \A d \in Calls : calls[d].status # "none" =>
            calls'[d].status # "none" /\ calls'[d].owner = calls[d].owner
      BY <1>1, ClockRows DEF SaysTheSame
    <3>2. tap[u].pc \in Deciding => UNCHANGED calls[tap[u].call]
      BY <1>1, ClockRows, DecidingRow DEF Undecided
    <3> QED  BY <1>1, <3>1, <3>2, ClockRows, DecidingRow, RouteKept
  <2> QED  BY <1>1, <2>1, ClockRows DEF Routes, OneRouteEach, IInv
<1> QED  BY <1>1, AskRoutes, AdminRoutes, TapRoutes DEF Next

----------------------------------------------------------------------------
(* Runs of the tool, what is listed, and what is barred.                   *)

LEMMA TapQuiet ==
  ASSUME NEW t \in Taps, TapStep(t)
  PROVE  UNCHANGED <<ask, admin, endpoint>>
  BY DEF TapStep, TapWork, TapRead, TapDeny, TapExpire, TapClaim, TapEndpoint, TapConnection,
         TapRefuse, TapSend, TapCheck, TapResult, TapEvent, TapCaught, TapCaughtResult,
         TapThrows, TapDies, rows

LEMMA RunsKept ==
  ASSUME IInv, Next
  PROVE  Runs'
<1>1. CASE UNCHANGED ask
  BY <1>1 DEF IInv, Runs, RunOK
<1>2. ASSUME NEW a \in Asks, AskStep(a)
      PROVE  Runs'
  <2>0. ask \in [Asks -> AskState] /\ ask[a] \in AskState /\ RunOK(a)
        /\ connection \in ConnectionRow
    BY DEF IInv, TypeOK, Runs
  <2>1. ASSUME RunOK(a)', \A b \in Asks \ {a} : ask'[b] = ask[b]
        PROVE  Runs'
    BY <2>1 DEF IInv, Runs, RunOK
  <2>2. ASSUME ask' = [ask EXCEPT ![a] = IdleAsk]
        PROVE  Runs'
    BY <2>0, <2>1, <2>2 DEF RunOK, IdleAsk
  <2>3. ASSUME NEW u \in Owners, NEW e \in Endpoints, AskResolve(a, u, e)
        PROVE  Runs'
    <3>1. endpoint[e].meaning \in Meanings
      BY <2>3 DEF AskResolve, Serves, IInv, Listed
    <3>2. /\ ask'[a].pc = "connection" /\ ask'[a].user = u /\ ask'[a].endpoint = e
          /\ ask'[a].meaning = endpoint[e].meaning
          /\ \A b \in Asks \ {a} : ask'[b] = ask[b]
      BY <2>0, <2>3 DEF AskResolve, IdleAsk
    <3> QED  BY <2>1, <3>1, <3>2 DEF RunOK
  <2>4. ASSUME AskConnection(a), NEW x \in Arguments,
               ask' = [ask EXCEPT ![a] = [@ EXCEPT !.arg = x, !.base = connection.base,
                         !.pc = IF ask[a].meaning \in Reads THEN "fetch" ELSE "insert"]]
        PROVE  Runs'
    <3>1. ask'[a] = [ask[a] EXCEPT !.arg = x, !.base = connection.base,
                       !.pc = IF ask[a].meaning \in Reads THEN "fetch" ELSE "insert"]
          /\ \A b \in Asks \ {a} : ask'[b] = ask[b]
      BY <2>0, <2>4
    <3>2. /\ ask'[a].arg = x /\ ask'[a].base = connection.base
          /\ ask'[a].user = ask[a].user /\ ask'[a].endpoint = ask[a].endpoint
          /\ ask'[a].meaning = ask[a].meaning
          /\ ask'[a].pc = IF ask[a].meaning \in Reads THEN "fetch" ELSE "insert"
      BY <2>0, <3>1 DEF AskState
    <3>3. ask[a].user \in Owners /\ ask[a].endpoint \in Endpoints /\ ask[a].meaning \in Meanings
          /\ connection.base \in Base
      BY <2>0, <2>4 DEF AskConnection, RunOK, ConnectionRow
    <3> QED  BY <2>1, <3>1, <3>2, <3>3 DEF RunOK
  <2>5. ASSUME AskFetch(a), NEW o \in Outcomes,
               ask' = [ask EXCEPT ![a] = [@ EXCEPT !.pc = "check", !.outcome = o]]
        PROVE  Runs'
    <3>1. ask'[a] = [ask[a] EXCEPT !.pc = "check", !.outcome = o]
          /\ \A b \in Asks \ {a} : ask'[b] = ask[b]
      BY <2>0, <2>5
    <3>2. /\ ask'[a].pc = "check" /\ ask'[a].user = ask[a].user
          /\ ask'[a].endpoint = ask[a].endpoint /\ ask'[a].meaning = ask[a].meaning
      BY <2>0, <3>1 DEF AskState
    <3> QED  BY <2>0, <2>1, <2>5, <3>1, <3>2 DEF AskFetch, RunOK
  <2> QED  BY <1>2, <2>2, <2>3, <2>4, <2>5 DEF AskStep, AskConnection, AskInsert, AskFetch,
              AskCheck
<1> QED  BY <1>1, <1>2, TapQuiet, AdminRows, ClockRows DEF Next

LEMMA ListedKept ==
  ASSUME IInv, Next
  PROVE  Listed'
<1>0. /\ endpoint \in [Endpoints -> EndpointRow] /\ admin \in [Admins -> AdminState]
      /\ connection \in ConnectionRow /\ Listed
  BY DEF IInv, TypeOK
<1>1. CASE UNCHANGED <<endpoint, admin>>
  BY <1>0, <1>1 DEF Listed
<1>2. ASSUME NEW d \in Admins, admin'[d].pc # "read" \/ admin'[d].base \in Base,
             \A x \in Admins \ {d} : admin'[x] = admin[x], UNCHANGED endpoint
      PROVE  Listed'
  BY <1>0, <1>2 DEF Listed
<1>3. ASSUME NEW d \in Admins, AdminRead(d)
      PROVE  Listed'
  <2>1. admin'[d].base = connection.base /\ connection.base \in Base
    BY <1>0, <1>3 DEF AdminRead, IdleAdmin, ConnectionRow
  <2> QED  BY <1>0, <1>2, <1>3, <2>1 DEF AdminRead
<1>4. ASSUME NEW d \in Admins, TestFetch(d)
      PROVE  Listed'
  <2>1. admin'[d].pc = "check"
    BY <1>0, <1>4 DEF TestFetch, AdminState
  <2> QED  BY <1>0, <1>2, <1>4, <2>1 DEF TestFetch, rows
<1>5. ASSUME NEW d \in Admins, admin' = [admin EXCEPT ![d] = IdleAdmin], UNCHANGED endpoint
      PROVE  Listed'
  BY <1>0, <1>2, <1>5 DEF IdleAdmin
<1>6. ASSUME NEW e \in Endpoints, endpoint'[e].row = "live" => endpoint'[e].meaning \in Meanings,
             \A x \in Endpoints \ {e} : endpoint'[x] = endpoint[x], UNCHANGED admin
      PROVE  Listed'
  BY <1>0, <1>6 DEF Listed
<1>7. ASSUME NEW e \in Endpoints, NEW m \in Meanings, CreateEndpoint(e, m) \/ EditEndpoint(e, m)
      PROVE  Listed'
  <2>1. endpoint'[e].meaning = m
    <3>1. CreateEndpoint(e, m) => endpoint'[e].meaning = m
      BY <1>0 DEF CreateEndpoint
    <3>2. EditEndpoint(e, m) => endpoint'[e].meaning = m
      BY <1>0 DEF EditEndpoint, EndpointRow
    <3> QED  BY <1>7, <3>1, <3>2
  <2> QED  BY <1>0, <1>6, <1>7, <2>1 DEF CreateEndpoint, EditEndpoint
<1>8. ASSUME NEW e \in Endpoints, NEW on \in BOOLEAN, SetEndpointEnabled(e, on)
      PROVE  Listed'
  <2>1. endpoint'[e].meaning = endpoint[e].meaning /\ endpoint[e].meaning \in Meanings
    BY <1>0, <1>8 DEF SetEndpointEnabled, EndpointRow, Listed
  <2> QED  BY <1>0, <1>6, <1>8, <2>1 DEF SetEndpointEnabled
<1>9. ASSUME NEW e \in Endpoints, DeleteEndpoint(e)
      PROVE  Listed'
  <2>1. endpoint'[e].row = "gone"
    BY <1>0, <1>9 DEF DeleteEndpoint, EndpointRow
  <2> QED  BY <1>0, <1>6, <1>9, <2>1 DEF DeleteEndpoint
<1>10. CASE DisableConnection \/ DeleteConnection
  <2>1. UNCHANGED admin
        /\ \A e \in Endpoints : endpoint'[e] = endpoint[e] \/ endpoint'[e].row = "gone"
    BY <1>0, <1>10 DEF DisableConnection, DeleteConnection, EndpointRow
  <2> QED  BY <1>0, <2>1 DEF Listed
<1>11. CASE AdminStep
  BY <1>3, <1>4, <1>5, <1>7, <1>8, <1>9, <1>10, <1>11 DEF AdminStep, TestRecord,
     EnableConnection, EditConnection
<1> QED  BY <1>1, <1>11, AskRows, TapQuiet, ClockRows DEF Next

\* Nothing is barred after a step but what was, or what was just claimed while
\* it was off.
LEMMA BarredKept ==
  ASSUME IInv, Next
  PROVE  BarredIsOff'
<1>0. barred \subseteq Calls /\ \A c \in barred : calls[c].status # "none"
                                /\ calls[c].endpoint \in Endpoints
  BY DEF IInv, TypeOK, BarredIsOff, Requests, RequestOK, Undecided
<1>1. ASSUME barred' \subseteq barred, \A c \in barred : granted'[c] = granted[c],
             \A c \in barred : SaysTheSame(c),
             barred' = {} \/ \A e \in Endpoints : Serves(e)' => Serves(e)
      PROVE  BarredIsOff'
  BY <1>0, <1>1 DEF BarredIsOff, IInv, SaysTheSame, Serves
<1>2. CASE AdminStep
  BY <1>0, <1>1, <1>2, AdminRows
<1>3. ASSUME NEW a \in Asks, AskStep(a)
      PROVE  BarredIsOff'
  <2>1. \A e \in Endpoints : Serves(e)' => Serves(e)
    BY <1>3, AskRows DEF Serves
  <2> QED  BY <1>0, <1>1, <1>3, <2>1, AskRows
<1>4. CASE (\E c \in Calls : Lapse(c)) \/ ExpireCalls
  <2>1. \A e \in Endpoints : Serves(e)' => Serves(e)
    BY <1>4, ClockRows DEF Serves
  <2>2. \A c \in barred : SaysTheSame(c)
    BY <1>0, <1>4, ClockRows DEF SaysTheSame
  <2> QED  BY <1>1, <1>4, <2>1, <2>2, ClockRows
<1>5. ASSUME NEW t \in Taps, TapStep(t)
      PROVE  BarredIsOff'
  <2>1. \A e \in Endpoints : Serves(e)' => Serves(e)
    BY <1>5, TapRows, TapQuiet DEF Serves
  <2>2. \A c \in barred : SaysTheSame(c) /\ granted'[c] = granted[c]
    BY <1>0, <1>5, TapRows DEF IInv, BarredIsOff
  <2>3. CASE barred' \subseteq barred
    BY <1>1, <2>1, <2>2, <2>3
  <2>4. CASE TapClaim(t) /\ Claimable(t) /\ ~Serves(Call(t).endpoint)
    <3>1. tap[t].call \in Calls /\ calls[tap[t].call].endpoint \in Endpoints
          /\ calls[tap[t].call].owner \in Owners /\ tap[t].user = calls[tap[t].call].owner
      BY <2>4 DEF TapClaim, Claimable, Call, IInv, Routes, RouteOK, Requests, RequestOK
    <3>2. granted \in [Calls -> Owners \cup {None}]
          /\ granted' = [granted EXCEPT ![tap[t].call] = tap[t].user]
      BY <2>4 DEF TapClaim, IInv, TypeOK
    <3>3. granted'[tap[t].call] # None
      BY <3>1, <3>2, NoneAssumption
    <3>4. SaysTheSame(tap[t].call) /\ barred' = barred \cup {tap[t].call}
      BY <1>5, <2>4, <3>1, TapRows DEF TapClaim
    <3>5. ~Serves(calls[tap[t].call].endpoint)
      BY <2>4 DEF Call
    <3>6. \A c \in barred' : granted'[c] # None /\ calls[c].endpoint \in Endpoints
                             /\ ~Serves(calls[c].endpoint) /\ SaysTheSame(c)
      BY <1>0, <2>2, <3>1, <3>3, <3>4, <3>5 DEF IInv, BarredIsOff
    <3> QED  BY <2>1, <3>6 DEF BarredIsOff, SaysTheSame, Serves
  <2> QED  BY <1>5, <2>3, <2>4 DEF TapStep, TapWork, TapRead, TapDeny, TapExpire, TapClaim,
       TapEndpoint, TapConnection, TapRefuse, TapSend, TapCheck, TapResult, TapEvent, TapCaught,
       TapCaughtResult, TapThrows, TapDies
<1> QED  BY <1>2, <1>3, <1>4, <1>5 DEF Next

----------------------------------------------------------------------------
(* What was sent.                                                          *)

Sent == SentAsApproved /\ StaysOnHost /\ SwitchedOffIsNotSent

\* What one sending must say.
SendingOK(s) ==
  /\ IF s.call = None THEN s.payload.meaning \in Reads
     ELSE /\ s.payload = calls[s.call].payload
          /\ s.user = calls[s.call].owner /\ granted[s.call] = s.user
  /\ s.payload.base.host = s.to.host
  /\ ~s.barred

LEMMA SentParts ==
  ASSUME \A s \in sent' : SendingOK(s)'
  PROVE  Sent'
  BY DEF Sent, SendingOK, SentAsApproved, StaysOnHost, SwitchedOffIsNotSent

\* Later steps take nothing back of what an earlier sending says.
LEMMA SendingKept ==
  ASSUME IInv, NEW s \in sent,
         \A d \in Calls : calls[d].status # "none" => SaysTheSame(d),
         \A d \in Calls : granted[d] # None => granted'[d] = granted[d]
  PROVE  SendingOK(s)'
<1>1. s \in Sending /\ SendingOK(s)
  BY DEF IInv, TypeOK, SendingOK, SentAsApproved, StaysOnHost, SwitchedOffIsNotSent
<1>2. CASE s.call = None
  BY <1>1, <1>2 DEF SendingOK
<1>3. CASE s.call # None
  <2>1. s.call \in Calls /\ s.user \in Owners
    BY <1>1, <1>3 DEF Sending
  <2>2. granted[s.call] # None /\ granted[s.call] = s.user
    BY <1>1, <1>3, <2>1, NoneAssumption DEF SendingOK
  <2>3. calls[s.call].status # "none"
    BY <2>1, <2>2 DEF IInv, Requests, RequestOK, Undecided
  <2> QED  BY <1>1, <1>3, <2>1, <2>2, <2>3 DEF SendingOK, SaysTheSame
<1> QED  BY <1>2, <1>3

LEMMA SentKept ==
  ASSUME IInv, Next
  PROVE  Sent'
<1>1. ASSUME sent' = sent,
             \A d \in Calls : calls[d].status # "none" => SaysTheSame(d),
             \A d \in Calls : granted[d] # None => granted'[d] = granted[d]
      PROVE  Sent'
  BY <1>1, SendingKept, SentParts
<1>2. ASSUME NEW a \in Asks, AskStep(a)
      PROVE  Sent'
  <2>1. \A s \in sent : SendingOK(s)'
    BY <1>2, AskRows, SendingKept
  <2>2. CASE AskFetch(a)
    <3> DEFINE s == [call |-> None, user |-> ask[a].user, payload |-> Prepared(a),
                     to |-> ask[a].base, barred |-> FALSE]
    <3>1. ask[a].meaning \in Reads
      BY <2>2 DEF AskFetch, IInv, Runs, RunOK
    <3>2. ASSUME NEW x, x = s
          PROVE  SendingOK(x)'
      BY <2>2, <3>1, <3>2 DEF SendingOK, Prepared, AskFetch
    <3>3. sent' = sent \cup {s}
      BY <2>2 DEF AskFetch
    <3> HIDE DEF s
    <3> QED  BY <2>1, <3>2, <3>3, SentParts
  <2>3. CASE sent' = sent
    BY <2>1, <2>3, SentParts
  <2> QED  BY <1>2, <2>2, <2>3 DEF AskStep, AskResolve, AskConnection, AskInsert, AskCheck,
              history
<1>3. ASSUME NEW t \in Taps, TapStep(t)
      PROVE  Sent'
  <2>1. \A s \in sent : SendingOK(s)'
    BY <1>3, TapRows, SendingKept
  <2>2. CASE TapSend(t) /\ sent' # sent
    <3> DEFINE s == [call |-> tap[t].call, user |-> tap[t].user,
                     payload |-> SealedPayload(t), to |-> tap[t].base,
                     barred |-> tap[t].call \in barred]
    <3>1. /\ tap[t].call \in Calls /\ tap[t].call \notin barred
          /\ tap[t].user = calls[tap[t].call].owner
          /\ granted[tap[t].call] = calls[tap[t].call].owner
      BY <2>2 DEF TapSend, IInv, Routes, RouteOK, Deciding, Requests, RequestOK
    <3>2. sent' = sent \cup {s} /\ StaysHome(t) /\ UNCHANGED <<calls, granted, barred>>
      BY <2>2 DEF TapSend
    <3>3. ASSUME NEW x, x = s
          PROVE  SendingOK(x)'
      <4>1. /\ x.call = tap[t].call /\ x.user = tap[t].user
            /\ x.payload = calls[tap[t].call].payload /\ x.to = tap[t].base
        BY <3>3 DEF SealedPayload, Call
      <4>2. ~x.barred
        BY <3>1, <3>3
      <4> QED  BY <3>1, <3>2, <4>1, <4>2, NoneAssumption
               DEF SendingOK, StaysHome, SealedPayload, Call
    <3> HIDE DEF s
    <3> QED  BY <2>1, <3>2, <3>3, SentParts
  <2>3. CASE sent' = sent
    BY <2>1, <2>3, SentParts
  <2> QED  BY <1>3, <2>2, <2>3 DEF TapStep, TapWork, TapRead, TapDeny, TapExpire, TapClaim,
       TapEndpoint, TapConnection, TapRefuse, TapSend, TapCheck, TapResult, TapEvent, TapCaught,
       TapCaughtResult, TapThrows, TapDies, history
<1>4. CASE AdminStep
  BY <1>1, <1>4, AdminRows
<1>5. CASE (\E c \in Calls : Lapse(c)) \/ ExpireCalls
  <2>1. \A d \in Calls : SaysTheSame(d)
    BY <1>5, ClockRows DEF SaysTheSame
  <2> QED  BY <1>1, <1>5, <2>1, ClockRows
<1> QED  BY <1>2, <1>3, <1>4, <1>5 DEF Next

----------------------------------------------------------------------------
(* The invariant.                                                          *)

LEMMA InitHolds == Init => IInv
<1> SUFFICES ASSUME Init
             PROVE  IInv
  OBVIOUS
<1>1. TypeOK
  <2>1. connection \in ConnectionRow
    BY DEF Init, ConnectionRow
  <2>2. endpoint \in [Endpoints -> EndpointRow]
    <3>1. [row : {"live"}, meaning : Meanings, enabled : {TRUE}]
          \cup [row : {"none"}, meaning : {None}, enabled : {FALSE}] \subseteq EndpointRow
      BY DEF EndpointRow
    <3> QED  BY <3>1 DEF Init
  <2>3. NoCall \in CallRow
    BY Statuses DEF NoCall, CallRow
  <2>4. IdleTap \in TapState
    <3>1. "other" \in Outcomes
      BY DEF Outcomes
    <3> QED  BY <3>1 DEF IdleTap, TapState
  <2>5. 0 \in 0 .. MaxChanges
    BY ChangesAssumption
  <2> QED  BY <2>1, <2>2, <2>3, <2>4, <2>5, IdleForms DEF Init, TypeOK
<1>2. Requests
  BY DEF Init, Requests, RequestOK, NoCall, Undecided, Refusals
<1>3. Routes /\ OneRouteEach
  BY DEF Init, Routes, RouteOK, OneRouteEach, IdleTap, Deciding
<1>4. Runs
  BY DEF Init, Runs, RunOK, IdleAsk
<1>5. Listed
  <2>1. \A e \in Endpoints : endpoint[e].row = "live" => endpoint[e].meaning \in Meanings
    BY DEF Init
  <2> QED  BY <2>1 DEF Init, Listed, IdleAdmin
<1>6. BarredIsOff /\ SentAsApproved /\ StaysOnHost /\ SwitchedOffIsNotSent
  BY DEF Init, BarredIsOff, SentAsApproved, StaysOnHost, SwitchedOffIsNotSent
<1> QED  BY <1>1, <1>2, <1>3, <1>4, <1>5, <1>6 DEF IInv

LEMMA StutterKeeps ==
  ASSUME IInv, UNCHANGED vars
  PROVE  IInv'
<1>1. TypeOK'
  BY DEF IInv, TypeOK, vars
<1>2. Requests' /\ Routes' /\ OneRouteEach'
  BY DEF IInv, Requests, RequestOK, Routes, RouteOK, OneRouteEach, vars
<1>3. Runs' /\ Listed' /\ BarredIsOff'
  BY DEF IInv, Runs, RunOK, Listed, BarredIsOff, Serves, vars
<1>4. SentAsApproved' /\ StaysOnHost' /\ SwitchedOffIsNotSent'
  BY DEF IInv, SentAsApproved, StaysOnHost, SwitchedOffIsNotSent, vars
<1> QED  BY <1>1, <1>2, <1>3, <1>4 DEF IInv

\* The invariant holds of every behaviour.
THEOREM Invariance == Spec => []IInv
<1>1. IInv /\ Next => IInv'
  BY TypeKept, RequestsKept, RoutesKept, RunsKept, ListedKept, BarredKept, SentKept DEF IInv, Sent
<1>2. IInv /\ [Next]_vars => IInv'
  BY <1>1, StutterKeeps
<1> QED  BY <1>2, InitHolds, PTL DEF Spec

----------------------------------------------------------------------------
(* Theorems.                                                               *)

\* Every variable keeps its type; no request is sent twice, however many tabs
\* approve it (claimApproved).
THEOREM TypeCorrect == Spec => []TypeOK
<1>1. IInv => TypeOK
  BY DEF IInv
<1> QED  BY <1>1, Invariance, PTL

\* Only reads, and exactly what its owner agreed to, ever leave
\* (openApprovedRequest and the approve route).
THEOREM SentIsApproved == Spec => []SentAsApproved
<1>1. IInv => SentAsApproved
  BY DEF IInv
<1> QED  BY <1>1, Invariance, PTL

\* What was prepared for one host is not sent to another (customApiFetch).
THEOREM HostIsKept == Spec => []StaysOnHost
<1>1. IInv => StaysOnHost
  BY DEF IInv
<1> QED  BY <1>1, Invariance, PTL

\* A decision taken after a switch-off sends nothing (the approve route).
THEOREM SwitchesCount == Spec => []SwitchedOffIsNotSent
<1>1. IInv => SwitchedOffIsNotSent
  BY DEF IInv
<1> QED  BY <1>1, Invariance, PTL

\* What is called executed was sent, and nothing is sent that was not approved
\* (recordCallResult and claimApproved).
THEOREM ExecutedIsSent == Spec => []ExecutedWasSent
<1>1. IInv => ExecutedWasSent
  BY DEF IInv, Requests, RequestOK, ExecutedWasSent
<1> QED  BY <1>1, Invariance, PTL

\* A refused or failed request stays so (denyCustomApiCall, claimApproved,
\* recordCallResult and expireCustomApiCalls).
THEOREM SettledIsFinal == Spec => SettledStays
<1> DEFINE Settled(c) == calls[c].status \in Refusals \cup {"failed"} =>
                           calls'[c].status \in {calls[c].status, "gone"}
<1>1. ASSUME IInv, Next
      PROVE  \A c \in Calls : Settled(c)
  <2>1. ASSUME NEW a \in Asks, AskStep(a)
        PROVE  \A c \in Calls : Settled(c)
    BY <1>1, <2>1, AskRows DEF Undecided, Refusals
  <2>2. CASE AdminStep
    BY <1>1, <2>2, AdminRows
  <2>3. CASE (\E c \in Calls : Lapse(c)) \/ ExpireCalls
    BY <1>1, <2>3, ClockRows DEF Refusals
  <2>4. ASSUME NEW t \in Taps, TapStep(t)
        PROVE  \A c \in Calls : Settled(c)
    <3>1. \A c \in Calls \ {tap[t].call} : Settled(c)
      BY <1>1, <2>4, TapRows
    <3>2. ASSUME tap[t].call \in Calls
          PROVE  Settled(tap[t].call)
      <4>1. CASE UNCHANGED calls
        BY <4>1
      <4>2. CASE calls[tap[t].call].status \in {"pending", "approved"}
        BY <4>2 DEF Refusals
      <4>3. CASE TapRefuse(t) \/ TapResult(t)
        <5>1. calls[tap[t].call].status \in {"approved", "gone"}
          BY <1>1, <4>3 DEF TapRefuse, TapResult, IInv, Routes, RouteOK
        <5> QED  BY <5>1 DEF Refusals
      <4>4. CASE TapCaughtResult(t)
        <5>1. calls[tap[t].call].status \notin Refusals
          BY <1>1, <4>4, DecidingRow DEF TapCaughtResult, Deciding
        <5>2. calls \in [Calls -> CallRow] /\ calls[tap[t].call] \in CallRow
          BY <1>1, <3>2 DEF IInv, TypeOK
        <5>3. CASE calls[tap[t].call].status # "gone"
          <6>1. calls'[tap[t].call] = [calls[tap[t].call] EXCEPT !.status = "failed"]
            BY <3>2, <4>4, <5>2, <5>3, ResultShape, Statuses DEF TapCaughtResult
          <6>2. calls'[tap[t].call].status = "failed"
            BY <5>2, <6>1, RowFields, Statuses
          <6> QED  BY <5>1, <6>2
        <5> QED  BY <5>1, <5>3 DEF Refusals
      <4> QED  BY <2>4, <4>1, <4>2, <4>3, <4>4 DEF TapStep, TapWork, TapRead, TapDeny,
           TapExpire, TapClaim, TapEndpoint, TapConnection, TapSend, TapCheck, TapEvent,
           TapCaught, TapThrows, TapDies, Claimable, Call
    <3> QED  BY <3>1, <3>2
  <2> QED  BY <1>1, <2>1, <2>2, <2>3, <2>4 DEF Next
<1>2. ASSUME UNCHANGED vars
      PROVE  \A c \in Calls : Settled(c)
  BY <1>2 DEF vars
<1>3. IInv /\ [Next]_vars => [\A c \in Calls : Settled(c)]_vars
  BY <1>1, <1>2
<1> QED  BY <1>3, Invariance, PTL DEF Spec, SettledStays

----------------------------------------------------------------------------
(* The route implements ConsentOnce.                                       *)

\* The phase of a row, and what the abstract specification calls it.
LEMMA PhaseOf ==
  ASSUME IInv, NEW c \in Calls
  PROVE  /\ (Phase[c] = "granted" <=> granted[c] # None)
         /\ (Phase[c] = "unasked" <=> calls[c].status = "none")
         /\ (Phase[c] = "asked" <=> calls[c].status = "pending")
         /\ Phase[c] \in {"unasked", "asked", "granted", "refused"}
  BY DEF Phase, IInv, Requests, RequestOK, Undecided

\* Requests that stop waiting unanswered are refused.
LEMMA Withdrawn ==
  ASSUME IInv, IInv', UNCHANGED <<granted, carried>>,
         \A d \in Calls : /\ calls'[d].owner = calls[d].owner
                          /\ (calls[d].status = "none" <=> calls'[d].status = "none")
                          /\ calls'[d].status = "pending" => calls[d].status = "pending"
  PROVE  Consent!Next
<1> DEFINE R == {c \in Calls : calls[c].status = "pending" /\ calls'[c].status # "pending"}
<1>1. \A c \in R : Phase[c] = "asked"
  BY PhaseOf
<1>2. Phase' = [c \in Calls |-> IF c \in R THEN "refused" ELSE Phase[c]]
  BY DEF Phase, IInv, Requests, RequestOK, Undecided
<1>3. [c \in Calls |-> calls[c].owner]' = [c \in Calls |-> calls[c].owner]
  OBVIOUS
<1>4. R \in SUBSET Calls
  OBVIOUS
<1> HIDE DEF R
<1>5. Consent!Refuse(R)
  BY <1>1, <1>2, <1>3 DEF Consent!Refuse
<1> QED  BY <1>4, <1>5 DEF Consent!Next

\* Asking.
LEMMA AskRefines ==
  ASSUME IInv, IInv', NEW a \in Asks, AskStep(a)
  PROVE  Consent!Next
<1>0. UNCHANGED <<granted, carried>> /\ calls \in [Calls -> CallRow]
  BY AskRows DEF IInv, TypeOK
<1>1. ASSUME NEW c \in Calls, calls[c].status = "none", AskInsert(a),
             calls' = [calls EXCEPT ![c] = [status |-> "pending",
                owner |-> ask[a].user, endpoint |-> ask[a].endpoint,
                payload |-> Prepared(a)]]
      PROVE  Consent!Next
  <2>1. ask[a].user \in Owners
    BY <1>1 DEF AskInsert, IInv, Runs, RunOK
  <2>2. /\ calls'[c].status = "pending" /\ calls'[c].owner = ask[a].user
        /\ \A d \in Calls \ {c} : calls'[d] = calls[d]
    BY <1>0, <1>1
  <2>3. granted[c] = None
    BY <1>1 DEF IInv, Requests, RequestOK, Undecided
  <2>4. Phase' = [Phase EXCEPT ![c] = "asked"]
    BY <1>0, <2>2, <2>3 DEF Phase
  <2>5. [d \in Calls |-> calls[d].owner]' =
          [[d \in Calls |-> calls[d].owner] EXCEPT ![c] = ask[a].user]
    BY <2>2
  <2>6. Phase[c] = "unasked"
    BY <1>1, PhaseOf
  <2>7. ASSUME NEW p \in Owners, p = ask[a].user
        PROVE  Consent!Next
    <3>1. Consent!Ask(c, p)
      BY <1>0, <2>4, <2>5, <2>6, <2>7 DEF Consent!Ask
    <3> QED  BY <1>1, <3>1 DEF Consent!Next
  <2> QED  BY <2>1, <2>7
<1>2. CASE \A d \in Calls : calls[d].status = "none" => calls'[d].status = "none"
  <2>1. \A d \in Calls : /\ calls'[d].owner = calls[d].owner
                         /\ (calls[d].status = "none" <=> calls'[d].status = "none")
                         /\ calls'[d].status = "pending" => calls[d].status = "pending"
    <3>1. ASSUME NEW d \in Calls, calls[d].status = "none"
          PROVE  calls'[d].owner = calls[d].owner
      BY <1>2, <3>1 DEF IInv, Requests, RequestOK
    <3> QED  BY <1>2, <3>1, AskRows DEF SaysTheSame
  <2> QED  BY <1>0, <2>1, Withdrawn
<1>3. ASSUME NEW c \in Same(a), SetStatus(c, "pending")
      PROVE  \A d \in Calls : calls[d].status = "none" => calls'[d].status = "none"
  BY <1>0, <1>3, StatusShape, Statuses DEF Same
<1>4. UNCHANGED calls => \A d \in Calls : calls[d].status = "none" => calls'[d].status = "none"
  OBVIOUS
<1> QED  BY <1>1, <1>2, <1>3, <1>4 DEF AskStep, AskResolve, AskConnection, AskInsert,
            AskFetch, AskCheck

\* Agreeing and carrying out; every other step of a route refuses, or records.
LEMMA TapRefines ==
  ASSUME IInv, IInv', NEW t \in Taps, TapStep(t)
  PROVE  Consent!Next
<1>0. /\ calls \in [Calls -> CallRow] /\ carried \in [Calls -> 0 .. 1]
      /\ granted \in [Calls -> Owners \cup {None}] /\ RouteOK(t)
      /\ \A d \in Calls : calls'[d].owner = calls[d].owner
  BY TapRows DEF IInv, TypeOK, Routes, SaysTheSame
<1>1. CASE TapClaim(t) /\ Claimable(t)
  <2>1. /\ tap[t].call \in Calls /\ calls[tap[t].call].status = "pending"
        /\ tap[t].user = calls[tap[t].call].owner /\ tap[t].user \in Owners
        /\ granted' = [granted EXCEPT ![tap[t].call] = tap[t].user] /\ UNCHANGED carried
    BY <1>0, <1>1 DEF TapClaim, Claimable, Call, RouteOK, IInv, Requests, RequestOK
  <2>2. \A d \in Calls \ {tap[t].call} : calls'[d] = calls[d]
    BY TapRows
  <2>3. granted'[tap[t].call] # None
    BY <1>0, <2>1, NoneAssumption
  <2>4. Phase' = [Phase EXCEPT ![tap[t].call] = "granted"]
    BY <1>0, <2>1, <2>2, <2>3 DEF Phase
  <2>5. [d \in Calls |-> calls[d].owner]' = [d \in Calls |-> calls[d].owner]
    BY <1>0
  <2>6. Phase[tap[t].call] = "asked"
    BY <2>1, PhaseOf
  <2>7. Consent!Agree(tap[t].call)
    BY <2>1, <2>4, <2>5, <2>6 DEF Consent!Agree
  <2> QED  BY <2>1, <2>7 DEF Consent!Next
<1>2. CASE TapSend(t) /\ carried' = [carried EXCEPT ![tap[t].call] = @ + 1]
  <2>1. /\ tap[t].call \in Calls /\ carried[tap[t].call] = 0 /\ granted[tap[t].call] # None
        /\ UNCHANGED <<calls, granted>>
    BY <1>0, <1>2 DEF TapSend, RouteOK, Deciding
  <2>2. granted[tap[t].call] = calls[tap[t].call].owner
    BY <2>1 DEF IInv, Requests, RequestOK
  <2>3. Phase[tap[t].call] = "granted" /\ Phase' = Phase
    BY <2>1, PhaseOf DEF Phase
  <2>4. carried' = [carried EXCEPT ![tap[t].call] = 1]
    BY <1>0, <1>2, <2>1
  <2>5. [d \in Calls |-> calls[d].owner]' = [d \in Calls |-> calls[d].owner]
    BY <1>0
  <2>6. Consent!CarryOut(tap[t].call)
    BY <2>1, <2>2, <2>3, <2>4, <2>5 DEF Consent!CarryOut
  <2> QED  BY <2>1, <2>6 DEF Consent!Next
<1>3. CASE UNCHANGED <<granted, carried>>
  <2>1. ASSUME tap[t].pc # "idle", NEW s \in CallStatus \ Undecided,
               SetResult(tap[t].call, s) \/ SetStatus(tap[t].call, s)
        PROVE  \/ UNCHANGED calls
               \/ calls'[tap[t].call].status \notin Undecided
                  /\ calls[tap[t].call].status # "none"
    <3>1. tap[t].call \in Calls /\ calls[tap[t].call] \in CallRow
          /\ calls[tap[t].call].status # "none" /\ s \in CallStatus
      BY <1>0, <2>1 DEF RouteOK
    <3>2. CASE SetStatus(tap[t].call, s)
      <4>1. calls'[tap[t].call] = [calls[tap[t].call] EXCEPT !.status = s]
        BY <1>0, <3>1, <3>2, StatusShape
      <4>2. calls'[tap[t].call].status = s
        BY <3>1, <4>1, RowFields
      <4> QED  BY <2>1, <3>1, <4>2
    <3> QED  BY <2>1, <3>2 DEF SetResult
  <2>2. \/ UNCHANGED calls
        \/ calls'[tap[t].call].status \notin Undecided /\ calls[tap[t].call].status # "none"
    <3>1. CASE \/ TapDeny(t) \/ TapExpire(t) \/ TapClaim(t) \/ TapRefuse(t) \/ TapResult(t)
               \/ TapCaughtResult(t)
      <4>1. {"denied", "expired", "approved", "executed", "failed"}
              \subseteq CallStatus \ Undecided
        BY Statuses DEF Undecided
      <4>2. \/ UNCHANGED calls
            \/ \E s \in {"denied", "expired", "approved", "executed", "failed"} :
                 SetResult(tap[t].call, s) \/ SetStatus(tap[t].call, s)
        BY <3>1 DEF TapDeny, TapExpire, TapClaim, TapRefuse, TapResult, TapCaughtResult
      <4>3. tap[t].pc # "idle"
        BY <3>1 DEF TapDeny, TapExpire, TapClaim, TapRefuse, TapResult, TapCaughtResult
      <4> QED  BY <2>1, <4>1, <4>2, <4>3
    <3>2. CASE ~(\/ TapDeny(t) \/ TapExpire(t) \/ TapClaim(t) \/ TapRefuse(t) \/ TapResult(t)
                 \/ TapCaughtResult(t))
      BY <3>2 DEF TapStep, TapWork, TapRead, TapEndpoint, TapConnection, TapSend, TapCheck,
         TapEvent, TapCaught, TapThrows, TapDies
    <3> QED  BY <3>1, <3>2
  <2>3. \A d \in Calls : /\ (calls[d].status = "none" <=> calls'[d].status = "none")
                         /\ calls'[d].status = "pending" => calls[d].status = "pending"
    BY <2>2, TapRows DEF Undecided
  <2> QED  BY <1>0, <1>3, <2>3, Withdrawn
<1> QED  BY <1>1, <1>2, <1>3 DEF TapStep, TapWork, TapRead, TapDeny, TapExpire, TapClaim,
     TapEndpoint, TapConnection, TapRefuse, TapSend, TapCheck, TapResult, TapEvent, TapCaught,
     TapCaughtResult, TapThrows, TapDies, history

\* Administrators and the clock refuse what waits.
LEMMA OthersRefine ==
  ASSUME IInv, IInv', AdminStep \/ (\E c \in Calls : Lapse(c)) \/ ExpireCalls
  PROVE  Consent!Next
<1>1. CASE AdminStep
  <2>1. \A d \in Calls : calls[d].status = "none" => calls'[d].status = "none"
    <3>1. ASSUME NEW d \in Calls, calls[d].status = "none"
          PROVE  calls'[d].status = "none"
      <4>1. calls'[d].owner = None
        BY <1>1, <3>1, AdminRows DEF SaysTheSame, IInv, Requests, RequestOK
      <4> QED  BY <4>1, NoneAssumption DEF IInv, Requests, RequestOK
    <3> QED  BY <3>1
  <2> QED  BY <1>1, <2>1, AdminRows, Withdrawn DEF SaysTheSame
<1>2. CASE (\E c \in Calls : Lapse(c)) \/ ExpireCalls
  BY <1>2, ClockRows, Withdrawn DEF SaysTheSame
<1> QED  BY <1>1, <1>2

\* However tabs, administrators and repeated questions interleave, a request is
\* carried out once at most, and only by consent of its owner (the approve
\* route).
THEOREM ImplementsConsent == Spec => KeepsConsent
<1>1. Init => Consent!Init
  BY DEF Init, Consent!Init, Phase, NoCall
<1>2. ASSUME IInv, IInv', [Next]_vars
      PROVE  [Consent!Next]_(Consent!vars)
  <2>1. CASE UNCHANGED vars
    BY <2>1 DEF vars, Consent!vars, Phase
  <2>2. CASE Next
    BY <1>2, <2>2, AskRefines, TapRefines, OthersRefine DEF Next
  <2> QED  BY <1>2, <2>1, <2>2
<1> QED  BY <1>1, <1>2, Invariance, PTL DEF Spec, KeepsConsent, Consent!Spec
============================================================================
