------------------------------ MODULE Telegram ------------------------------
(***************************************************************************)
(* The Telegram channel: which account a chat speaks for, and what one     *)
(* update of the bot does.                                                 *)
(*                                                                         *)
(*   packages/channels/src/telegram/linking.ts   codes and links           *)
(*   packages/channels/src/telegram/inbound.ts   handleUpdate              *)
(*   packages/channels/src/telegram/outbound.ts  sending, dead chats       *)
(*   apps/api/src/http/telegramRoutes.ts         the webhook               *)
(*   packages/db/migrations/0014_telegram.sql                              *)
(*                                                                         *)
(* No operation here opens a transaction: every statement is a step, and   *)
(* requests of the web app and deliveries of the bot run between them.     *)
(***************************************************************************)
EXTENDS Naturals, FiniteSets

CONSTANTS
  Users, Chats,   \* accounts, private chats with the bot
  Codes,          \* link codes that are ever minted
  Updates,        \* messages the bot is ever sent, by update_id
  Requests,       \* requests the API serves at once
  MaxLinks,       \* bound of telegram_links
  MaxDeaths,      \* requests that die half way
  None

ASSUME BoundsAssumption == MaxLinks \in Nat /\ MaxDeaths \in Nat
ASSUME NoneAssumption == None \notin Users \cup Chats \cup Codes \cup Updates

VARIABLES
  codes,      \* telegram_link_codes
  links,      \* telegram_links
  threads,    \* threads a message made, by that message: their owner
  updates,    \* what each update says, and its row of telegram_updates
  req,        \* what each request is at
  turns,      \* history: assistant turns an update ran, and as whom
  deaths

vars == <<codes, links, threads, updates, req, turns, deaths>>

LinkIds == 1..MaxLinks

NoCode == [owner |-> None, usedBy |-> None, dead |-> FALSE, expired |-> FALSE]
NoLink == [user |-> None, chat |-> None, active |-> FALSE, thread |-> None, by |-> None]
NoUpdate == [chat |-> None, say |-> "nothing", code |-> None, row |-> "none"]
Idle == [pc |-> "idle", update |-> None, user |-> None, link |-> 0, code |-> None,
         thread |-> None, outcome |-> "accepted", revoked |-> {}]

----------------------------------------------------------------------------
(* Codes and links.                                                        *)

Linked(chat) == {l \in LinkIds : links[l].active /\ links[l].chat = chat}

\* Any row of the chat.
EverLinked(chat) == {l \in LinkIds : links[l].chat = chat}

\* resolveChat
Resolve(chat) == Linked(chat)

ChatOf(r) == updates[req[r].update].chat
Go(r, pc) == req' = [req EXCEPT ![r].pc = pc]
End(r) == req' = [req EXCEPT ![r] = Idle]

\* invalidateCodesFor
Invalidated(u) ==
  codes' = [c \in Codes |->
    IF codes[c].owner = u /\ codes[c].usedBy = None THEN [codes[c] EXCEPT !.dead = TRUE]
    ELSE codes[c]]

\* mintLinkCode: the outstanding codes go first, then the new one is inserted.
MintBegin(r, u) ==
  /\ req[r].pc = "idle"
  /\ \E c \in Codes : codes[c].owner = None
  /\ Invalidated(u)
  /\ req' = [req EXCEPT ![r] = [Idle EXCEPT !.pc = "mint", !.user = u]]
  /\ UNCHANGED <<links, threads, updates, turns, deaths>>

MintInsert(r, c) ==
  /\ req[r].pc = "mint"
  /\ codes[c].owner = None
  /\ codes' = [codes EXCEPT ![c].owner = req[r].user]
  /\ End(r)
  /\ UNCHANGED <<links, threads, updates, turns, deaths>>

\* Minted by other requests meanwhile: the bound of Codes, not of the program.
MintNoCode(r) ==
  /\ req[r].pc = "mint"
  /\ \A c \in Codes : codes[c].owner # None
  /\ End(r)
  /\ UNCHANGED <<codes, links, threads, updates, turns, deaths>>

Expire(c) ==
  /\ codes[c].owner # None /\ ~codes[c].expired
  /\ codes' = [codes EXCEPT ![c].expired = TRUE]
  /\ UNCHANGED <<links, threads, updates, req, turns, deaths>>

\* revokeLink from the web app: the owner's own link, or an administrator's choice.
\* A link that is revoked already is answered as it is.
UnlinkBegin(r, l) ==
  /\ req[r].pc = "idle"
  /\ links[l].active
  /\ req' = [req EXCEPT ![r] = [Idle EXCEPT !.pc = "unlink", !.user = links[l].user, !.link = l]]
  /\ UNCHANGED <<codes, links, threads, updates, turns, deaths>>

UnlinkLink(r) ==
  /\ req[r].pc = "unlink"
  /\ links' = [links EXCEPT ![req[r].link].active = FALSE]
  /\ Go(r, "codes")
  /\ UNCHANGED <<codes, threads, updates, turns, deaths>>

\* Then the owner's outstanding codes; inside a chat the notice follows.
UnlinkCodes(r) ==
  /\ req[r].pc = "codes"
  /\ Invalidated(req[r].user)
  /\ IF req[r].update = None THEN End(r) ELSE Go(r, "send")
  /\ UNCHANGED <<links, threads, updates, turns, deaths>>

\* The owner deletes a conversation: on delete set null.
DeleteThread(t) ==
  /\ threads[t] # None
  /\ threads' = [threads EXCEPT ![t] = None]
  /\ links' = [l \in LinkIds |-> IF links[l].thread = t THEN [links[l] EXCEPT !.thread = None] ELSE links[l]]
  /\ UNCHANGED <<codes, updates, req, turns, deaths>>

----------------------------------------------------------------------------
(* Deliveries.                                                             *)

\* "other": /help, an attachment without words, what the bot cannot read.
Says(say, code) == say = "start" <=> code # None

Write(u, chat, say, code) ==
  /\ updates[u] = NoUpdate
  /\ Says(say, code)
  /\ code # None => codes[code].owner # None
  /\ updates' = [updates EXCEPT ![u] = [NoUpdate EXCEPT !.chat = chat, !.say = say, !.code = code]]
  /\ UNCHANGED <<codes, links, threads, req, turns, deaths>>

Revoked == {l \in LinkIds : links[l] # NoLink /\ ~links[l].active}

Started(u) == [Idle EXCEPT !.pc = "received", !.update = u, !.revoked = Revoked]

\* A message for the assistant that has no other outcome yet is taken again.
ReceiveUnanswered(r, u) ==
  /\ req[r].pc = "idle"
  /\ updates[u].chat # None
  /\ updates[u].row = "none" \/ (updates[u].row = "accepted" /\ updates[u].say = "text")
  /\ req' = [req EXCEPT ![r] = Started(u)]
  /\ updates' = [updates EXCEPT ![u].row = "accepted"]
  /\ UNCHANGED <<codes, links, threads, turns, deaths>>

\* The insert into telegram_updates claims the update; its outcome reads accepted
\* from the start.  A delivery that comes again is acknowledged and dropped.
Receive(r, u) ==
  /\ req[r].pc = "idle"
  /\ updates[u].chat # None /\ updates[u].row = "none"
  /\ req' = [req EXCEPT ![r] = Started(u)]
  /\ updates' = [updates EXCEPT ![u].row = "accepted"]
  /\ UNCHANGED <<codes, links, threads, turns, deaths>>

\* finish, and 200 to Telegram
Finish(r, outcome) ==
  /\ updates' = [updates EXCEPT ![req[r].update].row = outcome]
  /\ End(r)

\* deps.send, and what finish will record after it
Send(r, outcome) == req' = [req EXCEPT ![r].pc = "send", ![r].outcome = outcome]

\* The allowance of the chat is spent: silence.
OverLimit(r) ==
  /\ req[r].pc = "received"
  /\ Finish(r, "refused")
  /\ UNCHANGED <<codes, links, threads, turns, deaths>>

\* The link decides what the message may do.
Identify(r) ==
  LET u == req[r].update
      found == Resolve(ChatOf(r))
      Bound(l, pc) == req' = [req EXCEPT ![r].pc = pc, ![r].link = l, ![r].user = links[l].user,
                                         ![r].thread = links[l].thread]
  IN
  /\ req[r].pc = "received"
  /\ \/ updates[u].say = "start" /\ found # {} /\ Send(r, "accepted")
     \/ updates[u].say = "start" /\ found = {} /\ Go(r, "redeem")
     \/ updates[u].say # "start" /\ found = {} /\ Send(r, "unlinked")
     \/ updates[u].say = "unlink" /\ \E l \in found : Bound(l, "unlink")
     \/ updates[u].say = "other" /\ found # {} /\ \E o \in {"accepted", "refused"} : Send(r, o)
     \/ updates[u].say = "text" /\ \E l \in found : Bound(l, "thread")
  /\ UNCHANGED <<codes, links, threads, updates, turns, deaths>>

----------------------------------------------------------------------------
(* redeemLinkCode.                                                         *)

Redeemable(c) == codes[c].usedBy = None /\ ~codes[c].dead /\ ~codes[c].expired

\* One conditional update.
Redeem(r) ==
  LET c == updates[req[r].update].code IN
  /\ req[r].pc = "redeem"
  /\ IF Redeemable(c)
       THEN /\ codes' = [codes EXCEPT ![c].usedBy = ChatOf(r)]
            /\ req' = [req EXCEPT ![r].pc = "taken", ![r].code = c, ![r].user = codes[c].owner]
       ELSE /\ Send(r, "refused")
            /\ UNCHANGED codes
  /\ UNCHANGED <<links, threads, updates, turns, deaths>>

\* The code is spent whether or not the chat can be linked.
LookForLink(r) ==
  LET found == Linked(ChatOf(r)) IN
  /\ req[r].pc = "taken"
  /\ \/ found = {} /\ Go(r, "insert")
     \/ \E l \in found :
          IF links[l].user = req[r].user THEN Send(r, "accepted") ELSE Send(r, "refused")
  /\ UNCHANGED <<codes, links, threads, updates, turns, deaths>>

NextLink(l) == links[l] = NoLink /\ \A k \in LinkIds : k < l => links[k] # NoLink

\* No index: what was read before stands.
InsertUnchecked(r) ==
  /\ req[r].pc = "insert"
  /\ \E l \in LinkIds :
       /\ NextLink(l)
       /\ links' = [links EXCEPT ![l] = [user |-> req[r].user, chat |-> ChatOf(r),
                      active |-> TRUE, thread |-> None, by |-> req[r].code]]
  /\ Send(r, "accepted")
  /\ UNCHANGED <<codes, threads, updates, turns, deaths>>

\* telegram_links_one_active_chat decides between two redemptions in one chat:
\* the second insert throws, the webhook answers 200 and the row keeps its outcome.
InsertLink(r) ==
  /\ req[r].pc = "insert"
  /\ \/ /\ Linked(ChatOf(r)) = {}
        /\ \E l \in LinkIds :
             /\ NextLink(l)
             /\ links' = [links EXCEPT ![l] = [user |-> req[r].user, chat |-> ChatOf(r),
                            active |-> TRUE, thread |-> None, by |-> req[r].code]]
        /\ Send(r, "accepted")
     \/ /\ Linked(ChatOf(r)) # {}
        /\ End(r)
        /\ UNCHANGED links
  /\ UNCHANGED <<codes, threads, updates, turns, deaths>>

----------------------------------------------------------------------------
(* The turn.                                                               *)

\* threadFor, with the link as it was read: its thread if it still exists.
FindThread(r) ==
  LET t == req[r].thread IN
  /\ req[r].pc = "thread"
  /\ IF t # None /\ threads[t] # None
       THEN /\ Go(r, "turn")
            /\ UNCHANGED threads
       ELSE /\ threads' = [threads EXCEPT ![req[r].update] = req[r].user]
            /\ req' = [req EXCEPT ![r].pc = "bind", ![r].thread = req[r].update]
  /\ UNCHANGED <<codes, links, updates, turns, deaths>>

\* Every link of the chat.
BindByChat(r) ==
  /\ req[r].pc = "bind"
  /\ threads[req[r].thread] # None
  /\ links' = [l \in LinkIds |-> IF links[l].chat = ChatOf(r)
                 THEN [links[l] EXCEPT !.thread = req[r].thread] ELSE links[l]]
  /\ Go(r, "turn")
  /\ UNCHANGED <<codes, threads, updates, turns, deaths>>

\* A thread deleted before its link points at it fails the foreign key.
BindThread(r) ==
  /\ req[r].pc = "bind"
  /\ IF threads[req[r].thread] = None
       THEN End(r) /\ UNCHANGED links
       ELSE /\ links' = [links EXCEPT ![req[r].link].thread = req[r].thread]
            /\ Go(r, "turn")
  /\ UNCHANGED <<codes, threads, updates, turns, deaths>>

\* runTurn as the linked user; an error and a refusal are told, a reply is
\* recorded in the thread and sent.
Turn(r) ==
  /\ req[r].pc = "turn"
  /\ turns' = [turns EXCEPT ![req[r].update] = [n |-> @.n + 1, user |-> req[r].user]]
  /\ Go(r, "reply")
  /\ UNCHANGED <<codes, links, threads, updates, deaths>>

\* What is written to a thread that is gone throws.
Reply(r, outcome) ==
  /\ req[r].pc = "reply"
  /\ outcome \in {"accepted", "refused", "failed"}
  /\ IF threads[req[r].thread] = None THEN End(r) ELSE Send(r, outcome)
  /\ UNCHANGED <<codes, links, threads, updates, turns, deaths>>

----------------------------------------------------------------------------
(* sendChunk.                                                              *)

Sent(r) ==
  /\ req[r].pc = "send"
  /\ Finish(r, req[r].outcome)
  /\ UNCHANGED <<codes, links, threads, turns, deaths>>

\* Sending failed for good: it throws past handleUpdate, and the webhook answers 200.
NotSent(r) ==
  /\ req[r].pc = "send"
  /\ End(r)
  /\ UNCHANGED <<codes, links, threads, updates, turns, deaths>>

\* The chat is gone or has blocked the bot: its link, whichever that now is.
ChatDead(r) ==
  /\ req[r].pc = "send"
  /\ Go(r, "dead")
  /\ UNCHANGED <<codes, links, threads, updates, turns, deaths>>

RevokeForDeadChat(r) ==
  /\ req[r].pc = "dead"
  /\ links' = [l \in LinkIds |-> IF l \in Linked(ChatOf(r)) THEN [links[l] EXCEPT !.active = FALSE] ELSE links[l]]
  /\ End(r)
  /\ UNCHANGED <<codes, threads, updates, turns, deaths>>

\* The process dies; what it wrote stays.
Die(r) ==
  /\ req[r].pc # "idle" /\ deaths < MaxDeaths
  /\ deaths' = deaths + 1
  /\ End(r)
  /\ UNCHANGED <<codes, links, threads, updates, turns>>

----------------------------------------------------------------------------
Init ==
  /\ codes = [c \in Codes |-> NoCode]
  /\ links = [l \in LinkIds |-> NoLink]
  /\ threads = [u \in Updates |-> None]
  /\ updates = [u \in Updates |-> NoUpdate]
  /\ req = [r \in Requests |-> Idle]
  /\ turns = [u \in Updates |-> [n |-> 0, user |-> None]]
  /\ deaths = 0

Web(r) ==
  \/ \E u \in Users : MintBegin(r, u)
  \/ \E c \in Codes : MintInsert(r, c)
  \/ MintNoCode(r)
  \/ \E l \in LinkIds : UnlinkBegin(r, l)

Handle(r) ==
  \/ OverLimit(r) \/ Identify(r)
  \/ UnlinkLink(r) \/ UnlinkCodes(r)
  \/ Redeem(r) \/ LookForLink(r) \/ InsertLink(r)
  \/ FindThread(r) \/ BindThread(r) \/ Turn(r)
  \/ \E outcome \in {"accepted", "refused", "failed"} : Reply(r, outcome)
  \/ Sent(r) \/ NotSent(r) \/ ChatDead(r) \/ RevokeForDeadChat(r)

Outside ==
  \/ \E c \in Codes : Expire(c)
  \/ \E u \in Updates, chat \in Chats, say \in {"start", "text", "unlink", "other"},
        code \in Codes \cup {None} : Write(u, chat, say, code)
  \/ \E t \in Updates : DeleteThread(t)

Next ==
  \/ Outside
  \/ \E r \in Requests :
       \/ Web(r) \/ Handle(r) \/ Die(r)
       \/ \E u \in Updates : Receive(r, u)

Spec == Init /\ [][Next]_vars

----------------------------------------------------------------------------
(* Properties.                                                             *)

Outcomes == {"accepted", "unlinked", "refused", "failed"}

Code == [owner : Users \cup {None}, usedBy : Chats \cup {None}, dead : BOOLEAN, expired : BOOLEAN]
Link == [user : Users \cup {None}, chat : Chats \cup {None}, active : BOOLEAN,
         thread : Updates \cup {None}, by : Codes \cup {None}]
Update == [chat : Chats \cup {None}, say : {"nothing", "start", "text", "unlink", "other"},
           code : Codes \cup {None}, row : Outcomes \cup {"none"}]
Request == [pc : {"idle", "mint", "unlink", "codes", "received", "redeem", "taken", "insert",
                  "thread", "bind", "turn", "reply", "send", "dead"},
            update : Updates \cup {None}, user : Users \cup {None}, link : LinkIds \cup {0},
            code : Codes \cup {None}, thread : Updates \cup {None}, outcome : Outcomes,
            revoked : SUBSET LinkIds]

\* Types of the variables.
TypeOK ==
  /\ codes \in [Codes -> Code] /\ links \in [LinkIds -> Link]
  /\ threads \in [Updates -> Users \cup {None}] /\ updates \in [Updates -> Update]
  /\ req \in [Requests -> Request]
  /\ turns \in [Updates -> [n : Nat, user : Users \cup {None}]]
  /\ deaths \in Nat

\* A chat speaks for one account at a time, although two redemptions in one chat
\* may both have found it free.
OneAccountPerChat ==
  \A l, k \in LinkIds :
    links[l].active /\ links[k].active /\ links[l].chat = links[k].chat => l = k

\* Every link comes from one code of its own: minted by the account it speaks for,
\* spent in the chat it belongs to, and not withdrawn by an unlink or a newer code.
EveryLinkHasItsCode ==
  \A l \in LinkIds : links[l] # NoLink =>
    LET c == codes[links[l].by] IN
    /\ c.owner = links[l].user /\ c.usedBy = links[l].chat /\ ~c.dead
    /\ \A k \in LinkIds \ {l} : links[k].by # links[l].by

\* However often Telegram delivers an update, and wherever its request dies, its
\* turn runs once, as somebody whose own code was spent in that chat.
OneTurnAsTheLinkedUser ==
  \A u \in Updates :
    /\ turns[u].n <= 1
    /\ turns[u].n > 0 => \E c \in Codes : codes[c].owner = turns[u].user /\ codes[c].usedBy = updates[u].chat

\* A revocation holds from the next message: no request works for a link that was
\* revoked before its message was received.
RevokedBeforeIsRefused ==
  \A r \in Requests :
    req[r].pc \in {"unlink", "thread", "bind", "turn", "reply"} => req[r].link \notin req[r].revoked

\* A conversation is written under the account it belongs to: neither a link nor
\* a request under way leads to a thread of somebody else.
ThreadOfItsUser ==
  /\ \A l \in LinkIds : links[l].thread # None => threads[links[l].thread] = links[l].user
  /\ \A r \in Requests : req[r].pc \in {"bind", "turn", "reply"} =>
       threads[req[r].thread] \in {req[r].user, None}

=============================================================================
