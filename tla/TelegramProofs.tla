--------------------------- MODULE TelegramProofs ---------------------------
(***************************************************************************)
(* What holds of Telegram for any number of accounts, chats, codes,        *)
(* messages, requests and deaths.                                          *)
(***************************************************************************)
EXTENDS Telegram, TLAPS

----------------------------------------------------------------------------
(* The inductive invariant.  First what each request is right to rely on.  *)

\* The message it handles was written and is claimed.
AtItsMessage(r) ==
  /\ req[r].pc \notin {"idle", "mint", "unlink", "codes"} => req[r].update # None
  /\ req[r].update # None =>
       req[r].pc # "idle" /\ req[r].update \in Updates
         /\ updates[req[r].update].row # "none" /\ ChatOf(r) \in Chats
  /\ req[r].pc = "redeem" => updates[req[r].update].say = "start"

\* The code it took is its account's, spent in its chat, and makes no link yet.
Taken(r) == req[r].pc \in {"taken", "insert"}
HasItsCode(r) ==
  Taken(r) =>
    /\ req[r].code \in Codes /\ req[r].user \in Users
    /\ codes[req[r].code].owner = req[r].user
    /\ codes[req[r].code].usedBy = ChatOf(r) /\ codes[req[r].code].dead = FALSE
    /\ \A l \in LinkIds : links[l].by # req[r].code

\* It works for the account of its link, in the chat of that link.
Working(r) == req[r].pc \in {"thread", "bind", "turn", "reply"}
ForItsLink(r) ==
  /\ Working(r) \/ req[r].pc = "unlink" =>
       /\ req[r].link \in LinkIds /\ links[req[r].link].by # None
       /\ req[r].user = links[req[r].link].user
       /\ req[r].link \notin req[r].revoked
  /\ Working(r) => ChatOf(r) = links[req[r].link].chat

\* The thread it writes to is its account's, as long as it is there.
InItsThread(r) ==
  /\ Working(r) /\ (req[r].pc # "thread" \/ req[r].thread # None) =>
       req[r].thread \in Updates /\ threads[req[r].thread] \in {req[r].user, None}

BeforeItsTurn(r) ==
  req[r].pc \in {"received", "thread", "bind", "turn"} => turns[req[r].update].n = 0

KnowsTheRevoked(r) ==
  \A l \in LinkIds : l \in req[r].revoked => links[l].by # None /\ links[l].active = FALSE

\* Two requests share neither a message nor a code.
Apart ==
  \A r, s \in Requests : r # s =>
    /\ req[r].update # None => req[r].update # req[s].update
    /\ Taken(r) /\ Taken(s) => req[r].code # req[s].code

\* A link is sealed by its code; where there is none, there is no link.
LinksAreSealed ==
  \A l \in LinkIds :
    IF links[l].by = None THEN links[l] = NoLink
    ELSE /\ links[l].by \in Codes /\ links[l].user \in Users /\ links[l].chat \in Chats
         /\ codes[links[l].by].owner = links[l].user
         /\ codes[links[l].by].usedBy = links[l].chat /\ codes[links[l].by].dead = FALSE
         /\ \A k \in LinkIds : links[k].by = links[l].by => k = l

SpentWereMinted == \A c \in Codes : codes[c].usedBy # None => codes[c].owner \in Users

MessagesWritten ==
  \A u \in Updates :
    /\ updates[u].row # "none" => updates[u].chat \in Chats
    /\ updates[u].say = "start" => updates[u].code \in Codes
    /\ updates[u].code \in Codes => codes[updates[u].code].owner \in Users

\* Whoever looks for the thread of a message that has none yet finds none.
Threadless(u) ==
  \/ updates[u].row = "none"
  \/ \E r \in Requests : req[r].update = u /\ req[r].pc \in {"received", "thread"}
ThreadsComeOnce ==
  \A u \in Updates : Threadless(u) =>
    /\ threads[u] = None
    /\ \A l \in LinkIds : links[l].thread # u
    /\ \A r \in Requests : Working(r) => req[r].thread # u

LinksLeadHome ==
  \A l \in LinkIds : links[l].thread # None =>
    links[l].thread \in Updates /\ threads[links[l].thread] = links[l].user

TurnsOnce ==
  \A u \in Updates :
    /\ turns[u].n \in {0, 1}
    /\ turns[u].n = 1 =>
         /\ updates[u].row # "none"
         /\ \E c \in Codes : codes[c].owner = turns[u].user /\ codes[c].usedBy = updates[u].chat

RequestInv(r) ==
  /\ AtItsMessage(r) /\ HasItsCode(r) /\ ForItsLink(r) /\ InItsThread(r)
  /\ BeforeItsTurn(r) /\ KnowsTheRevoked(r)

IInv ==
  /\ TypeOK /\ \A r \in Requests : RequestInv(r)
  /\ Apart /\ LinksAreSealed /\ SpentWereMinted /\ MessagesWritten /\ ThreadsComeOnce /\ LinksLeadHome
  /\ TurnsOnce /\ OneAccountPerChat

----------------------------------------------------------------------------
(* Requests beside each other.                                             *)

\* What a step of another request leaves of what this one relies on.
Kept(s) ==
  /\ req'[s] = req[s]
  /\ \A u \in Updates : updates[u].row # "none" =>
       updates'[u].row # "none" /\ updates'[u].chat = updates[u].chat
         /\ updates'[u].say = updates[u].say
  /\ \A c \in Codes : codes[c].usedBy # None =>
       codes'[c].owner = codes[c].owner /\ codes'[c].usedBy = codes[c].usedBy
         /\ codes'[c].dead = codes[c].dead
  /\ \A l \in LinkIds :
       IF links[l].by # None
         THEN /\ links'[l].by = links[l].by /\ links'[l].user = links[l].user
              /\ links'[l].chat = links[l].chat
              /\ links[l].active = FALSE => links'[l].active = FALSE
         ELSE Taken(s) => links'[l].by # req[s].code
  /\ \A t \in Updates : Working(s) /\ req[s].thread = t => threads'[t] \in {threads[t], None}
  /\ \A u \in Updates : req[s].update = u => turns'[u].n = turns[u].n

LEMMA OthersKeep ==
  ASSUME IInv, NEW s \in Requests, Kept(s)
  PROVE  RequestInv(s)'
<1>1. RequestInv(s)
  BY DEF IInv
<1>2. AtItsMessage(s)'
  BY <1>1 DEF RequestInv, AtItsMessage, Kept, ChatOf
<1>3. HasItsCode(s)'
  <2>1. Taken(s) => req[s].update \in Updates /\ updates[req[s].update].row # "none" /\ ChatOf(s) \in Chats
    BY <1>1 DEF RequestInv, AtItsMessage, Taken
  <2> QED  BY <1>1, <2>1, NoneAssumption DEF RequestInv, HasItsCode, Taken, Kept, ChatOf
<1>4. ForItsLink(s)'
  <2>1. Working(s) => req[s].update \in Updates /\ updates[req[s].update].row # "none"
    BY <1>1 DEF RequestInv, AtItsMessage, Working
  <2> QED  BY <1>1, <2>1 DEF RequestInv, ForItsLink, Working, Kept, ChatOf
<1>5. InItsThread(s)'
  BY <1>1 DEF RequestInv, InItsThread, Working, Kept
<1>6. BeforeItsTurn(s)'
  BY <1>1 DEF RequestInv, AtItsMessage, BeforeItsTurn, Kept
<1>7. KnowsTheRevoked(s)'
  BY <1>1 DEF RequestInv, KnowsTheRevoked, Kept
<1> QED  BY <1>2, <1>3, <1>4, <1>5, <1>6, <1>7 DEF RequestInv

\* The outcome of a message that is claimed already.
Recorded ==
  /\ updates' \in [Updates -> Update]
  /\ \A u \in Updates :
       updates'[u] = updates[u] \/ (/\ updates[u].row # "none" /\ updates'[u].row # "none"
                                    /\ updates'[u].chat = updates[u].chat
                                    /\ updates'[u].say = updates[u].say
                                    /\ updates'[u].code = updates[u].code)

\* A request that only moves on.
LEMMA OnlyMoves ==
  ASSUME IInv, NEW r \in Requests, NEW q \in Request, req' = [req EXCEPT ![r] = q],
         UNCHANGED <<codes, links, threads, turns>>, deaths' \in Nat, Recorded,
         q.update \in {req[r].update, None},
         q.pc \in {"taken", "insert"} => Taken(r) /\ q.code = req[r].code,
         q.pc \in {"received", "thread"} => req[r].pc \in {"received", "thread"} /\ q.update = req[r].update,
         q.pc \in {"thread", "bind", "turn", "reply"} =>
           \/ q.thread = None
           \/ Working(r) /\ q.thread = req[r].thread
           \/ \E l \in LinkIds : q.thread = links[l].thread,
         RequestInv(r)'
  PROVE  IInv'
<1>1. /\ req' \in [Requests -> Request] /\ req'[r] = q
      /\ \A s \in Requests \ {r} : req'[s] = req[s]
  BY DEF IInv, TypeOK
<1>2. TypeOK'
  BY <1>1 DEF IInv, TypeOK, Recorded
<1>3. \A s \in Requests : RequestInv(s)'
  <2>1. \A s \in Requests \ {r} : Kept(s)
    <3> SUFFICES ASSUME NEW s \in Requests \ {r} PROVE Kept(s)
      OBVIOUS
    <3>1. Taken(s) => \A l \in LinkIds : links[l].by # req[s].code
      BY DEF IInv, RequestInv, HasItsCode
    <3> QED  BY <1>1, <3>1 DEF Kept, Recorded
  <2> QED  BY <2>1, OthersKeep
<1>4. Apart'
  BY <1>1 DEF IInv, Apart, Taken
<1>5. LinksAreSealed' /\ LinksLeadHome' /\ OneAccountPerChat'
  BY DEF IInv, LinksAreSealed, LinksLeadHome, OneAccountPerChat
<1>6. MessagesWritten' /\ TurnsOnce'
  BY DEF IInv, MessagesWritten, TurnsOnce, Recorded
<1>8. SpentWereMinted'
  BY DEF IInv, SpentWereMinted
<1>7. ThreadsComeOnce'
  <2> SUFFICES ASSUME NEW u \in Updates, Threadless(u)'
               PROVE  /\ threads[u] = None /\ \A l \in LinkIds : links[l].thread # u
                      /\ \A s \in Requests : Working(s)' => req'[s].thread # u
    BY DEF ThreadsComeOnce
  <2>1. Threadless(u)
    BY <1>1 DEF Threadless, Recorded
  <2>2. /\ threads[u] = None /\ \A l \in LinkIds : links[l].thread # u
        /\ \A s \in Requests : Working(s) => req[s].thread # u
    BY <2>1 DEF IInv, ThreadsComeOnce
  <2> QED  BY <1>1, <2>2, NoneAssumption DEF Working
<1> QED  BY <1>2, <1>3, <1>4, <1>5, <1>6, <1>7, <1>8 DEF IInv

\* A request that has nothing left to do but to answer, or nothing at all.
LEMMA OnlyEnds ==
  ASSUME IInv, NEW r \in Requests, End(r),
         UNCHANGED <<codes, links, threads, turns>>, deaths' \in Nat, Recorded
  PROVE  IInv'
<1>1. /\ Idle \in Request /\ Idle.pc = "idle" /\ Idle.update = None
      /\ \A l \in LinkIds : l \notin Idle.revoked
  BY DEF Idle, Request, Outcomes
<1>2. req' = [req EXCEPT ![r] = Idle] /\ req'[r] = Idle
  BY DEF End, IInv, TypeOK
<1>3. RequestInv(r)'
  BY <1>1, <1>2 DEF RequestInv, AtItsMessage, HasItsCode, Taken, ForItsLink, Working, InItsThread,
     BeforeItsTurn, KnowsTheRevoked
<1> QED  BY <1>1, <1>2, <1>3, OnlyMoves

LEMMA OnlyTells ==
  ASSUME IInv, NEW r \in Requests, req[r].update # None,
         NEW q \in Request, req' = [req EXCEPT ![r] = q],
         q.pc \in {"send", "dead"}, q.update = req[r].update, q.revoked = req[r].revoked,
         UNCHANGED <<codes, links, threads, updates, turns, deaths>>
  PROVE  IInv'
<1>1. req'[r] = q
  BY DEF IInv, TypeOK
<1>2. RequestInv(r)
  BY DEF IInv
<1>3. RequestInv(r)'
  BY <1>1, <1>2 DEF RequestInv, AtItsMessage, HasItsCode, Taken, ForItsLink, Working, InItsThread,
     BeforeItsTurn, KnowsTheRevoked, ChatOf
<1>4. Recorded /\ deaths' \in Nat
  BY DEF Recorded, IInv, TypeOK
<1> QED  BY <1>3, <1>4, OnlyMoves

----------------------------------------------------------------------------
(* Steps of one request alone.                                             *)

LEMMA MintNoCodeStep ==
  ASSUME IInv, NEW r \in Requests, MintNoCode(r)
  PROVE  IInv'
<1>1. Recorded /\ deaths' \in Nat
  BY DEF MintNoCode, Recorded, IInv, TypeOK
<1> QED  BY <1>1, OnlyEnds DEF MintNoCode

LEMMA NotSentStep ==
  ASSUME IInv, NEW r \in Requests, NotSent(r)
  PROVE  IInv'
<1>1. Recorded /\ deaths' \in Nat
  BY DEF NotSent, Recorded, IInv, TypeOK
<1> QED  BY <1>1, OnlyEnds DEF NotSent

LEMMA DieStep ==
  ASSUME IInv, NEW r \in Requests, Die(r)
  PROVE  IInv'
<1>1. Recorded /\ deaths' \in Nat
  BY DEF Die, Recorded, IInv, TypeOK
<1> QED  BY <1>1, OnlyEnds DEF Die

\* finish writes the outcome of the message in hand.
LEMMA FinishRecords ==
  ASSUME IInv, NEW r \in Requests, req[r].update # None, NEW outcome \in Outcomes, Finish(r, outcome)
  PROVE  Recorded
<1>1. req[r].update \in Updates /\ updates[req[r].update].row # "none"
  BY DEF IInv, RequestInv, AtItsMessage
<1>2. outcome # "none"
  BY DEF Outcomes
<1> QED  BY <1>1, <1>2 DEF Finish, Recorded, IInv, TypeOK, Update

LEMMA OverLimitStep ==
  ASSUME IInv, NEW r \in Requests, OverLimit(r)
  PROVE  IInv'
<1>1. req[r].update # None
  BY DEF OverLimit, IInv, RequestInv, AtItsMessage
<1>2. Recorded
  BY <1>1, FinishRecords DEF OverLimit, Outcomes
<1> QED  BY <1>2, OnlyEnds DEF OverLimit, Finish, IInv, TypeOK

LEMMA SentStep ==
  ASSUME IInv, NEW r \in Requests, Sent(r)
  PROVE  IInv'
<1>1. req[r].update # None /\ req[r].outcome \in Outcomes
  BY DEF Sent, IInv, RequestInv, AtItsMessage, TypeOK, Request
<1>2. Recorded
  BY <1>1, FinishRecords DEF Sent
<1> QED  BY <1>2, OnlyEnds DEF Sent, Finish, IInv, TypeOK

\* A request that answers next.
LEMMA SendTells ==
  ASSUME IInv, NEW r \in Requests, req[r].update # None, NEW outcome \in Outcomes, Send(r, outcome),
         UNCHANGED <<codes, links, threads, updates, turns, deaths>>
  PROVE  IInv'
<1> DEFINE q == [req[r] EXCEPT !.pc = "send", !.outcome = outcome]
<1>1. req' = [req EXCEPT ![r] = q]
  BY DEF Send, IInv, TypeOK
<1>2. q \in Request /\ q.pc = "send" /\ q.update = req[r].update /\ q.revoked = req[r].revoked
  BY DEF IInv, TypeOK, Request
<1> HIDE DEF q
<1> QED  BY <1>1, <1>2, OnlyTells

LEMMA ReplyStep ==
  ASSUME IInv, NEW r \in Requests, NEW outcome \in {"accepted", "refused", "failed"}, Reply(r, outcome)
  PROVE  IInv'
<1>1. req[r].update # None /\ outcome \in Outcomes
  BY DEF Reply, IInv, RequestInv, AtItsMessage, Outcomes
<1>2. Recorded /\ deaths' \in Nat
  BY DEF Reply, Recorded, IInv, TypeOK
<1> QED  BY <1>1, <1>2, SendTells, OnlyEnds DEF Reply

LEMMA ChatDeadStep ==
  ASSUME IInv, NEW r \in Requests, ChatDead(r)
  PROVE  IInv'
<1> DEFINE q == [req[r] EXCEPT !.pc = "dead"]
<1>1. req' = [req EXCEPT ![r] = q]
  BY DEF ChatDead, Go, IInv, TypeOK
<1>2. q \in Request /\ q.pc = "dead" /\ q.update = req[r].update /\ q.revoked = req[r].revoked
  BY DEF IInv, TypeOK, Request
<1>3. req[r].update # None
  BY DEF ChatDead, IInv, RequestInv, AtItsMessage
<1> HIDE DEF q
<1> QED  BY <1>1, <1>2, <1>3, OnlyTells DEF ChatDead

LEMMA UnlinkBeginStep ==
  ASSUME IInv, NEW r \in Requests, NEW l \in LinkIds, UnlinkBegin(r, l)
  PROVE  IInv'
<1> DEFINE q == [Idle EXCEPT !.pc = "unlink", !.user = links[l].user, !.link = l]
<1>1. req' = [req EXCEPT ![r] = q]
  BY DEF UnlinkBegin
<1>2. /\ q \in Request /\ q.pc = "unlink" /\ q.update = None /\ q.user = links[l].user
      /\ q.link = l /\ q.revoked = {}
  BY DEF IInv, TypeOK, Request, Idle, Link, Outcomes
<1>3. links[l].by # None
  BY DEF IInv, LinksAreSealed, NoLink, UnlinkBegin
<1> HIDE DEF q
<1>4. req'[r] = q
  BY <1>1 DEF IInv, TypeOK
<1>5. RequestInv(r)'
  BY <1>2, <1>3, <1>4 DEF RequestInv, AtItsMessage, HasItsCode, Taken, ForItsLink, Working, InItsThread,
     BeforeItsTurn, KnowsTheRevoked, UnlinkBegin
<1>6. Recorded /\ deaths' \in Nat
  BY DEF UnlinkBegin, Recorded, IInv, TypeOK
<1> QED  BY <1>1, <1>2, <1>5, <1>6, OnlyMoves DEF UnlinkBegin

\* The request goes on with the link of its chat.
LEMMA BoundStep ==
  ASSUME IInv, NEW r \in Requests, req[r].pc = "received", NEW l \in Linked(ChatOf(r)),
         NEW pc \in {"unlink", "thread"},
         req' = [req EXCEPT ![r].pc = pc, ![r].link = l, ![r].user = links[l].user,
                            ![r].thread = links[l].thread],
         UNCHANGED <<codes, links, threads, updates, turns, deaths>>
  PROVE  IInv'
<1> DEFINE q == [req[r] EXCEPT !.pc = pc, !.link = l, !.user = links[l].user, !.thread = links[l].thread]
<1>1. l \in LinkIds /\ links[l].active /\ links[l].chat = ChatOf(r)
  BY DEF Linked
<1>2. req' = [req EXCEPT ![r] = q]
  BY DEF IInv, TypeOK
<1>3. /\ q \in Request /\ q.pc = pc /\ q.update = req[r].update /\ q.user = links[l].user
      /\ q.link = l /\ q.thread = links[l].thread /\ q.revoked = req[r].revoked
  BY <1>1 DEF IInv, TypeOK, Request, Link
<1>4. links[l].by # None
  BY <1>1 DEF IInv, LinksAreSealed, NoLink
<1> HIDE DEF q
<1>5. req'[r] = q
  BY <1>2 DEF IInv, TypeOK
<1>6. RequestInv(r)
  BY DEF IInv
<1>7. AtItsMessage(r)' /\ HasItsCode(r)' /\ BeforeItsTurn(r)' /\ KnowsTheRevoked(r)'
  BY <1>3, <1>5, <1>6 DEF RequestInv, AtItsMessage, HasItsCode, Taken, BeforeItsTurn, KnowsTheRevoked, ChatOf
<1>8. ForItsLink(r)'
  BY <1>1, <1>3, <1>4, <1>5, <1>6 DEF RequestInv, ForItsLink, Working, KnowsTheRevoked, ChatOf
<1>9. InItsThread(r)'
  BY <1>1, <1>3, <1>5 DEF IInv, LinksLeadHome, InItsThread, Working
<1>10. Recorded /\ deaths' \in Nat
  BY DEF Recorded, IInv, TypeOK
<1>11. RequestInv(r)'
  BY <1>7, <1>8, <1>9 DEF RequestInv
<1> QED  BY <1>1, <1>2, <1>3, <1>10, <1>11, OnlyMoves

\* A request that only changes its place, where nothing more is asked of it.
LEMMA GoMoves ==
  ASSUME IInv, NEW r \in Requests,
         NEW pc \in {"redeem", "insert", "turn"}, Go(r, pc),
         pc = "redeem" => req[r].pc = "received" /\ updates[req[r].update].say = "start",
         pc = "insert" => req[r].pc = "taken",
         pc = "turn" => req[r].pc = "thread" /\ req[r].thread # None,
         UNCHANGED <<codes, links, threads, updates, turns, deaths>>
  PROVE  IInv'
<1> DEFINE q == [req[r] EXCEPT !.pc = pc]
<1>1. req' = [req EXCEPT ![r] = q]
  BY DEF Go, IInv, TypeOK
<1>2. /\ q \in Request /\ q.pc = pc /\ q.update = req[r].update /\ q.user = req[r].user
      /\ q.link = req[r].link /\ q.thread = req[r].thread /\ q.code = req[r].code
      /\ q.revoked = req[r].revoked
  BY DEF IInv, TypeOK, Request
<1> HIDE DEF q
<1>3. req'[r] = q
  BY <1>1 DEF IInv, TypeOK
<1>4. RequestInv(r)
  BY DEF IInv
<1>5. AtItsMessage(r)' /\ HasItsCode(r)' /\ KnowsTheRevoked(r)'
  BY <1>2, <1>3, <1>4 DEF RequestInv, AtItsMessage, HasItsCode, Taken, KnowsTheRevoked, ChatOf
<1>6. ForItsLink(r)' /\ InItsThread(r)' /\ BeforeItsTurn(r)'
  BY <1>2, <1>3, <1>4 DEF RequestInv, ForItsLink, InItsThread, Working, BeforeItsTurn, ChatOf
<1>7. RequestInv(r)'
  BY <1>5, <1>6 DEF RequestInv
<1>8. Recorded /\ deaths' \in Nat
  BY DEF Recorded, IInv, TypeOK
<1> QED  BY <1>1, <1>2, <1>7, <1>8, OnlyMoves DEF Taken, Working

LEMMA IdentifyStep ==
  ASSUME IInv, NEW r \in Requests, Identify(r)
  PROVE  IInv'
<1>1. req[r].pc = "received" /\ UNCHANGED <<codes, links, threads, updates, turns, deaths>>
  BY DEF Identify
<1>2. req[r].update # None
  BY <1>1 DEF IInv, RequestInv, AtItsMessage
<1>3. CASE \E o \in {"accepted", "refused", "unlinked"} : Send(r, o)
  BY <1>1, <1>2, <1>3, SendTells DEF Outcomes
<1>4. CASE updates[req[r].update].say = "start" /\ Go(r, "redeem")
  BY <1>1, <1>4, GoMoves
<1>5. CASE \E l \in Linked(ChatOf(r)), pc \in {"unlink", "thread"} :
             req' = [req EXCEPT ![r].pc = pc, ![r].link = l, ![r].user = links[l].user,
                                ![r].thread = links[l].thread]
  BY <1>1, <1>5, BoundStep
<1> QED  BY <1>3, <1>4, <1>5 DEF Identify, Resolve

LEMMA LookForLinkStep ==
  ASSUME IInv, NEW r \in Requests, LookForLink(r)
  PROVE  IInv'
<1>1. req[r].pc = "taken" /\ UNCHANGED <<codes, links, threads, updates, turns, deaths>>
  BY DEF LookForLink
<1>2. req[r].update # None
  BY <1>1 DEF IInv, RequestInv, AtItsMessage
<1>3. CASE \E o \in {"accepted", "refused"} : Send(r, o)
  BY <1>1, <1>2, <1>3, SendTells DEF Outcomes
<1>4. CASE Go(r, "insert")
  BY <1>1, <1>4, GoMoves
<1> QED  BY <1>3, <1>4 DEF LookForLink

----------------------------------------------------------------------------
(* Steps on codes.                                                         *)

\* The request r moves on to q, the others stay.
Moves(r, q) ==
  /\ q \in Request /\ req' \in [Requests -> Request] /\ req'[r] = q
  /\ \A s \in Requests \ {r} : req'[s] = req[s]

LEMMA MovesOn ==
  ASSUME TypeOK, NEW r \in Requests, NEW q \in Request, req' = [req EXCEPT ![r] = q]
  PROVE  Moves(r, q)
BY DEF TypeOK, Moves

LEMMA AllKeep ==
  ASSUME IInv, NEW r \in Requests, RequestInv(r)', \A s \in Requests \ {r} : Kept(s)
  PROVE  \A s \in Requests : RequestInv(s)'
BY OthersKeep

LEMMA StaysApart ==
  ASSUME IInv, NEW r \in Requests, NEW q, Moves(r, q),
         \/ q.update \in {req[r].update, None}
         \/ \A s \in Requests : req[s].update # q.update,
         q.pc \in {"taken", "insert"} =>
           \/ Taken(r) /\ q.code = req[r].code
           \/ \A s \in Requests : Taken(s) => req[s].code # q.code
  PROVE  Apart'
BY DEF IInv, Apart, Taken, Moves

\* No message comes to lack its thread, and nobody comes to hold one.
LEMMA ThreadsStay ==
  ASSUME IInv, NEW r \in Requests, NEW q, Moves(r, q), UNCHANGED <<links, threads>>,
         \A u \in Updates : updates'[u].row = "none" => updates[u].row = "none",
         q.pc \in {"received", "thread"} => q.update \notin Updates \/ Threadless(q.update),
         q.pc \in {"thread", "bind", "turn", "reply"} =>
           \/ q.thread = None
           \/ Working(r) /\ q.thread = req[r].thread
  PROVE  ThreadsComeOnce'
<1> SUFFICES ASSUME NEW u \in Updates, Threadless(u)'
             PROVE  /\ threads[u] = None /\ \A l \in LinkIds : links[l].thread # u
                    /\ \A s \in Requests : Working(s)' => req'[s].thread # u
  BY DEF ThreadsComeOnce
<1>1. Threadless(u)
  BY DEF Threadless, Moves
<1>2. /\ threads[u] = None /\ \A l \in LinkIds : links[l].thread # u
      /\ \A s \in Requests : Working(s) => req[s].thread # u
  BY <1>1 DEF IInv, ThreadsComeOnce
<1> QED  BY <1>2, NoneAssumption DEF Working, Moves

\* Codes change their owner once, and not at all when they are spent.
SpentCodesStay ==
  /\ codes' \in [Codes -> Code]
  /\ \A c \in Codes :
       /\ codes[c].usedBy # None =>
            codes'[c].owner = codes[c].owner /\ codes'[c].usedBy = codes[c].usedBy
              /\ codes'[c].dead = codes[c].dead
       /\ codes[c].owner \in Users => codes'[c].owner = codes[c].owner
       /\ codes'[c].usedBy # codes[c].usedBy => codes'[c].owner \in Users

LEMMA CodesMove ==
  ASSUME IInv, SpentCodesStay, UNCHANGED <<links, threads, updates, turns>>
  PROVE  /\ LinksAreSealed' /\ SpentWereMinted' /\ MessagesWritten' /\ LinksLeadHome' /\ TurnsOnce' /\ OneAccountPerChat'
<1>1. LinksAreSealed'
  BY NoneAssumption DEF IInv, LinksAreSealed, SpentCodesStay
<1>2. MessagesWritten' /\ LinksLeadHome' /\ OneAccountPerChat'
  BY DEF IInv, MessagesWritten, LinksLeadHome, OneAccountPerChat, SpentCodesStay
<1>3. TurnsOnce'
  <2>1. \A u \in Updates : updates[u].row # "none" => updates[u].chat # None
    BY NoneAssumption DEF IInv, MessagesWritten
  <2> QED  BY <2>1 DEF IInv, TurnsOnce, SpentCodesStay
<1>4. SpentWereMinted'
  BY DEF IInv, SpentWereMinted, SpentCodesStay
<1> QED  BY <1>1, <1>2, <1>3, <1>4

LEMMA CodesStep ==
  ASSUME IInv, SpentCodesStay, UNCHANGED <<links, threads, updates, turns, deaths>>,
         NEW r \in Requests, NEW q \in Request, req' = [req EXCEPT ![r] = q],
         q.update \in {req[r].update, None}, q.pc \notin {"received", "thread", "bind", "turn", "reply"},
         q.pc \in {"taken", "insert"} => \A s \in Requests : Taken(s) => req[s].code # q.code,
         RequestInv(r)'
  PROVE  IInv'
<1>1. Moves(r, q)
  BY MovesOn DEF IInv
<1>2. TypeOK'
  BY <1>1 DEF IInv, TypeOK, SpentCodesStay, Moves
<1>3. \A s \in Requests : RequestInv(s)'
  <2>1. \A s \in Requests : Taken(s) => \A l \in LinkIds : links[l].by # req[s].code
    BY DEF IInv, RequestInv, HasItsCode
  <2>2. \A s \in Requests \ {r} : Kept(s)
    BY <1>1, <2>1 DEF Kept, SpentCodesStay, Moves
  <2> QED  BY <2>2, AllKeep
<1>4. Apart' /\ ThreadsComeOnce'
  BY <1>1, StaysApart, ThreadsStay
<1> QED  BY <1>2, <1>3, <1>4, CodesMove DEF IInv

LEMMA InvalidatedStay ==
  ASSUME TypeOK, NEW u, Invalidated(u)
  PROVE  SpentCodesStay
BY DEF Invalidated, SpentCodesStay, TypeOK, Code

LEMMA MintBeginStep ==
  ASSUME IInv, NEW r \in Requests, NEW u \in Users, MintBegin(r, u)
  PROVE  IInv'
<1> DEFINE q == [Idle EXCEPT !.pc = "mint", !.user = u]
<1>1. /\ q \in Request /\ q.pc = "mint" /\ q.update = None /\ q.revoked = {}
  BY DEF Request, Idle, Outcomes
<1>2. req' = [req EXCEPT ![r] = q]
  BY DEF MintBegin
<1> HIDE DEF q
<1>3. RequestInv(r)'
  BY <1>1, <1>2, MovesOn DEF Moves, IInv, RequestInv, AtItsMessage, HasItsCode, Taken, ForItsLink, Working,
     InItsThread, BeforeItsTurn, KnowsTheRevoked
<1>4. SpentCodesStay
  BY InvalidatedStay DEF MintBegin, IInv
<1> QED  BY <1>1, <1>2, <1>3, <1>4, CodesStep DEF MintBegin

\* A request that ends, having changed codes.
LEMMA EndsWithCodes ==
  ASSUME IInv, SpentCodesStay, UNCHANGED <<links, threads, updates, turns, deaths>>,
         NEW r \in Requests, End(r)
  PROVE  IInv'
<1>1. /\ Idle \in Request /\ Idle.pc = "idle" /\ Idle.update = None /\ Idle.revoked = {}
  BY DEF Request, Idle, Outcomes
<1>2. req' = [req EXCEPT ![r] = Idle]
  BY DEF End
<1>3. RequestInv(r)'
  BY <1>1, <1>2, MovesOn DEF Moves, IInv, RequestInv, AtItsMessage, HasItsCode, Taken, ForItsLink, Working,
     InItsThread, BeforeItsTurn, KnowsTheRevoked
<1> QED  BY <1>1, <1>2, <1>3, CodesStep

LEMMA MintInsertStep ==
  ASSUME IInv, NEW r \in Requests, NEW c \in Codes, MintInsert(r, c)
  PROVE  IInv'
<1>1. codes' = [codes EXCEPT ![c].owner = req[r].user] /\ codes[c].owner = None
  BY DEF MintInsert
<1>2. req[r].user \in Users \cup {None}
  BY DEF IInv, TypeOK, Request
<1>3. codes[c].usedBy = None
  BY <1>1, NoneAssumption DEF IInv, SpentWereMinted
<1>4. SpentCodesStay
  BY <1>1, <1>2, <1>3, NoneAssumption DEF SpentCodesStay, IInv, TypeOK, Code
<1> QED  BY <1>4, EndsWithCodes DEF MintInsert

LEMMA UnlinkCodesStep ==
  ASSUME IInv, NEW r \in Requests, UnlinkCodes(r)
  PROVE  IInv'
<1>1. SpentCodesStay
  BY InvalidatedStay DEF UnlinkCodes, IInv
<1>2. CASE req[r].update = None
  BY <1>1, <1>2, EndsWithCodes DEF UnlinkCodes
<1>3. CASE req[r].update # None
  <2> DEFINE q == [req[r] EXCEPT !.pc = "send"]
  <2>1. req' = [req EXCEPT ![r] = q]
    BY <1>3 DEF UnlinkCodes, Go, IInv, TypeOK
  <2>2. q \in Request /\ q.pc = "send" /\ q.update = req[r].update /\ q.revoked = req[r].revoked
    BY DEF IInv, TypeOK, Request
  <2> HIDE DEF q
  <2>3. RequestInv(r)
    BY DEF IInv
  <2>4. RequestInv(r)'
    BY <2>1, <2>2, <2>3, <1>3, MovesOn DEF UnlinkCodes, Moves, IInv, RequestInv, AtItsMessage, HasItsCode, Taken,
       ForItsLink, Working, InItsThread, BeforeItsTurn, KnowsTheRevoked, ChatOf
  <2> QED  BY <1>1, <2>1, <2>2, <2>4, CodesStep DEF UnlinkCodes
<1> QED  BY <1>2, <1>3

LEMMA RedeemStep ==
  ASSUME IInv, NEW r \in Requests, Redeem(r)
  PROVE  IInv'
<1> DEFINE c == updates[req[r].update].code
<1>1. /\ req[r].pc = "redeem" /\ req[r].update # None /\ req[r].update \in Updates
      /\ updates[req[r].update].say = "start" /\ ChatOf(r) \in Chats
      /\ UNCHANGED <<links, threads, updates, turns, deaths>>
  BY DEF Redeem, IInv, RequestInv, AtItsMessage
<1>2. c \in Codes /\ codes[c].owner \in Users
  BY <1>1 DEF IInv, MessagesWritten
<1>3. CASE ~Redeemable(c)
  BY <1>1, <1>3, SendTells DEF Redeem, Outcomes
<1>4. CASE Redeemable(c)
  <2> DEFINE q == [req[r] EXCEPT !.pc = "taken", !.code = c, !.user = codes[c].owner]
  <2>1. codes' = [codes EXCEPT ![c].usedBy = ChatOf(r)] /\ codes[c].usedBy = None /\ codes[c].dead = FALSE
    BY <1>2, <1>4 DEF Redeem, Redeemable, IInv, TypeOK, Code
  <2>2. req' = [req EXCEPT ![r] = q]
    BY <1>4 DEF Redeem, IInv, TypeOK
  <2>3. /\ q \in Request /\ q.pc = "taken" /\ q.update = req[r].update /\ q.code = c
        /\ q.user = codes[c].owner /\ q.revoked = req[r].revoked
    BY <1>2 DEF IInv, TypeOK, Request
  <2> HIDE DEF q, c
  <2>4. /\ codes' \in [Codes -> Code] /\ codes'[c].usedBy = ChatOf(r) /\ codes'[c].dead = FALSE
        /\ codes'[c].owner = codes[c].owner
        /\ \A d \in Codes \ {c} : codes'[d] = codes[d]
    BY <1>1, <1>2, <2>1 DEF IInv, TypeOK, Code
  <2>5. SpentCodesStay
    BY <1>2, <2>1, <2>4 DEF SpentCodesStay
  <2>6. \A l \in LinkIds : links[l].by # c
    BY <1>2, <2>1, NoneAssumption DEF IInv, LinksAreSealed
  <2>7. \A s \in Requests : Taken(s) => req[s].code # c
    <3>1. \A s \in Requests : Taken(s) => codes[req[s].code].usedBy \in Chats
      BY DEF IInv, RequestInv, HasItsCode, AtItsMessage, Taken
    <3> QED  BY <2>1, <3>1, NoneAssumption
  <2>8. RequestInv(r)
    BY DEF IInv
  <2>9. req'[r] = q
    BY <2>2 DEF IInv, TypeOK
  <2>10. AtItsMessage(r)' /\ KnowsTheRevoked(r)'
    BY <1>1, <2>3, <2>8, <2>9 DEF RequestInv, AtItsMessage, KnowsTheRevoked, ChatOf
  <2>11. HasItsCode(r)'
    BY <1>1, <1>2, <2>3, <2>4, <2>6, <2>9 DEF HasItsCode, ChatOf
  <2>12. ForItsLink(r)' /\ InItsThread(r)' /\ BeforeItsTurn(r)'
    BY <2>3, <2>9 DEF ForItsLink, InItsThread, BeforeItsTurn, Working
  <2>13. RequestInv(r)'
    BY <2>10, <2>11, <2>12 DEF RequestInv
  <2> QED  BY <1>1, <2>2, <2>3, <2>5, <2>7, <2>13, CodesStep
<1> QED  BY <1>3, <1>4

LEMMA ExpireStep ==
  ASSUME IInv, NEW c \in Codes, Expire(c)
  PROVE  IInv'
<1>1. SpentCodesStay
  BY DEF Expire, SpentCodesStay, IInv, TypeOK, Code
<1>2. TypeOK'
  BY <1>1 DEF Expire, IInv, TypeOK, SpentCodesStay
<1>3. \A s \in Requests : RequestInv(s)'
  <2>1. \A s \in Requests : Taken(s) => \A l \in LinkIds : links[l].by # req[s].code
    BY DEF IInv, RequestInv, HasItsCode
  <2>2. \A s \in Requests : Kept(s)
    BY <1>1, <2>1 DEF Kept, SpentCodesStay, Expire
  <2> QED  BY <2>2, OthersKeep
<1>4. Apart' /\ ThreadsComeOnce'
  BY DEF Expire, IInv, Apart, Taken, ThreadsComeOnce, Threadless, Working
<1>5. LinksAreSealed' /\ SpentWereMinted' /\ MessagesWritten' /\ LinksLeadHome' /\ TurnsOnce' /\ OneAccountPerChat'
  BY <1>1, CodesMove DEF Expire
<1> QED  BY <1>2, <1>3, <1>4, <1>5 DEF IInv

----------------------------------------------------------------------------
(* Steps on links and threads.                                             *)

\* Links that are there stay what they are, and none comes back to life.
SealedStay ==
  /\ links' \in [LinkIds -> Link]
  /\ \A l \in LinkIds :
       IF links[l].by # None
         THEN /\ links'[l].by = links[l].by /\ links'[l].user = links[l].user
              /\ links'[l].chat = links[l].chat
              /\ links[l].active = FALSE => links'[l].active = FALSE
         ELSE links'[l] = links[l]

LEMMA LinksMove ==
  ASSUME IInv, SealedStay, UNCHANGED <<codes, updates, turns>>
  PROVE  LinksAreSealed' /\ SpentWereMinted' /\ MessagesWritten' /\ TurnsOnce' /\ OneAccountPerChat'
<1>1. LinksAreSealed'
  BY DEF IInv, LinksAreSealed, SealedStay
<1>2. SpentWereMinted' /\ MessagesWritten' /\ TurnsOnce'
  BY DEF IInv, SpentWereMinted, MessagesWritten, TurnsOnce
<1>3. OneAccountPerChat'
  <2> SUFFICES ASSUME NEW l \in LinkIds, NEW k \in LinkIds,
                      links'[l].active, links'[k].active, links'[l].chat = links'[k].chat
               PROVE  l = k
    BY DEF OneAccountPerChat
  <2>1. \A j \in {l, k} : links[j].active /\ links'[j].chat = links[j].chat
    BY DEF SealedStay, IInv, TypeOK, Link
  <2> QED  BY <2>1 DEF IInv, OneAccountPerChat
<1> QED  BY <1>1, <1>2, <1>3

\* With a request that moves on beside it, whose thread no step here is about.
LEMMA LinksStep ==
  ASSUME IInv, SealedStay, UNCHANGED <<codes, threads, updates, turns, deaths>>,
         \A l \in LinkIds : links'[l].thread = links[l].thread,
         NEW r \in Requests, NEW q \in Request, req' = [req EXCEPT ![r] = q],
         q.update \in {req[r].update, None}, q.pc \in {"idle", "codes"},
         RequestInv(r)'
  PROVE  IInv'
<1>1. Moves(r, q)
  BY MovesOn DEF IInv
<1>2. TypeOK'
  BY <1>1 DEF IInv, TypeOK, SealedStay, Moves
<1>3. \A s \in Requests : RequestInv(s)'
  <2>1. \A s \in Requests : Taken(s) => \A l \in LinkIds : links[l].by # req[s].code
    BY DEF IInv, RequestInv, HasItsCode
  <2>2. \A s \in Requests \ {r} : Kept(s)
    BY <1>1, <2>1 DEF Kept, SealedStay, Moves
  <2> QED  BY <2>2, AllKeep
<1>4. Apart'
  BY <1>1, StaysApart
<1>5. ThreadsComeOnce'
  BY <1>1 DEF IInv, ThreadsComeOnce, Threadless, Working, Moves
<1>6. LinksLeadHome'
  BY DEF IInv, LinksLeadHome, SealedStay, LinksAreSealed, NoLink
<1> QED  BY <1>2, <1>3, <1>4, <1>5, <1>6, LinksMove DEF IInv

LEMMA UnlinkLinkStep ==
  ASSUME IInv, NEW r \in Requests, UnlinkLink(r)
  PROVE  IInv'
<1> DEFINE q == [req[r] EXCEPT !.pc = "codes"]
           k == req[r].link
<1>1. req' = [req EXCEPT ![r] = q]
  BY DEF UnlinkLink, Go, IInv, TypeOK
<1>2. /\ q \in Request /\ q.pc = "codes" /\ q.update = req[r].update
      /\ q.revoked = req[r].revoked
  BY DEF IInv, TypeOK, Request
<1>3. RequestInv(r)
  BY DEF IInv
<1>4. k \in LinkIds /\ links[k].by # None /\ links' = [links EXCEPT ![k].active = FALSE]
  BY <1>3 DEF RequestInv, ForItsLink, UnlinkLink
<1> HIDE DEF q, k
<1>5. SealedStay /\ \A l \in LinkIds : links'[l].thread = links[l].thread
  BY <1>4 DEF SealedStay, IInv, TypeOK, Link
<1>6. req'[r] = q
  BY <1>1 DEF IInv, TypeOK
<1>7. AtItsMessage(r)'
  BY <1>2, <1>3, <1>6 DEF RequestInv, AtItsMessage, UnlinkLink, ChatOf
<1>8. HasItsCode(r)' /\ ForItsLink(r)' /\ InItsThread(r)' /\ BeforeItsTurn(r)'
  BY <1>2, <1>6 DEF HasItsCode, Taken, ForItsLink, InItsThread, BeforeItsTurn, Working
<1>9. KnowsTheRevoked(r)'
  BY <1>2, <1>3, <1>5, <1>6 DEF RequestInv, KnowsTheRevoked, SealedStay
<1>10. RequestInv(r)'
  BY <1>7, <1>8, <1>9 DEF RequestInv
<1> QED  BY <1>1, <1>2, <1>5, <1>10, LinksStep DEF UnlinkLink

LEMMA RevokeForDeadChatStep ==
  ASSUME IInv, NEW r \in Requests, RevokeForDeadChat(r)
  PROVE  IInv'
<1>1. /\ Idle \in Request /\ Idle.pc = "idle" /\ Idle.update = None /\ Idle.revoked = {}
  BY DEF Request, Idle, Outcomes
<1>2. req' = [req EXCEPT ![r] = Idle]
  BY DEF RevokeForDeadChat, End
<1>3. RequestInv(r)'
  BY <1>1, <1>2, MovesOn DEF Moves, IInv, RequestInv, AtItsMessage, HasItsCode, Taken, ForItsLink, Working,
     InItsThread, BeforeItsTurn, KnowsTheRevoked
<1>4. \A l \in LinkIds :
        \/ links'[l] = links[l]
        \/ l \in Linked(ChatOf(r)) /\ links'[l] = [links[l] EXCEPT !.active = FALSE]
  BY DEF RevokeForDeadChat
<1>5. links' \in [LinkIds -> Link]
  BY DEF RevokeForDeadChat, IInv, TypeOK, Link
<1>6. \A l \in Linked(ChatOf(r)) : links[l].by # None
  BY DEF Linked, IInv, LinksAreSealed, NoLink
<1>7. SealedStay /\ \A l \in LinkIds : links'[l].thread = links[l].thread
  BY <1>4, <1>5, <1>6 DEF SealedStay, IInv, TypeOK, Link
<1> QED  BY <1>1, <1>2, <1>3, <1>7, LinksStep DEF RevokeForDeadChat

LEMMA InsertLinkStep ==
  ASSUME IInv, NEW r \in Requests, InsertLink(r)
  PROVE  IInv'
<1>1. CASE End(r) /\ UNCHANGED links
  <2>1. Recorded /\ deaths' \in Nat
    BY DEF InsertLink, Recorded, IInv, TypeOK
  <2> QED  BY <1>1, <2>1, OnlyEnds DEF InsertLink
<1>2. ASSUME Linked(ChatOf(r)) = {}, NEW l \in LinkIds, NextLink(l),
             links' = [links EXCEPT ![l] = [user |-> req[r].user, chat |-> ChatOf(r),
                            active |-> TRUE, thread |-> None, by |-> req[r].code]],
             Send(r, "accepted")
      PROVE  IInv'
  <2> DEFINE q == [req[r] EXCEPT !.pc = "send", !.outcome = "accepted"]
             row == [user |-> req[r].user, chat |-> ChatOf(r), active |-> TRUE, thread |-> None,
                     by |-> req[r].code]
  <2>1. req' = [req EXCEPT ![r] = q]
    BY <1>2 DEF Send, IInv, TypeOK
  <2>2. q \in Request /\ q.pc = "send" /\ q.update = req[r].update /\ q.revoked = req[r].revoked
    BY DEF IInv, TypeOK, Request, Outcomes
  <2>3. RequestInv(r) /\ Taken(r) /\ UNCHANGED <<codes, threads, updates, turns, deaths>>
    BY DEF IInv, Taken, InsertLink
  <2>4. HasItsCode(r) /\ ChatOf(r) \in Chats /\ req[r].update # None
    BY <2>3 DEF RequestInv, AtItsMessage, Taken
  <2>5. /\ req[r].code \in Codes /\ req[r].user \in Users /\ codes[req[r].code].owner = req[r].user
        /\ codes[req[r].code].usedBy = ChatOf(r) /\ codes[req[r].code].dead = FALSE
        /\ \A k \in LinkIds : links[k].by # req[r].code
    BY <2>3, <2>4 DEF HasItsCode
  <2>6. /\ row \in Link /\ row.user = req[r].user /\ row.chat = ChatOf(r) /\ row.thread = None
        /\ row.by = req[r].code
    BY <2>4, <2>5 DEF Link
  <2>7. links[l] = NoLink /\ NoLink.by = None /\ NoLink.active = FALSE
    BY <1>2 DEF NextLink, NoLink
  <2> HIDE DEF q, row
  <2>8. links' = [links EXCEPT ![l] = row]
    BY <1>2 DEF row
  <2>9. links' \in [LinkIds -> Link] /\ links'[l] = row /\ \A k \in LinkIds \ {l} : links'[k] = links[k]
    BY <2>6, <2>8 DEF IInv, TypeOK
  <2>10. Moves(r, q)
    BY <2>1, <2>2, MovesOn DEF IInv
  <2>11. TypeOK'
    BY <2>3, <2>9, <2>10 DEF IInv, TypeOK, Moves
  <2>12. \A s \in Requests \ {r} : Kept(s)
    <3> SUFFICES ASSUME NEW s \in Requests \ {r} PROVE Kept(s)
      OBVIOUS
    <3>1. Taken(s) => req[s].code # req[r].code /\ \A k \in LinkIds : links[k].by # req[s].code
      BY <2>3 DEF IInv, Apart, RequestInv, HasItsCode
    <3> QED  BY <2>3, <2>6, <2>7, <2>9, <2>10, <3>1 DEF Kept, Moves
  <2>13. RequestInv(r)'
    <3>1. AtItsMessage(r)'
      BY <2>2, <2>3, <2>4, <2>10 DEF Moves, RequestInv, AtItsMessage, ChatOf
    <3>2. HasItsCode(r)' /\ ForItsLink(r)' /\ InItsThread(r)' /\ BeforeItsTurn(r)'
      BY <2>2, <2>10 DEF Moves, HasItsCode, Taken, ForItsLink, InItsThread, BeforeItsTurn, Working
    <3>3. KnowsTheRevoked(r)'
      BY <2>2, <2>3, <2>7, <2>9, <2>10 DEF Moves, RequestInv, KnowsTheRevoked
    <3> QED  BY <3>1, <3>2, <3>3 DEF RequestInv
  <2>14. \A s \in Requests : RequestInv(s)'
    BY <2>12, <2>13, AllKeep
  <2>15. Apart'
    BY <2>2, <2>10, StaysApart
  <2>16. LinksAreSealed'
    BY <2>3, <2>4, <2>5, <2>6, <2>7, <2>9, NoneAssumption DEF IInv, LinksAreSealed
  <2>17. SpentWereMinted' /\ MessagesWritten' /\ TurnsOnce'
    BY <2>3 DEF IInv, SpentWereMinted, MessagesWritten, TurnsOnce
  <2>18. ThreadsComeOnce'
    BY <2>2, <2>3, <2>6, <2>9, <2>10, NoneAssumption DEF IInv, ThreadsComeOnce, Threadless, Working, Moves
  <2>19. LinksLeadHome'
    BY <2>3, <2>6, <2>9 DEF IInv, LinksLeadHome
  <2>20. OneAccountPerChat'
    <3>1. \A k \in LinkIds : ~(links[k].active /\ links[k].chat = ChatOf(r))
      BY <1>2 DEF Linked
    <3> QED  BY <2>6, <2>9, <3>1 DEF IInv, OneAccountPerChat
  <2> QED  BY <2>11, <2>14, <2>15, <2>16, <2>17, <2>18, <2>19, <2>20 DEF IInv
<1> QED  BY <1>1, <1>2 DEF InsertLink

LEMMA BindThreadStep ==
  ASSUME IInv, NEW r \in Requests, BindThread(r)
  PROVE  IInv'
<1> DEFINE k == req[r].link
           t == req[r].thread
           q == [req[r] EXCEPT !.pc = "turn"]
<1>1. CASE threads[t] = None
  <2>1. Recorded /\ deaths' \in Nat
    BY DEF BindThread, Recorded, IInv, TypeOK
  <2> QED  BY <1>1, <2>1, OnlyEnds DEF BindThread
<1>2. CASE threads[t] # None
  <2>1. /\ req[r].pc = "bind" /\ UNCHANGED <<codes, threads, updates, turns, deaths>>
        /\ links' = [links EXCEPT ![k].thread = t]
    BY <1>2 DEF BindThread
  <2>2. req' = [req EXCEPT ![r] = q]
    BY <1>2 DEF BindThread, Go, IInv, TypeOK
  <2>3. /\ q \in Request /\ q.pc = "turn" /\ q.update = req[r].update /\ q.user = req[r].user
        /\ q.link = k /\ q.thread = t /\ q.revoked = req[r].revoked
    BY DEF IInv, TypeOK, Request
  <2>4. RequestInv(r) /\ Working(r)
    BY <2>1 DEF IInv, Working
  <2>5. /\ k \in LinkIds /\ links[k].by # None /\ links[k].user = req[r].user
        /\ t \in Updates /\ threads[t] = req[r].user
    BY <1>2, <2>1, <2>4 DEF RequestInv, ForItsLink, InItsThread
  <2> HIDE DEF q, k, t
  <2>6. Moves(r, q)
    BY <2>2, <2>3, MovesOn DEF IInv
  <2>7. /\ SealedStay /\ \A l \in LinkIds \ {k} : links'[l] = links[l]
        /\ links'[k].thread = t
    BY <2>1, <2>5 DEF SealedStay, IInv, TypeOK, Link
  <2>8. TypeOK'
    BY <2>1, <2>6, <2>7 DEF IInv, TypeOK, SealedStay, Moves
  <2>9. \A s \in Requests \ {r} : Kept(s)
    <3>1. \A s \in Requests : Taken(s) => \A l \in LinkIds : links[l].by # req[s].code
      BY DEF IInv, RequestInv, HasItsCode
    <3> QED  BY <2>1, <2>6, <2>7, <3>1 DEF Kept, SealedStay, Moves
  <2>10. RequestInv(r)'
    <3>1. AtItsMessage(r)' /\ HasItsCode(r)' /\ BeforeItsTurn(r)'
      BY <2>1, <2>3, <2>4, <2>6 DEF Moves, RequestInv, AtItsMessage, HasItsCode, Taken, BeforeItsTurn, ChatOf
    <3>2. ForItsLink(r)'
      BY <2>1, <2>3, <2>4, <2>5, <2>6, <2>7 DEF Moves, RequestInv, ForItsLink, Working, SealedStay, ChatOf, k
    <3>3. InItsThread(r)'
      BY <2>1, <2>3, <2>5, <2>6 DEF Moves, InItsThread
    <3>4. KnowsTheRevoked(r)'
      BY <2>3, <2>4, <2>6, <2>7 DEF Moves, RequestInv, KnowsTheRevoked, SealedStay
    <3> QED  BY <3>1, <3>2, <3>3, <3>4 DEF RequestInv
  <2>11. \A s \in Requests : RequestInv(s)'
    BY <2>9, <2>10, AllKeep
  <2>12. Apart'
    BY <2>3, <2>6, StaysApart
  <2>13. ThreadsComeOnce'
    <3> SUFFICES ASSUME NEW u \in Updates, Threadless(u)'
                 PROVE  /\ threads[u] = None /\ \A l \in LinkIds : links'[l].thread # u
                        /\ \A s \in Requests : Working(s)' => req'[s].thread # u
      BY <2>1 DEF ThreadsComeOnce
    <3>1. Threadless(u)
      BY <2>1, <2>3, <2>6 DEF Threadless, Moves
    <3>2. /\ threads[u] = None /\ \A l \in LinkIds : links[l].thread # u
          /\ \A s \in Requests : Working(s) => req[s].thread # u
      BY <3>1 DEF IInv, ThreadsComeOnce
    <3>3. t # u
      BY <1>2, <3>2 DEF t
    <3> QED  BY <2>3, <2>6, <2>7, <3>2, <3>3 DEF Working, Moves
  <2>14. LinksLeadHome'
    BY <2>1, <2>5, <2>7 DEF IInv, LinksLeadHome, SealedStay
  <2> QED  BY <2>1, <2>7, <2>8, <2>11, <2>12, <2>13, <2>14, LinksMove DEF IInv
<1> QED  BY <1>1, <1>2

LEMMA DeleteThreadStep ==
  ASSUME IInv, NEW t \in Updates, DeleteThread(t)
  PROVE  IInv'
<1>1. UNCHANGED <<codes, updates, req, turns, deaths>>
  BY DEF DeleteThread
<1>2. /\ threads' \in [Updates -> Users \cup {None}] /\ threads'[t] = None
      /\ \A u \in Updates \ {t} : threads'[u] = threads[u]
  BY DEF DeleteThread, IInv, TypeOK
<1>3. /\ links' \in [LinkIds -> Link]
      /\ \A l \in LinkIds : /\ links'[l].by = links[l].by /\ links'[l].user = links[l].user
                            /\ links'[l].chat = links[l].chat /\ links'[l].active = links[l].active
                            /\ links'[l].thread = IF links[l].thread = t THEN None ELSE links[l].thread
                            /\ links[l].thread # t => links'[l] = links[l]
  BY DEF DeleteThread, IInv, TypeOK, Link
<1>4. SealedStay
  BY <1>3, NoneAssumption DEF SealedStay, IInv, LinksAreSealed, NoLink
<1>5. TypeOK'
  BY <1>1, <1>2, <1>3 DEF IInv, TypeOK
<1>6. \A s \in Requests : RequestInv(s)'
  <2>1. \A s \in Requests : Taken(s) => \A l \in LinkIds : links[l].by # req[s].code
    BY DEF IInv, RequestInv, HasItsCode
  <2>2. \A s \in Requests : Kept(s)
    BY <1>1, <1>2, <1>4, <2>1 DEF Kept, SealedStay
  <2> QED  BY <2>2, OthersKeep
<1>7. Apart'
  BY <1>1 DEF IInv, Apart, Taken
<1>8. ThreadsComeOnce'
  BY <1>1, <1>2, <1>3, NoneAssumption DEF IInv, ThreadsComeOnce, Threadless, Working
<1>9. LinksLeadHome'
  BY <1>2, <1>3 DEF IInv, LinksLeadHome
<1> QED  BY <1>1, <1>4, <1>5, <1>6, <1>7, <1>8, <1>9, LinksMove DEF IInv

LEMMA FindThreadStep ==
  ASSUME IInv, NEW r \in Requests, FindThread(r)
  PROVE  IInv'
<1> DEFINE u == req[r].update
           q == [req[r] EXCEPT !.pc = "bind", !.thread = u]
<1>1. req[r].pc = "thread" /\ UNCHANGED <<codes, links, updates, turns, deaths>>
  BY DEF FindThread
<1>2. CASE req[r].thread # None /\ threads[req[r].thread] # None
  BY <1>1, <1>2, GoMoves DEF FindThread
<1>3. CASE ~(req[r].thread # None /\ threads[req[r].thread] # None)
  <2>1. threads' = [threads EXCEPT ![u] = req[r].user] /\ req' = [req EXCEPT ![r] = q]
    BY <1>3 DEF FindThread, IInv, TypeOK
  <2>2. RequestInv(r) /\ Working(r)
    BY <1>1 DEF IInv, Working
  <2>3. u \in Updates /\ updates[u].row # "none" /\ u # None
    BY <1>1, <2>2 DEF RequestInv, AtItsMessage
  <2>4. /\ q \in Request /\ q.pc = "bind" /\ q.update = u /\ q.user = req[r].user
        /\ q.link = req[r].link /\ q.thread = u /\ q.revoked = req[r].revoked
    BY <2>3 DEF IInv, TypeOK, Request
  <2>5. Threadless(u)
    BY <1>1, <2>3 DEF Threadless
  <2>6. /\ \A l \in LinkIds : links[l].thread # u
        /\ \A s \in Requests : Working(s) => req[s].thread # u
    BY <2>3, <2>5 DEF IInv, ThreadsComeOnce
  <2> HIDE DEF q
  <2>7. Moves(r, q)
    BY <2>1, <2>4, MovesOn DEF IInv
  <2>8. /\ threads' \in [Updates -> Users \cup {None}] /\ threads'[u] = req[r].user
        /\ \A v \in Updates \ {u} : threads'[v] = threads[v]
    BY <2>1, <2>3 DEF IInv, TypeOK, Request
  <2>9. TypeOK'
    BY <1>1, <2>7, <2>8 DEF IInv, TypeOK, Moves
  <2> HIDE DEF u
  <2>10. \A s \in Requests \ {r} : Kept(s)
    <3>1. \A s \in Requests : Taken(s) => \A l \in LinkIds : links[l].by # req[s].code
      BY DEF IInv, RequestInv, HasItsCode
    <3> QED  BY <1>1, <2>6, <2>7, <2>8, <3>1 DEF Kept, Moves
  <2>11. RequestInv(r)'
    <3>1. AtItsMessage(r)' /\ HasItsCode(r)' /\ BeforeItsTurn(r)' /\ KnowsTheRevoked(r)'
      BY <1>1, <2>2, <2>4, <2>7 DEF Moves, RequestInv, AtItsMessage, HasItsCode, Taken, BeforeItsTurn,
         KnowsTheRevoked, ChatOf, u
    <3>2. ForItsLink(r)'
      BY <1>1, <2>2, <2>4, <2>7 DEF Moves, RequestInv, ForItsLink, Working, ChatOf, u
    <3>3. InItsThread(r)'
      BY <2>3, <2>4, <2>7, <2>8 DEF Moves, InItsThread
    <3> QED  BY <3>1, <3>2, <3>3 DEF RequestInv
  <2>12. \A s \in Requests : RequestInv(s)'
    BY <2>10, <2>11, AllKeep
  <2>13. Apart'
    BY <2>4, <2>7, StaysApart DEF u
  <2>14. LinksAreSealed' /\ SpentWereMinted' /\ MessagesWritten' /\ TurnsOnce' /\ OneAccountPerChat'
    BY <1>1 DEF IInv, LinksAreSealed, SpentWereMinted, MessagesWritten, TurnsOnce, OneAccountPerChat
  <2>15. LinksLeadHome'
    BY <1>1, <2>6, <2>8 DEF IInv, LinksLeadHome
  <2>16. ThreadsComeOnce'
    <3> SUFFICES ASSUME NEW v \in Updates, Threadless(v)'
                 PROVE  /\ threads'[v] = None /\ \A l \in LinkIds : links[l].thread # v
                        /\ \A s \in Requests : Working(s)' => req'[s].thread # v
      BY <1>1 DEF ThreadsComeOnce
    <3>1. Threadless(v) /\ v # u
      BY <1>1, <2>3, <2>4, <2>7 DEF Threadless, Moves, IInv, Apart, u
    <3>2. /\ threads[v] = None /\ \A l \in LinkIds : links[l].thread # v
          /\ \A s \in Requests : Working(s) => req[s].thread # v
      BY <3>1 DEF IInv, ThreadsComeOnce
    <3> QED  BY <2>4, <2>7, <2>8, <3>1, <3>2 DEF Working, Moves
  <2> QED  BY <2>9, <2>12, <2>13, <2>14, <2>15, <2>16 DEF IInv
<1> QED  BY <1>2, <1>3

----------------------------------------------------------------------------
(* Steps on messages and turns.                                            *)

LEMMA WriteStep ==
  ASSUME IInv, NEW u \in Updates, NEW chat \in Chats,
         NEW say \in {"start", "text", "unlink", "other"}, NEW code \in Codes \cup {None},
         Write(u, chat, say, code)
  PROVE  IInv'
<1>1. /\ UNCHANGED <<codes, links, threads, req, turns, deaths>> /\ updates[u].row = "none"
      /\ say = "start" => code \in Codes
      /\ code \in Codes => codes[code].owner \in Users
  BY NoneAssumption DEF Write, Says, NoUpdate, IInv, TypeOK, Code
<1>2. /\ updates' \in [Updates -> Update]
      /\ updates'[u].row = "none" /\ updates'[u].say = say /\ updates'[u].code = code
      /\ \A v \in Updates \ {u} : updates'[v] = updates[v]
  BY DEF Write, NoUpdate, IInv, TypeOK, Update
<1>3. TypeOK'
  BY <1>1, <1>2 DEF IInv, TypeOK
<1>4. \A s \in Requests : RequestInv(s)'
  <2>1. \A s \in Requests : Taken(s) => \A l \in LinkIds : links[l].by # req[s].code
    BY DEF IInv, RequestInv, HasItsCode
  <2>2. \A s \in Requests : Kept(s)
    BY <1>1, <1>2, <2>1 DEF Kept
  <2> QED  BY <2>2, OthersKeep
<1>5. Apart' /\ LinksAreSealed' /\ SpentWereMinted' /\ LinksLeadHome' /\ OneAccountPerChat'
  BY <1>1 DEF IInv, Apart, Taken, LinksAreSealed, SpentWereMinted, LinksLeadHome, OneAccountPerChat
<1>6. MessagesWritten' /\ TurnsOnce'
  BY <1>1, <1>2, NoneAssumption DEF IInv, MessagesWritten, TurnsOnce
<1>7. ThreadsComeOnce'
  BY <1>1, <1>2 DEF IInv, ThreadsComeOnce, Threadless, Working
<1> QED  BY <1>3, <1>4, <1>5, <1>6, <1>7 DEF IInv

LEMMA ReceiveStep ==
  ASSUME IInv, NEW r \in Requests, NEW u \in Updates, Receive(r, u)
  PROVE  IInv'
<1> DEFINE q == Started(u)
<1>1. /\ UNCHANGED <<codes, links, threads, turns, deaths>> /\ updates[u].row = "none"
      /\ updates[u].chat \in Chats /\ req' = [req EXCEPT ![r] = q]
      /\ updates' = [updates EXCEPT ![u].row = "accepted"]
  BY DEF Receive, IInv, TypeOK, Update
<1>2. /\ q \in Request /\ q.pc = "received" /\ q.update = u /\ q.revoked = Revoked
  BY DEF Started, Idle, Request, Revoked, Outcomes
<1> HIDE DEF q
<1>3. /\ updates' \in [Updates -> Update] /\ updates'[u].row = "accepted"
      /\ updates'[u].chat = updates[u].chat /\ updates'[u].say = updates[u].say
      /\ updates'[u].code = updates[u].code
      /\ \A v \in Updates \ {u} : updates'[v] = updates[v]
  BY <1>1 DEF IInv, TypeOK, Update, Outcomes
<1>4. Moves(r, q)
  BY <1>1, <1>2, MovesOn DEF IInv
<1>5. TypeOK'
  BY <1>1, <1>3, <1>4 DEF IInv, TypeOK, Moves
<1>6. \A s \in Requests \ {r} : Kept(s)
  <2>1. \A s \in Requests : Taken(s) => \A l \in LinkIds : links[l].by # req[s].code
    BY DEF IInv, RequestInv, HasItsCode
  <2> QED  BY <1>1, <1>3, <1>4, <2>1 DEF Kept, Moves
<1>7. RequestInv(r)'
  <2>1. AtItsMessage(r)'
    BY <1>1, <1>2, <1>3, <1>4, NoneAssumption DEF Moves, AtItsMessage, ChatOf
  <2>2. HasItsCode(r)' /\ ForItsLink(r)' /\ InItsThread(r)'
    BY <1>2, <1>4 DEF Moves, HasItsCode, Taken, ForItsLink, InItsThread, Working
  <2>3. BeforeItsTurn(r)'
    BY <1>1, <1>2, <1>4 DEF Moves, BeforeItsTurn, IInv, TurnsOnce
  <2>4. KnowsTheRevoked(r)'
    BY <1>1, <1>2, <1>4 DEF Moves, KnowsTheRevoked, Revoked, IInv, LinksAreSealed, TypeOK, Link
  <2> QED  BY <2>1, <2>2, <2>3, <2>4 DEF RequestInv
<1>8. \A s \in Requests : RequestInv(s)'
  BY <1>6, <1>7, AllKeep
<1>9. Apart'
  <2>1. \A s \in Requests : req[s].update # u
    BY <1>1, NoneAssumption DEF IInv, RequestInv, AtItsMessage
  <2> QED  BY <1>2, <1>4, <2>1, StaysApart
<1>10. LinksAreSealed' /\ SpentWereMinted' /\ LinksLeadHome' /\ OneAccountPerChat'
  BY <1>1 DEF IInv, LinksAreSealed, SpentWereMinted, LinksLeadHome, OneAccountPerChat
<1>11. MessagesWritten' /\ TurnsOnce'
  BY <1>1, <1>3 DEF IInv, MessagesWritten, TurnsOnce
<1>12. ThreadsComeOnce'
  <2>1. Threadless(u)
    BY <1>1 DEF Threadless
  <2> QED  BY <1>1, <1>2, <1>3, <1>4, <2>1, ThreadsStay
<1> QED  BY <1>5, <1>8, <1>9, <1>10, <1>11, <1>12 DEF IInv

LEMMA TurnStep ==
  ASSUME IInv, NEW r \in Requests, Turn(r)
  PROVE  IInv'
<1> DEFINE u == req[r].update
           q == [req[r] EXCEPT !.pc = "reply"]
<1>1. /\ req[r].pc = "turn" /\ UNCHANGED <<codes, links, threads, updates, deaths>>
      /\ turns' = [turns EXCEPT ![u] = [n |-> turns[u].n + 1, user |-> req[r].user]]
  BY DEF Turn
<1>2. req' = [req EXCEPT ![r] = q]
  BY DEF Turn, Go, IInv, TypeOK
<1>3. /\ q \in Request /\ q.pc = "reply" /\ q.update = u /\ q.user = req[r].user
      /\ q.link = req[r].link /\ q.thread = req[r].thread /\ q.revoked = req[r].revoked
  BY DEF IInv, TypeOK, Request
<1>4. RequestInv(r) /\ Working(r)
  BY <1>1 DEF IInv, Working
<1>5. /\ u \in Updates /\ u # None /\ updates[u].row # "none" /\ turns[u].n = 0
      /\ req[r].user \in Users \cup {None}
  BY <1>1, <1>4 DEF RequestInv, AtItsMessage, BeforeItsTurn, IInv, TypeOK, Request
<1>6. /\ turns' \in [Updates -> [n : Nat, user : Users \cup {None}]]
      /\ turns'[u].n = 1 /\ turns'[u].user = req[r].user
      /\ \A v \in Updates \ {u} : turns'[v] = turns[v]
  BY <1>1, <1>5 DEF IInv, TypeOK
<1> HIDE DEF q
<1>7. Moves(r, q)
  BY <1>2, <1>3, MovesOn DEF IInv
<1>8. TypeOK'
  BY <1>1, <1>6, <1>7 DEF IInv, TypeOK, Moves
<1>9. \A s \in Requests \ {r} : Kept(s)
  <2>1. \A s \in Requests : Taken(s) => \A l \in LinkIds : links[l].by # req[s].code
    BY DEF IInv, RequestInv, HasItsCode
  <2>2. \A s \in Requests \ {r} : req[s].update # u
    BY <1>5 DEF IInv, Apart
  <2> QED  BY <1>1, <1>6, <1>7, <2>1, <2>2 DEF Kept, Moves
<1>10. RequestInv(r)'
  <2>1. AtItsMessage(r)' /\ HasItsCode(r)' /\ BeforeItsTurn(r)' /\ KnowsTheRevoked(r)'
    BY <1>1, <1>3, <1>4, <1>7 DEF Moves, RequestInv, AtItsMessage, HasItsCode, Taken, BeforeItsTurn,
       KnowsTheRevoked, ChatOf
  <2>2. ForItsLink(r)' /\ InItsThread(r)'
    BY <1>1, <1>3, <1>4, <1>7 DEF Moves, RequestInv, ForItsLink, InItsThread, Working, ChatOf
  <2> QED  BY <2>1, <2>2 DEF RequestInv
<1>11. \A s \in Requests : RequestInv(s)'
  BY <1>9, <1>10, AllKeep
<1>12. Apart' /\ ThreadsComeOnce'
  BY <1>1, <1>3, <1>4, <1>7, StaysApart, ThreadsStay
<1>13. LinksAreSealed' /\ SpentWereMinted' /\ LinksLeadHome' /\ OneAccountPerChat' /\ MessagesWritten'
  BY <1>1 DEF IInv, LinksAreSealed, SpentWereMinted, LinksLeadHome, OneAccountPerChat, MessagesWritten
<1>14. TurnsOnce'
  <2>1. PICK c \in Codes : codes[c].owner = req[r].user /\ codes[c].usedBy = updates[u].chat
    <3>1. LET l == req[r].link IN
            /\ l \in LinkIds /\ links[l].by # None /\ links[l].user = req[r].user
            /\ links[l].chat = updates[u].chat
      BY <1>4 DEF RequestInv, ForItsLink, ChatOf
    <3> QED  BY <3>1 DEF IInv, LinksAreSealed
  <2> QED  BY <1>1, <1>5, <1>6, <2>1 DEF IInv, TurnsOnce
<1> QED  BY <1>8, <1>11, <1>12, <1>13, <1>14 DEF IInv

----------------------------------------------------------------------------
(* The theorems.                                                           *)

LEMMA InitIInv == Init => IInv
<1> SUFFICES ASSUME Init PROVE IInv
  OBVIOUS
<1>1. TypeOK
  BY DEF Init, TypeOK, NoCode, NoLink, NoUpdate, Idle, Code, Link, Update, Request, Outcomes
<1>2. \A r \in Requests : RequestInv(r)
  BY DEF Init, Idle, RequestInv, AtItsMessage, HasItsCode, Taken, ForItsLink, Working, InItsThread,
     BeforeItsTurn, KnowsTheRevoked
<1>3. Apart /\ LinksAreSealed /\ SpentWereMinted /\ LinksLeadHome /\ OneAccountPerChat
  BY DEF Init, Idle, NoLink, NoCode, Apart, Taken, LinksAreSealed, SpentWereMinted, LinksLeadHome,
     OneAccountPerChat
<1>4. MessagesWritten /\ TurnsOnce
  BY NoneAssumption DEF Init, NoUpdate, MessagesWritten, TurnsOnce
<1>5. ThreadsComeOnce
  BY NoneAssumption DEF Init, Idle, NoLink, ThreadsComeOnce, Working
<1> QED  BY <1>1, <1>2, <1>3, <1>4, <1>5 DEF IInv

LEMMA HandleStep ==
  ASSUME IInv, NEW r \in Requests, Handle(r)
  PROVE  IInv'
BY OverLimitStep, IdentifyStep, UnlinkLinkStep, UnlinkCodesStep, RedeemStep, LookForLinkStep,
   InsertLinkStep, FindThreadStep, BindThreadStep, TurnStep, ReplyStep, SentStep, NotSentStep,
   ChatDeadStep, RevokeForDeadChatStep DEF Handle

LEMMA StepIInv == IInv /\ [Next]_vars => IInv'
<1> SUFFICES ASSUME IInv, [Next]_vars PROVE IInv'
  OBVIOUS
<1>1. CASE Outside
  BY <1>1, ExpireStep, WriteStep, DeleteThreadStep DEF Outside
<1>2. ASSUME NEW r \in Requests, Web(r) PROVE IInv'
  BY <1>2, MintBeginStep, MintInsertStep, MintNoCodeStep, UnlinkBeginStep DEF Web
<1>3. ASSUME NEW r \in Requests, NEW u \in Updates, Receive(r, u) PROVE IInv'
  BY <1>3, ReceiveStep
<1>4. CASE UNCHANGED vars
  <2>1. TypeOK' /\ Apart' /\ LinksAreSealed' /\ SpentWereMinted' /\ MessagesWritten'
    BY <1>4 DEF vars, IInv, TypeOK, Apart, Taken, LinksAreSealed, SpentWereMinted, MessagesWritten
  <2>2. ThreadsComeOnce' /\ LinksLeadHome' /\ TurnsOnce' /\ OneAccountPerChat'
    BY <1>4 DEF vars, IInv, ThreadsComeOnce, Threadless, Working, LinksLeadHome, TurnsOnce, OneAccountPerChat
  <2>3. \A r \in Requests : RequestInv(r)'
    BY <1>4 DEF vars, IInv, RequestInv, AtItsMessage, HasItsCode, Taken, ForItsLink, Working, InItsThread,
       BeforeItsTurn, KnowsTheRevoked, ChatOf
  <2> QED  BY <2>1, <2>2, <2>3 DEF IInv
<1> QED  BY <1>1, <1>2, <1>3, <1>4, HandleStep, DieStep DEF Next

\* The inductive invariant holds throughout.
THEOREM Invariance == Spec => []IInv
BY InitIInv, StepIInv, PTL DEF Spec

\* Every variable keeps its type.
THEOREM TypeCorrect == Spec => []TypeOK
<1>1. IInv => TypeOK
  BY DEF IInv
<1> QED  BY <1>1, Invariance, PTL

\* A chat never speaks for two accounts, whatever redemptions, revocations and
\* deaths run beside each other.
THEOREM OneAccountPerChatAlways == Spec => []OneAccountPerChat
<1>1. IInv => OneAccountPerChat
  BY DEF IInv
<1> QED  BY <1>1, Invariance, PTL

\* No link without a code of its own account, spent in its own chat: neither a
\* code used twice nor one withdrawn under way makes one.
THEOREM EveryLinkHasItsCodeAlways == Spec => []EveryLinkHasItsCode
<1>1. IInv => EveryLinkHasItsCode
  BY DEF IInv, EveryLinkHasItsCode, LinksAreSealed
<1> QED  BY <1>1, Invariance, PTL

\* Each message runs one turn at most, and that as somebody who gave a code to
\* that chat.
THEOREM OneTurnAlways == Spec => []OneTurnAsTheLinkedUser
<1>1. IInv => OneTurnAsTheLinkedUser
  <2> SUFFICES ASSUME IInv, NEW u \in Updates
               PROVE  /\ turns[u].n <= 1
                      /\ turns[u].n > 0 => \E c \in Codes : codes[c].owner = turns[u].user
                                                          /\ codes[c].usedBy = updates[u].chat
    BY DEF OneTurnAsTheLinkedUser
  <2>1. turns[u].n = 0 \/ turns[u].n = 1
    BY DEF IInv, TurnsOnce
  <2> QED  BY <2>1 DEF IInv, TurnsOnce
<1> QED  BY <1>1, Invariance, PTL

\* No message is worked on for a link that was revoked before it came.
THEOREM RevokedIsRefusedAlways == Spec => []RevokedBeforeIsRefused
<1>1. IInv => RevokedBeforeIsRefused
  BY DEF IInv, RevokedBeforeIsRefused, RequestInv, ForItsLink, Working
<1> QED  BY <1>1, Invariance, PTL

\* No account is led into the conversation of another, though a chat changes hands
\* and conversations are deleted while their turn runs.
THEOREM ThreadOfItsUserAlways == Spec => []ThreadOfItsUser
<1>1. IInv => ThreadOfItsUser
  BY DEF IInv, ThreadOfItsUser, LinksLeadHome, RequestInv, InItsThread, Working
<1> QED  BY <1>1, Invariance, PTL

=============================================================================
