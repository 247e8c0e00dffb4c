-------------------------- MODULE WorkflowsProofs --------------------------
(***************************************************************************)
(* What holds of Workflows for any number of runs, owners, decisions,      *)
(* administrators, callbacks, changes and failures.                        *)
(***************************************************************************)
EXTENDS Workflows, TLAPS

----------------------------------------------------------------------------
(* The inductive invariant.                                                *)

AtItsBase == \A a \in Admins : admin[a].pc \in {"store", "save"} => admin[a].base \in Bases

Untouched(r) ==
  carried[r] = 0 /\ outside[r] = "none" /\ ~run[r].external /\ acknowledged[r] = None

\* A run is untouched until it is claimed, by its owner.
RunInv(r) ==
  /\ run[r].status # "none" => run[r].owner \in Owners
  /\ granted[r] \in {None, run[r].owner}
  /\ run[r].status \in {"none", "pending"} => granted[r] = None
  /\ run[r].status \in {"running", "succeeded", "failed"} => granted[r] # None
  /\ granted[r] = None => Untouched(r)
  /\ run[r].status = "succeeded" => outside[r] = "succeeded"
  /\ acknowledged[r] # None /\ r \notin unlogged => run[r].status = acknowledged[r]

\* What a request found is so until it changes it.
TapInv(t) ==
  LET r == tap[t].run IN
  /\ tap[t].pc # "idle" => r \in Runs /\ run[r].status # "none"
  /\ tap[t].pc \in Sending => granted[r] # None
  /\ tap[t].pc \in {"check", "secret", "send"} => Untouched(r)
  /\ tap[t].pc \in {"check", "secret", "send", "record"} => r \notin unlogged
  /\ tap[t].pc \in {"secret", "send"} => run[r].boundary = tap[t].boundary
  /\ tap[t].pc \in {"record", "caught"} /\ r \notin unlogged =>
       ~run[r].external /\ acknowledged[r] = None
  /\ tap[t].pc = "record" /\ tap[t].result = "succeeded" => outside[r] = "succeeded"

\* One request sends a run.
Alone ==
  \A t, u \in Taps : tap[t].pc \in Sending /\ tap[u].pc \in Sending /\ tap[t].run = tap[u].run => t = u

AsPrepared(s) == s.base = run[s.run].boundary.base /\ s.target = run[s.run].boundary.target

\* What only a request that sends a run, or one that did, leaves behind.
Traces ==
  /\ \A x \in arrived : outside[x[2]] \in {"succeeded", "failed"}
  /\ \A s \in sent : granted[s.run] # None /\ AsPrepared(s)
  /\ \A r \in unlogged : granted[r] # None

IInv ==
  /\ TypeOK /\ AtItsBase
  /\ \A r \in Runs : RunInv(r)
  /\ \A t \in Taps : TapInv(t)
  /\ Alone /\ Traces

LEMMA InitIInv == Init => IInv
<1> SUFFICES ASSUME Init PROVE IInv
  OBVIOUS
<1>1. TypeOK
  BY NoneAssumption, BoundsAssumption
  DEF Init, TypeOK, Integration, Definition, NoRun, NoBoundary, RunRow, Statuses, Boundaries,
      IdleTap, TapState, IdleAdmin, AdminState
<1>2. AtItsBase /\ Alone /\ Traces
  BY DEF Init, AtItsBase, Alone, Traces, AsPrepared, IdleAdmin, IdleTap, Sending
<1>3. \A r \in Runs : RunInv(r)
  BY DEF Init, RunInv, Untouched, NoRun
<1>4. \A t \in Taps : TapInv(t)
  BY DEF Init, TapInv, IdleTap, Sending
<1> QED  BY <1>1, <1>2, <1>3, <1>4 DEF IInv

----------------------------------------------------------------------------
(* Steps of one kind.                                                      *)

\* The rows of the runs stay, and all the requests.
LEMMA RunsKept ==
  ASSUME IInv, UNCHANGED <<run, tap, arrived, outside, history>>
  PROVE  (\A r \in Runs : RunInv(r))' /\ (\A t \in Taps : TapInv(t))' /\ Alone' /\ Traces'
BY DEF IInv, history, RunInv, TapInv, Untouched, Alone, Traces, AsPrepared

\* An administrator's step.
LEMMA AdminKeeps ==
  ASSUME IInv, Others' = Others, integration' \in Integration, definition' \in Definition,
         vault' \in Nat, replaced' \subseteq Runs, admin' \in [Admins -> AdminState], changes' \in 0..MaxChanges,
         AtItsBase'
  PROVE  IInv'
<1>1. TypeOK'
  BY DEF IInv, TypeOK, Others, history
<1>2. UNCHANGED <<run, tap, arrived, outside, history>>
  BY DEF Others
<1> QED  BY <1>1, <1>2, RunsKept DEF IInv

\* Runs that wait for an answer are refused, or run out.
Declines(R) ==
  /\ run' \in [Runs -> RunRow]
  /\ \A r \in Runs \ R : run'[r] = run[r]
  /\ \A r \in R : /\ run[r].status = "pending" /\ run'[r].status \in {"denied", "expired"}
                  /\ run'[r].owner = run[r].owner /\ run'[r].boundary = run[r].boundary
                  /\ run'[r].external = run[r].external

LEMMA RunsDecline ==
  ASSUME IInv, NEW R \in SUBSET Runs, Declines(R), UNCHANGED <<arrived, outside, history>>
  PROVE  /\ (\A r \in Runs : RunInv(r))' /\ Traces'
         /\ \A t \in Taps : tap'[t] = tap[t] => TapInv(t)'
<1>1. ASSUME NEW r \in Runs PROVE RunInv(r)'
  <2>1. CASE r \in R
    BY <2>1 DEF IInv, RunInv, Untouched, Declines, history
  <2>2. CASE r \notin R
    BY <2>2 DEF IInv, RunInv, Untouched, Declines, history
  <2> QED  BY <2>1, <2>2
<1>2. \A r \in Runs : /\ run'[r].boundary = run[r].boundary /\ run'[r].external = run[r].external
                      /\ run[r].status # "none" => run'[r].status # "none"
  BY DEF Declines
<1>3. Traces'
  BY <1>2 DEF IInv, TypeOK, Traces, AsPrepared, history
<1>4. ASSUME NEW t \in Taps, tap'[t] = tap[t] PROVE TapInv(t)'
  BY <1>2, <1>4 DEF IInv, TypeOK, TapState, Sending, TapInv, Untouched, history
<1> QED  BY <1>1, <1>3, <1>4

LEMMA ExpiredDeclines ==
  ASSUME IInv, NEW R \in SUBSET Runs, run' = Expired(R)
  PROVE  Declines({r \in R : run[r].status = "pending"})
<1>1. \A r \in Runs : run[r] \in RunRow
  BY DEF IInv, TypeOK
<1>2. ASSUME NEW r \in Runs PROVE [run[r] EXCEPT !.status = "expired"] \in RunRow
  BY <1>1 DEF RunRow, Statuses
<1> QED  BY <1>1, <1>2 DEF Expired, Declines, RunRow

\* A request goes on, or ends.
LEMMA AloneKept ==
  ASSUME Alone, NEW t \in Taps, \A u \in Taps \ {t} : tap'[u] = tap[u],
         tap'[t].pc \in Sending => tap[t].pc \in Sending /\ tap'[t].run = tap[t].run
  PROVE  Alone'
BY DEF Alone

LEMMA TapMoves ==
  ASSUME IInv, NEW t \in Taps, tap' \in [Taps -> TapState], \A u \in Taps \ {t} : tap'[u] = tap[u],
         tap'[t].pc \in Sending => tap[t].pc \in Sending /\ tap'[t].run = tap[t].run,
         TapInv(t)', trouble' \in 0..MaxTrouble,
         UNCHANGED <<rows, run, lapsed, events, admin, arrived, outside, history, changes>>
  PROVE  IInv'
<1>1. TypeOK' /\ AtItsBase'
  BY DEF IInv, TypeOK, AtItsBase, rows, slot, history
<1>2. (\A r \in Runs : RunInv(r))' /\ Traces'
  BY DEF IInv, RunInv, Untouched, Traces, AsPrepared, history
<1>3. \A u \in Taps \ {t} : TapInv(u)'
  BY DEF IInv, TapInv, Untouched, history
<1>4. Alone'
  BY AloneKept DEF IInv
<1> QED  BY <1>1, <1>2, <1>3, <1>4 DEF IInv

LEMMA Leaves ==
  ASSUME IInv, NEW t \in Taps, Leave(t)
  PROVE  /\ tap' \in [Taps -> TapState] /\ TapInv(t)'
         /\ \A u \in Taps \ {t} : tap'[u] = tap[u]
         /\ tap'[t].pc \notin Sending
BY DEF IInv, TypeOK, Leave, IdleTap, NoBoundary, Boundaries, TapState, TapInv, Sending

LEMMA Goes ==
  ASSUME IInv, NEW t \in Taps, NEW pc \in Sending, Goto(t, pc)
  PROVE  /\ tap' \in [Taps -> TapState]
         /\ tap'[t] = [tap[t] EXCEPT !.pc = pc] /\ tap'[t].pc = pc
         /\ tap'[t].run = tap[t].run /\ tap'[t].boundary = tap[t].boundary
         /\ tap'[t].result = tap[t].result
         /\ \A u \in Taps \ {t} : tap'[u] = tap[u]
BY DEF IInv, TypeOK, Goto, TapState

----------------------------------------------------------------------------
(* The requests.                                                           *)

LEMMA RequestKeeps ==
  ASSUME IInv, NEW r \in Runs, NEW u \in Owners, Request(r, u)
  PROVE  IInv'
<1>1. run[r].status = "none" /\ granted[r] = None /\ Untouched(r)
  BY DEF IInv, Request, RunInv
<1>2. Boundary \in Boundaries
  BY DEF IInv, TypeOK, Integration, Definition, Boundary, Boundaries
<1>3. /\ run'[r].status = "pending" /\ run'[r].owner = u /\ ~run'[r].external
      /\ run'[r] \in RunRow /\ \A q \in Runs \ {r} : run'[q] = run[q]
      /\ run' \in [Runs -> RunRow]
  BY <1>2 DEF IInv, TypeOK, Request, RunRow, Statuses
<1>4. TypeOK' /\ AtItsBase'
  BY <1>3 DEF IInv, TypeOK, AtItsBase, Request, rows, slot, history
<1>5. (\A q \in Runs : RunInv(q))'
  BY <1>1, <1>3 DEF IInv, RunInv, Untouched, Request, history
<1>6. (\A t \in Taps : TapInv(t))'
  <2> SUFFICES ASSUME NEW t \in Taps PROVE TapInv(t)'
    OBVIOUS
  <2>1. TapInv(t) /\ tap' = tap /\ (tap[t].pc = "idle" \/ tap[t].run \in Runs \ {r})
    BY <1>1 DEF IInv, TapInv, Request
  <2>2. CASE tap[t].pc = "idle"
    BY <2>1, <2>2 DEF TapInv, Sending
  <2>3. CASE tap[t].run \in Runs \ {r}
    BY <1>3, <2>1, <2>3 DEF TapInv, Untouched, Request, history
  <2> QED  BY <2>1, <2>2, <2>3
<1>7. Alone' /\ Traces'
  <2>1. \A s \in sent : s.run # r
    BY <1>1 DEF IInv, Traces, AsPrepared
  <2> QED  BY <1>3, <2>1 DEF IInv, TypeOK, Alone, Traces, AsPrepared, Request, history
<1> QED  BY <1>4, <1>5, <1>6, <1>7 DEF IInv

LEMMA LapseKeeps == ASSUME IInv, NEW r \in Runs, Lapse(r) PROVE IInv'
<1>1. TypeOK' /\ AtItsBase'
  BY DEF IInv, TypeOK, AtItsBase, Lapse, rows, slot, history
<1> QED  BY <1>1, RunsKept DEF IInv, Lapse

\* Some runs are refused, and one request moves or none.
LEMMA DeclineKeeps ==
  ASSUME IInv, NEW R \in SUBSET Runs, Declines(R), NEW t \in Taps,
         tap' \in [Taps -> TapState], \A u \in Taps \ {t} : tap'[u] = tap[u],
         tap'[t].pc \in Sending => tap[t].pc \in Sending /\ tap'[t].run = tap[t].run,
         TapInv(t)',
         UNCHANGED <<rows, lapsed, events, admin, arrived, outside, history, changes, trouble>>
  PROVE  IInv'
<1>1. TypeOK' /\ AtItsBase'
  BY DEF IInv, TypeOK, AtItsBase, Declines, rows, slot, history
<1>2. Alone'
  BY AloneKept DEF IInv
<1> QED  BY <1>1, <1>2, RunsDecline DEF IInv

LEMMA HistoryKeeps == ASSUME IInv, NEW u \in Owners, History(u) PROVE IInv'
<1> DEFINE R == {r \in lapsed : run[r].owner = u}
<1>1. R \in SUBSET Runs
  BY DEF IInv, TypeOK
<1>2. Declines({r \in R : run[r].status = "pending"})
  BY <1>1, ExpiredDeclines DEF History
<1>3. TypeOK' /\ AtItsBase'
  BY <1>2 DEF IInv, TypeOK, AtItsBase, Declines, History, rows, slot, history
<1>4. (\A r \in Runs : RunInv(r))' /\ Traces' /\ (\A t \in Taps : TapInv(t))'
  <2>1. {r \in R : run[r].status = "pending"} \in SUBSET Runs
    BY <1>1
  <2> QED  BY <1>2, <2>1, RunsDecline DEF History
<1>5. Alone'
  BY DEF IInv, Alone, History
<1> QED  BY <1>3, <1>4, <1>5 DEF IInv

LEMMA TapKeeps ==
  ASSUME IInv, NEW t \in Taps, NEW u \in Owners, NEW r \in Runs, NEW approve \in BOOLEAN,
         Tap(t, u, r, approve)
  PROVE  IInv'
<1> DEFINE R == {q \in lapsed : run[q].status = "pending"}
<1>1. R \in SUBSET Runs /\ Declines(R)
  <2>1. lapsed \in SUBSET Runs
    BY DEF IInv, TypeOK
  <2> QED  BY <2>1, ExpiredDeclines DEF Tap
<1>2. run'[r].status # "none"
  BY <1>1 DEF Declines, Tap
<1>3. /\ tap' \in [Taps -> TapState] /\ \A v \in Taps \ {t} : tap'[v] = tap[v]
      /\ tap'[t].pc \in {"idle", "read"} /\ (tap'[t].pc = "read" => tap'[t].run = r)
  BY DEF IInv, TypeOK, Tap, IdleTap, NoBoundary, Boundaries, TapState
<1>4. TapInv(t)'
  BY <1>2, <1>3 DEF TapInv, Sending
<1> QED  BY <1>1, <1>3, <1>4, DeclineKeeps DEF Tap, Sending

LEMMA ReadKeeps == ASSUME IInv, NEW t \in Taps, TapRead(t) PROVE IInv'
<1>1. Boundary \in Boundaries
  BY DEF IInv, TypeOK, Integration, Definition, Boundary, Boundaries
<1>2. CASE Leave(t)
  BY <1>2, Leaves, TapMoves DEF TapRead, IInv, TypeOK
<1>3. CASE tap' = [tap EXCEPT ![t].pc = IF tap[t].approve THEN "claim" ELSE "deny",
                              ![t].boundary = Boundary]
  <2>1. tap[t] \in TapState
    BY DEF IInv, TypeOK
  <2>2. /\ tap'[t] \in TapState /\ tap'[t].pc \in {"claim", "deny"} /\ tap'[t].run = tap[t].run
    BY <1>1, <1>3, <2>1 DEF IInv, TypeOK, TapState
  <2>3. tap' \in [Taps -> TapState] /\ \A u \in Taps \ {t} : tap'[u] = tap[u]
    BY <1>3, <2>2 DEF IInv, TypeOK
  <2>4. TapInv(t)'
    BY <2>2 DEF IInv, TapInv, TapRead, Sending
  <2> QED  BY <2>2, <2>3, <2>4, TapMoves DEF TapRead, Sending, IInv, TypeOK
<1> QED  BY <1>2, <1>3 DEF TapRead

LEMMA DenyKeeps == ASSUME IInv, NEW t \in Taps, TapDeny(t) PROVE IInv'
<1> DEFINE r == tap[t].run
<1>1. r \in Runs
  BY DEF IInv, TapInv, TapDeny
<1>2. PICK R \in SUBSET Runs : Declines(R)
  <2>1. CASE run[r].status = "pending"
    <3>1. /\ run'[r].status = "denied" /\ run'[r] \in RunRow
          /\ run'[r].owner = run[r].owner /\ run'[r].boundary = run[r].boundary
          /\ run'[r].external = run[r].external
          /\ \A q \in Runs \ {r} : run'[q] = run[q]
          /\ run' \in [Runs -> RunRow]
      BY <1>1, <2>1 DEF IInv, TypeOK, RunRow, Statuses, TapDeny
    <3>2. Declines({r})
      BY <1>1, <2>1, <3>1 DEF Declines
    <3> QED  BY <1>1, <3>2
  <2>2. CASE run[r].status # "pending"
    <3>1. Declines({})
      BY <2>2 DEF IInv, TypeOK, Declines, TapDeny
    <3> QED  BY <3>1
  <2> QED  BY <2>1, <2>2
<1>3. /\ tap' \in [Taps -> TapState] /\ TapInv(t)' /\ tap'[t].pc \notin Sending
      /\ \A u \in Taps \ {t} : tap'[u] = tap[u]
  BY Leaves DEF TapDeny
<1> QED  BY <1>2, <1>3, DeclineKeeps DEF TapDeny

----------------------------------------------------------------------------
(* The request that sends a run.                                           *)

Elsewhere(r) ==
  \A q \in Runs \ {r} :
    /\ run'[q] = run[q] /\ granted'[q] = granted[q] /\ carried'[q] = carried[q]
    /\ outside'[q] = outside[q] /\ acknowledged'[q] = acknowledged[q]
    /\ (q \in unlogged' <=> q \in unlogged)

OnlySender(t, r) == \A u \in Taps \ {t} : tap[u].pc \in Sending => tap[u].run # r

LEMMA SenderIsAlone ==
  ASSUME IInv, NEW t \in Taps, tap[t].pc \in Sending
  PROVE  tap[t].run \in Runs /\ OnlySender(t, tap[t].run) /\ granted[tap[t].run] # None
BY DEF IInv, Alone, OnlySender, TapInv, Sending

\* A run and the one request that sends it move, and nothing else does.
LEMMA SenderKeeps ==
  ASSUME IInv, NEW t \in Taps, NEW r \in Runs, tap[t].run = r, OnlySender(t, r),
         TypeOK', UNCHANGED admin, Elsewhere(r), \A u \in Taps \ {t} : tap'[u] = tap[u],
         tap'[t].pc \in Sending => tap'[t].run = r,
         run'[r].status # "none", RunInv(r)', TapInv(t)', Traces'
  PROVE  IInv'
<1>1. (\A q \in Runs : RunInv(q))'
  BY DEF IInv, RunInv, Untouched, Elsewhere
<1>2. ASSUME NEW u \in Taps \ {t} PROVE TapInv(u)'
  <2>1. TapInv(u) /\ tap'[u] = tap[u]
    BY DEF IInv
  <2>2. CASE tap[u].run = r
    BY <2>1, <2>2 DEF TapInv, OnlySender, Sending
  <2>3. CASE tap[u].run \in Runs \ {r}
    BY <2>1, <2>3 DEF TapInv, Untouched, Elsewhere
  <2>4. CASE tap[u].pc = "idle"
    BY <2>1, <2>4 DEF TapInv, Sending
  <2> QED  BY <2>1, <2>2, <2>3, <2>4 DEF TapInv
<1>3. Alone'
  BY DEF IInv, Alone, OnlySender
<1>4. AtItsBase'
  BY DEF IInv, AtItsBase
<1> QED  BY <1>1, <1>2, <1>3, <1>4 DEF IInv

LEMMA ClaimKeeps == ASSUME IInv, NEW t \in Taps, TapClaim(t) PROVE IInv'
<1> DEFINE r == tap[t].run
<1>1. r \in Runs
  BY DEF IInv, TapInv, TapClaim
<1>2. CASE Waiting(t)
  <2>1. /\ run[r].status = "pending" /\ granted[r] = None /\ Untouched(r) /\ r \notin unlogged
        /\ run[r].owner \in Owners
    BY <1>1, <1>2 DEF IInv, RunInv, Traces, AsPrepared, Waiting
  <2>2. OnlySender(t, r)
    BY <2>1 DEF IInv, TapInv, OnlySender
  <2>3. Goto(t, "check") /\ tap[t].pc = "claim"
    BY <1>2 DEF TapClaim
  <2>4. /\ tap' \in [Taps -> TapState] /\ tap'[t].pc = "check" /\ tap'[t].run = r
        /\ \A u \in Taps \ {t} : tap'[u] = tap[u]
    BY <2>3, Goes DEF Sending
  <2>5. /\ run'[r].status = "running" /\ run'[r].owner = run[r].owner
        /\ run'[r].boundary = run[r].boundary /\ run'[r].external = run[r].external
        /\ \A q \in Runs \ {r} : run'[q] = run[q]
        /\ run' \in [Runs -> RunRow]
    BY <1>1, <1>2 DEF IInv, TypeOK, RunRow, Statuses, TapClaim
  <2>6. /\ granted'[r] = run[r].owner /\ \A q \in Runs \ {r} : granted'[q] = granted[q]
        /\ granted' \in [Runs -> Owners \cup {None}]
    BY <1>1, <1>2, <2>1 DEF IInv, TypeOK, TapClaim
  <2>7. UNCHANGED <<rows, lapsed, events, admin, arrived, outside, carried, sent, acknowledged,
                    unlogged, changes, trouble>>
    BY DEF TapClaim
  <2>8. TypeOK'
    BY <2>4, <2>5, <2>6, <2>7 DEF IInv, TypeOK, rows, slot
  <2>9. Elsewhere(r)
    BY <2>5, <2>6, <2>7 DEF Elsewhere
  <2>10. RunInv(r)' /\ TapInv(t)'
    BY <1>1, <2>1, <2>4, <2>5, <2>6, <2>7, NoneAssumption DEF RunInv, TapInv, Untouched, Sending
  <2>11. Traces'
    BY <1>1, <2>1, <2>5, <2>6, <2>7, NoneAssumption DEF IInv, TypeOK, Traces, AsPrepared
  <2> QED
    BY <1>1, <2>2, <2>4, <2>5, <2>7, <2>8, <2>9, <2>10, <2>11, SenderKeeps
<1>3. CASE ~Waiting(t)
  BY <1>3, Leaves, TapMoves DEF TapClaim, history, IInv, TypeOK
<1> QED  BY <1>2, <1>3

\* The run of a request gets another status, and the request leaves or goes on.
Becomes(r, status) ==
  /\ run' \in [Runs -> RunRow] /\ \A q \in Runs \ {r} : run'[q] = run[q]
  /\ run'[r].status = status
  /\ run'[r].owner = run[r].owner /\ run'[r].boundary = run[r].boundary

LEMMA StatusKeeps ==
  ASSUME IInv, NEW t \in Taps, tap[t].pc \in Sending, NEW status \in Statuses \ {"none", "pending"},
         Becomes(tap[t].run, status),
         status = "succeeded" => outside[tap[t].run] = "succeeded",
         acknowledged[tap[t].run] = None \/ tap[t].run \in unlogged,
         tap' \in [Taps -> TapState], \A u \in Taps \ {t} : tap'[u] = tap[u],
         tap'[t].pc \in {"idle", "log"}, tap'[t].pc = "log" => tap'[t].run = tap[t].run,
         UNCHANGED <<rows, lapsed, events, admin, arrived, outside, history, changes, trouble>>
  PROVE  IInv'
<1>0. PICK r \in Runs : r = tap[t].run
  BY SenderIsAlone
<1>1. OnlySender(t, r) /\ granted[r] # None
  BY <1>0, SenderIsAlone
<1>2. /\ run'[r].status = status /\ run'[r].owner = run[r].owner
      /\ run'[r].boundary = run[r].boundary
      /\ \A q \in Runs \ {r} : run'[q] = run[q]
      /\ run' \in [Runs -> RunRow]
  BY <1>0 DEF Becomes
<1>3. TypeOK'
  BY <1>2 DEF IInv, TypeOK, rows, slot, history
<1>4. Elsewhere(r)
  BY <1>2 DEF Elsewhere, history
<1>5. run[r].status # "none"
  BY <1>1 DEF IInv, RunInv
<1>6. RunInv(r)'
  BY <1>0, <1>1, <1>2, <1>5 DEF IInv, RunInv, history
<1>7. TapInv(t)'
  BY <1>0, <1>1, <1>2 DEF TapInv, Sending, history
<1>8. Traces'
  BY <1>1, <1>2 DEF IInv, TypeOK, Traces, AsPrepared, history
<1> QED
  BY <1>0, <1>1, <1>2, <1>3, <1>4, <1>6, <1>7, <1>8, SenderKeeps DEF Sending

LEMMA CheckKeeps == ASSUME IInv, NEW t \in Taps, TapCheck(t) PROVE IInv'
<1>1. tap[t].pc = "check" /\ tap[t].pc \in Sending
  BY DEF TapCheck, Sending
<1>2. /\ tap[t].run \in Runs /\ acknowledged[tap[t].run] = None /\ run[tap[t].run].external \in BOOLEAN
      /\ tap[t] \in TapState
  BY <1>1, SenderIsAlone DEF IInv, TypeOK, TapInv, Untouched, RunRow
<1>3. CASE Unchanged(t)
  <2>1. Goto(t, "secret") /\ run' = run
    BY <1>3 DEF TapCheck
  <2>2. "secret" \in Sending
    BY DEF Sending
  <2>3. TapInv(t)'
    BY <1>1, <1>3, <2>1, <2>2, Goes DEF IInv, TapInv, TapCheck, Unchanged, Untouched, history, Sending
  <2> QED  BY <1>1, <2>1, <2>2, <2>3, Goes, TapMoves DEF TapCheck, IInv, TypeOK
<1>4. CASE ~Unchanged(t)
  <2>1. Becomes(tap[t].run, "denied")
    BY <1>2, <1>4 DEF TapCheck, IInv, TypeOK, RunRow, Statuses, Becomes
  <2>2. Leave(t) /\ tap'[t].pc = "idle"
    BY <1>4 DEF TapCheck, Leave, IdleTap, IInv, TypeOK
  <2>3. tap' \in [Taps -> TapState] /\ \A u \in Taps \ {t} : tap'[u] = tap[u]
    BY <2>2, Leaves
  <2> QED  BY <1>1, <1>2, <2>1, <2>2, <2>3, StatusKeeps DEF TapCheck, Statuses
<1> QED  BY <1>3, <1>4

LEMMA SecretKeeps == ASSUME IInv, NEW t \in Taps, TapSecret(t) PROVE IInv'
<1>1. tap[t].pc = "secret" /\ tap[t].pc \in Sending /\ "send" \in Sending
  BY DEF TapSecret, Sending
<1>2. CASE tap' = [tap EXCEPT ![t].pc = "send", ![t].token = vault]
  <2>1. tap[t] \in TapState /\ vault \in Nat
    BY DEF IInv, TypeOK
  <2>2. /\ tap'[t] \in TapState /\ tap'[t].pc = "send" /\ tap'[t].run = tap[t].run
        /\ tap'[t].boundary = tap[t].boundary
    BY <1>1, <1>2, <2>1 DEF IInv, TypeOK, TapState
  <2>3. tap' \in [Taps -> TapState] /\ \A u \in Taps \ {t} : tap'[u] = tap[u]
    BY <1>2, <2>2 DEF IInv, TypeOK
  <2>4. TapInv(t)'
    BY <1>1, <2>2 DEF IInv, TapInv, TapSecret, Untouched, history, Sending
  <2> QED  BY <1>1, <2>2, <2>3, <2>4, TapMoves DEF TapSecret, IInv, TypeOK
<1>3. CASE Leave(t)
  BY <1>3, Leaves, TapMoves DEF TapSecret, IInv, TypeOK
<1> QED  BY <1>2, <1>3 DEF TapSecret

LEMMA SendKeeps == ASSUME IInv, NEW t \in Taps, TapSend(t) PROVE IInv'
<1>1. tap[t].pc = "send" /\ tap[t].pc \in Sending
  BY DEF TapSend, Sending
<1>2. PICK r \in Runs : r = tap[t].run
  BY <1>1, SenderIsAlone
<1>3. /\ OnlySender(t, r) /\ granted[r] # None /\ Untouched(r) /\ r \notin unlogged
      /\ run[r].boundary = tap[t].boundary /\ run[r].status # "none" /\ tap[t] \in TapState
      /\ run[r].status # "succeeded"
  BY <1>1, <1>2, SenderIsAlone DEF IInv, TypeOK, TapInv, RunInv, Untouched
<1>4. PICK what \in {"none", "running", "succeeded", "failed"} :
        /\ outside' = [outside EXCEPT ![r] = what]
        /\ \/ /\ what \in {"running", "succeeded"}
              /\ tap' = [tap EXCEPT ![t].pc = "record", ![t].result = what]
           \/ Goto(t, "caught")
  BY <1>2 DEF TapSend, Completed
<1>5. /\ outside'[r] = what /\ \A q \in Runs \ {r} : outside'[q] = outside[q]
      /\ outside' \in [Runs -> {"none", "running", "succeeded", "failed"}]
  BY <1>4 DEF IInv, TypeOK
<1>6. /\ carried'[r] = carried[r] + 1 /\ \A q \in Runs \ {r} : carried'[q] = carried[q]
      /\ carried' \in [Runs -> Nat]
  BY <1>2 DEF IInv, TypeOK, TapSend
<1>7. /\ tap' \in [Taps -> TapState] /\ \A u \in Taps \ {t} : tap'[u] = tap[u]
      /\ tap'[t].pc \in {"record", "caught"} /\ tap'[t].run = r
      /\ (tap'[t].pc = "record" /\ tap'[t].result = "succeeded" => what = "succeeded")
  <2>1. CASE what \in {"running", "succeeded"} /\ tap' = [tap EXCEPT ![t].pc = "record", ![t].result = what]
    BY <1>2, <1>3, <2>1 DEF IInv, TypeOK, TapState, Sending
  <2>2. CASE Goto(t, "caught")
    BY <1>2, <2>2, Goes DEF Sending
  <2> QED  BY <1>4, <2>1, <2>2
<1>8. /\ sent' = sent \cup {[run |-> r, base |-> run[r].boundary.base,
                              target |-> run[r].boundary.target, token |-> tap[t].token]}
      /\ UNCHANGED <<rows, run, lapsed, events, admin, arrived, granted, acknowledged, unlogged,
                     changes, trouble>>
  BY <1>2, <1>3 DEF TapSend
<1>9. run[r].boundary \in Boundaries
  BY DEF IInv, TypeOK, RunRow
<1>10. sent' \subseteq [run : Runs, base : Bases \cup {None}, target : Targets \cup {None},
                          token : Nat]
  BY <1>3, <1>8, <1>9 DEF IInv, TypeOK, TapState, Boundaries
<1>11. TypeOK'
  BY <1>5, <1>6, <1>7, <1>8, <1>10 DEF IInv, TypeOK, rows, slot
<1>12. Elsewhere(r)
  BY <1>5, <1>6, <1>8 DEF Elsewhere
<1>13. RunInv(r)' /\ TapInv(t)'
  BY <1>3, <1>5, <1>6, <1>7, <1>8 DEF IInv, RunInv, TapInv, Untouched, Sending
<1>14. Traces'
  <2>1. \A x \in arrived : x[2] \in Runs /\ x[2] # r
    BY <1>3 DEF IInv, TypeOK, Traces, AsPrepared, Untouched
  <2>2. \A x \in arrived' : outside'[x[2]] \in {"succeeded", "failed"}
    BY <1>5, <1>8, <2>1 DEF IInv, Traces, AsPrepared
  <2>3. \A s \in sent' : granted'[s.run] # None /\ AsPrepared(s)'
    BY <1>3, <1>8 DEF IInv, Traces, AsPrepared
  <2> QED  BY <1>8, <2>2, <2>3 DEF IInv, Traces, AsPrepared
<1> QED
  BY <1>2, <1>3, <1>7, <1>8, <1>11, <1>12, <1>13, <1>14, SenderKeeps DEF Sending

LEMMA RecordKeeps == ASSUME IInv, NEW t \in Taps, TapRecord(t) PROVE IInv'
<1>1. tap[t].pc = "record" /\ tap[t].pc \in Sending /\ "log" \in Sending
  BY DEF TapRecord, Sending
<1>2. /\ tap[t].run \in Runs /\ acknowledged[tap[t].run] = None /\ tap[t] \in TapState
      /\ (tap[t].result = "succeeded" => outside[tap[t].run] = "succeeded")
  BY <1>1, SenderIsAlone DEF IInv, TypeOK, TapInv
<1>3. tap[t].result \in Statuses \ {"none", "pending"}
  BY <1>2 DEF TapState, Statuses
<1>4. Becomes(tap[t].run, tap[t].result)
  BY <1>2, <1>3 DEF TapRecord, IInv, TypeOK, RunRow, Becomes
<1>5. /\ tap' \in [Taps -> TapState] /\ tap'[t].pc = "log" /\ tap'[t].run = tap[t].run
      /\ \A u \in Taps \ {t} : tap'[u] = tap[u]
  BY <1>1, Goes DEF TapRecord
<1> QED  BY <1>1, <1>2, <1>3, <1>4, <1>5, StatusKeeps DEF TapRecord

LEMMA LogKeeps == ASSUME IInv, NEW t \in Taps, TapLog(t) PROVE IInv'
BY Leaves, TapMoves DEF TapLog, IInv, TypeOK

LEMMA ThrowsKeeps == ASSUME IInv, NEW t \in Taps, TapThrows(t) PROVE IInv'
<1>1. tap[t].pc \in {"record", "log"} /\ tap[t].pc \in Sending /\ "caught" \in Sending
  BY DEF TapThrows, Sending
<1>2. PICK r \in Runs : r = tap[t].run
  BY <1>1, SenderIsAlone
<1>3. OnlySender(t, r) /\ granted[r] # None /\ RunInv(r) /\ run[r].status # "none"
  BY <1>1, <1>2, SenderIsAlone DEF IInv, RunInv
<1>4. /\ tap' \in [Taps -> TapState] /\ tap'[t].pc = "caught" /\ tap'[t].run = r
      /\ \A u \in Taps \ {t} : tap'[u] = tap[u]
  BY <1>1, <1>2, Goes DEF TapThrows
<1>5. /\ unlogged' = unlogged \cup {r} /\ trouble < MaxTrouble /\ trouble' = trouble + 1
      /\ UNCHANGED <<rows, run, lapsed, events, admin, arrived, outside, granted, carried, sent,
                     acknowledged, changes>>
  BY <1>2 DEF TapThrows
<1>6. TypeOK'
  BY <1>4, <1>5, BoundsAssumption DEF IInv, TypeOK, rows, slot
<1>7. Elsewhere(r) /\ RunInv(r)'
  BY <1>3, <1>5 DEF Elsewhere, RunInv, Untouched
<1>8. TapInv(t)' /\ Traces'
  BY <1>3, <1>4, <1>5 DEF IInv, TapInv, Traces, AsPrepared, Sending
<1> QED  BY <1>2, <1>3, <1>4, <1>5, <1>6, <1>7, <1>8, SenderKeeps DEF Sending

LEMMA CaughtKeeps == ASSUME IInv, NEW t \in Taps, TapCaught(t) PROVE IInv'
<1>1. tap[t].pc = "caught" /\ tap[t].pc \in Sending
  BY DEF TapCaught, Sending
<1>2. /\ tap[t].run \in Runs
      /\ acknowledged[tap[t].run] = None \/ tap[t].run \in unlogged
  BY <1>1, SenderIsAlone DEF IInv, TapInv
<1>3. Becomes(tap[t].run, "failed")
  BY <1>2 DEF TapCaught, IInv, TypeOK, RunRow, Statuses, Becomes
<1>4. Leave(t) /\ tap'[t].pc = "idle"
  BY DEF TapCaught, Leave, IdleTap, IInv, TypeOK
<1>5. tap' \in [Taps -> TapState] /\ \A u \in Taps \ {t} : tap'[u] = tap[u]
  BY <1>4, Leaves
<1> QED  BY <1>1, <1>2, <1>3, <1>4, <1>5, StatusKeeps DEF TapCaught, Statuses

LEMMA DieKeeps == ASSUME IInv, NEW t \in Taps, Die(t) PROVE IInv'
<1>1. trouble' \in 0..MaxTrouble
  BY BoundsAssumption DEF IInv, TypeOK, Die
<1> QED  BY <1>1, Leaves, TapMoves DEF Die

----------------------------------------------------------------------------
(* The provider.                                                           *)

LEMMA EndsKeeps == ASSUME IInv, NEW r \in Runs, Ends(r) PROVE IInv'
<1>1. PICK what \in {"succeeded", "failed"} : outside' = [outside EXCEPT ![r] = what]
  BY DEF Ends
<1>2. /\ outside[r] = "running" /\ outside'[r] = what
      /\ \A q \in Runs \ {r} : outside'[q] = outside[q]
      /\ outside' \in [Runs -> {"none", "running", "succeeded", "failed"}]
  BY <1>1 DEF Ends, IInv, TypeOK
<1>3. UNCHANGED <<rows, run, lapsed, events, tap, admin, arrived, granted, carried, sent,
                  acknowledged, unlogged, changes, trouble>>
  BY DEF Ends, history
<1>4. TypeOK' /\ AtItsBase'
  BY <1>2, <1>3 DEF IInv, TypeOK, AtItsBase, rows, slot
<1>5. (\A q \in Runs : RunInv(q))'
  BY <1>2, <1>3 DEF IInv, RunInv, Untouched
<1>6. ASSUME NEW t \in Taps PROVE TapInv(t)'
  BY <1>2, <1>3 DEF IInv, TapInv, Untouched, Sending
<1>7. Alone' /\ Traces'
  BY <1>2, <1>3 DEF IInv, TypeOK, Alone, Traces, AsPrepared
<1> QED  BY <1>4, <1>5, <1>6, <1>7 DEF IInv

LEMMA CallbackKeeps ==
  ASSUME IInv, NEW d \in Deliveries, NEW r \in Runs, Callback(d, r) PROVE IInv'
<1>1. TypeOK' /\ AtItsBase'
  BY DEF IInv, TypeOK, AtItsBase, Callback, rows, slot, history
<1>2. (\A q \in Runs : RunInv(q))' /\ (\A t \in Taps : TapInv(t))' /\ Alone'
  BY DEF IInv, RunInv, TapInv, Untouched, Alone, Callback, history
<1>3. Traces'
  BY DEF IInv, Traces, AsPrepared, Callback, history
<1> QED  BY <1>1, <1>2, <1>3 DEF IInv

LEMMA RecordCallbackKeeps ==
  ASSUME IInv, NEW d \in Deliveries, NEW r \in Runs, RecordCallback(d, r) PROVE IInv'
<1>1. /\ outside[r] \in {"succeeded", "failed"} /\ arrived' \subseteq arrived
      /\ UNCHANGED <<rows, lapsed, tap, admin, outside, granted, carried, sent, unlogged, changes,
                     trouble>>
  BY DEF IInv, Traces, AsPrepared, RecordCallback
<1>2. CASE UNCHANGED <<events, run, acknowledged>>
  <2>1. TypeOK' /\ AtItsBase'
    BY <1>1, <1>2 DEF IInv, TypeOK, AtItsBase, rows, slot
  <2>2. (\A q \in Runs : RunInv(q))' /\ (\A t \in Taps : TapInv(t))' /\ Alone'
    BY <1>1, <1>2 DEF IInv, RunInv, TapInv, Untouched, Alone
  <2>3. Traces'
    BY <1>1, <1>2 DEF IInv, Traces, AsPrepared
  <2> QED  BY <2>1, <2>2, <2>3 DEF IInv
<1>3. CASE run[r].external /\ run[r].status = "running" /\ events' = events \cup {r} /\ Settle(r)
  <2>1. Becomes(r, outside[r]) /\ run'[r].external = run[r].external
    BY <1>1, <1>3 DEF IInv, TypeOK, Settle, Becomes, RunRow, Statuses
  <2>2. /\ acknowledged'[r] = outside[r]
        /\ \A q \in Runs \ {r} : acknowledged'[q] = acknowledged[q]
        /\ acknowledged' \in [Runs -> {None, "succeeded", "failed"}]
    BY <1>1, <1>3 DEF IInv, TypeOK, Settle
  <2>3. TypeOK' /\ AtItsBase'
    BY <1>1, <1>3, <2>1, <2>2 DEF IInv, TypeOK, AtItsBase, Becomes, rows, slot
  <2>4. (\A q \in Runs : RunInv(q))'
    <3>1. granted[r] # None
      BY <1>3 DEF IInv, RunInv
    <3> QED  BY <1>1, <1>3, <2>1, <2>2, <3>1 DEF IInv, RunInv, Untouched, Becomes
  <2>5. ASSUME NEW t \in Taps PROVE TapInv(t)'
    <3>1. TapInv(t) /\ tap'[t] = tap[t]
      BY <1>1 DEF IInv
    <3>2. CASE tap[t].run = r
      BY <1>1, <1>3, <2>1, <3>1, <3>2 DEF TapInv, Untouched, Becomes, Sending
    <3>3. CASE tap[t].run \in Runs \ {r}
      BY <1>1, <2>1, <2>2, <3>1, <3>3 DEF TapInv, Untouched, Becomes
    <3>4. CASE tap[t].pc = "idle"
      BY <3>1, <3>4 DEF TapInv, Sending
    <3> QED  BY <3>1, <3>2, <3>3, <3>4 DEF TapInv
  <2>6. Alone' /\ Traces'
    BY <1>1, <2>1 DEF IInv, TypeOK, Alone, Traces, AsPrepared, Becomes
  <2> QED  BY <2>3, <2>4, <2>5, <2>6 DEF IInv
<1> QED  BY <1>2, <1>3 DEF RecordCallback

----------------------------------------------------------------------------
(* The administrators.                                                     *)

LEMMA ChangeCounts == ASSUME IInv, Change PROVE changes' \in 0..MaxChanges /\ changes + 1 \in Nat
BY BoundsAssumption DEF IInv, TypeOK, Change

\* A request of an administrator goes on, or ends.
LEMMA AdminMoves ==
  ASSUME IInv, NEW a \in Admins, NEW pc \in {"hide", "fetch", "active", "enable", "withdraw", "clear"},
         AdminGoto(a, pc) \/ admin' = [admin EXCEPT ![a] = IdleAdmin]
  PROVE  admin' \in [Admins -> AdminState] /\ AtItsBase'
<1>1. CASE AdminGoto(a, pc)
  BY <1>1 DEF IInv, TypeOK, AtItsBase, AdminGoto, AdminState
<1>2. CASE admin' = [admin EXCEPT ![a] = IdleAdmin]
  BY <1>2 DEF IInv, TypeOK, AtItsBase, IdleAdmin, AdminState
<1> QED  BY <1>1, <1>2

LEMMA SaveKeeps == ASSUME IInv, NEW a \in Admins, NEW b \in Bases, Save(a, b) PROVE IInv'
<1>1. integration' \in Integration
  BY DEF Save, IInv, TypeOK, Integration
<1>2. changes' + 1 \in Nat
  BY ChangeCounts, BoundsAssumption DEF Save
<1>3. admin' \in [Admins -> AdminState] /\ AtItsBase'
  BY <1>2 DEF Save, IInv, TypeOK, AtItsBase, AdminState
<1> QED  BY <1>1, <1>3, ChangeCounts, AdminKeeps DEF Save, IInv, TypeOK, slot

LEMMA SaveStoreKeeps == ASSUME IInv, NEW a \in Admins, SaveStore(a) PROVE IInv'
<1>1. admin' \in [Admins -> AdminState] /\ AtItsBase'
  BY DEF SaveStore, AdminGoto, IInv, TypeOK, AtItsBase, AdminState
<1>2. vault' \in Nat /\ replaced' \subseteq Runs
  <2>1. \A t \in Taps : tap[t].pc \in Deciding => tap[t].run \in Runs
    BY DEF IInv, TapInv, Deciding
  <2> QED  BY <2>1 DEF SaveStore, IInv, TypeOK, AdminState
<1> QED  BY <1>1, <1>2, AdminKeeps DEF SaveStore, IInv, TypeOK

LEMMA SaveRowKeeps == ASSUME IInv, NEW a \in Admins, SaveRow(a) PROVE IInv'
<1>1. integration' \in Integration
  BY DEF SaveRow, IInv, TypeOK, AtItsBase, AdminState, Integration
<1>2. admin' \in [Admins -> AdminState] /\ AtItsBase'
  BY AdminMoves DEF SaveRow
<1> QED  BY <1>1, <1>2, AdminKeeps DEF SaveRow, IInv, TypeOK, slot

LEMMA HideKeeps == ASSUME IInv, NEW a \in Admins, Hide(a) PROVE IInv'
<1>1. definition' \in Definition
  BY DEF Hide, IInv, TypeOK, Definition
<1>2. admin' \in [Admins -> AdminState] /\ AtItsBase'
  BY AdminMoves DEF Hide
<1> QED  BY <1>1, <1>2, AdminKeeps DEF Hide, IInv, TypeOK, slot

LEMMA DiscoverKeeps == ASSUME IInv, NEW a \in Admins, Discover(a) PROVE IInv'
<1>1. admin' \in [Admins -> AdminState] /\ AtItsBase'
  BY AdminMoves DEF Discover
<1> QED  BY <1>1, ChangeCounts, AdminKeeps DEF Discover, IInv, TypeOK, rows, slot

LEMMA DiscoverFoundKeeps == ASSUME IInv, NEW a \in Admins, DiscoverFound(a) PROVE IInv'
<1>1. definition' \in Definition
  BY DEF DiscoverFound, IInv, TypeOK, Definition
<1>2. admin' \in [Admins -> AdminState] /\ AtItsBase'
  BY AdminMoves DEF DiscoverFound
<1> QED  BY <1>1, <1>2, AdminKeeps DEF DiscoverFound, IInv, TypeOK, slot

LEMMA DiscoverFailsKeeps == ASSUME IInv, NEW a \in Admins, DiscoverFails(a) PROVE IInv'
<1>1. integration' \in Integration
  BY DEF DiscoverFails, IInv, TypeOK, Integration
<1>2. admin' \in [Admins -> AdminState] /\ AtItsBase'
  BY AdminMoves DEF DiscoverFails
<1> QED  BY <1>1, <1>2, AdminKeeps DEF DiscoverFails, IInv, TypeOK, slot

LEMMA EnablingKeeps == ASSUME IInv, NEW a \in Admins, Activate(a) \/ Enable(a) PROVE IInv'
<1>1. integration' \in Integration
  BY DEF Activate, Enable, IInv, TypeOK, Integration
<1>2. admin' \in [Admins -> AdminState] /\ AtItsBase'
  BY AdminMoves DEF Activate, Enable
<1> QED  BY <1>1, <1>2, AdminKeeps DEF Activate, Enable, IInv, TypeOK, slot

LEMMA DisconnectKeeps == ASSUME IInv, NEW a \in Admins, Disconnect(a) PROVE IInv'
<1>1. integration' \in Integration
  BY DEF Disconnect, IInv, TypeOK, Integration
<1>2. admin' \in [Admins -> AdminState] /\ AtItsBase'
  BY AdminMoves DEF Disconnect
<1> QED  BY <1>1, <1>2, ChangeCounts, AdminKeeps DEF Disconnect, IInv, TypeOK, slot

LEMMA DisconnectClearKeeps == ASSUME IInv, NEW a \in Admins, DisconnectClear(a) PROVE IInv'
<1>1. admin' \in [Admins -> AdminState] /\ AtItsBase'
  BY AdminMoves DEF DisconnectClear
<1> QED  BY <1>1, AdminKeeps DEF DisconnectClear, IInv, TypeOK

LEMMA ExposeKeeps == ASSUME IInv, NEW on \in BOOLEAN, Expose(on) PROVE IInv'
<1>1. definition' \in Definition
  BY DEF Expose, IInv, TypeOK, Definition
<1>2. admin' \in [Admins -> AdminState] /\ AtItsBase'
  BY DEF Expose, IInv, TypeOK, AtItsBase
<1> QED  BY <1>1, <1>2, ChangeCounts, AdminKeeps DEF Expose, IInv, TypeOK, slot

LEMMA RegisterWebhookKeeps == ASSUME IInv, NEW target \in Targets, RegisterWebhook(target) PROVE IInv'
<1>1. definition' \in Definition
  BY DEF RegisterWebhook, IInv, TypeOK, Definition
<1>2. admin' \in [Admins -> AdminState] /\ AtItsBase'
  BY DEF RegisterWebhook, IInv, TypeOK, AtItsBase
<1> QED  BY <1>1, <1>2, ChangeCounts, AdminKeeps DEF RegisterWebhook, IInv, TypeOK, slot

----------------------------------------------------------------------------
(* The theorems.                                                           *)

LEMMA NextKeeps == ASSUME IInv, Next PROVE IInv'
<1>1. ASSUME NEW r \in Runs, NEW u \in Owners, Request(r, u) PROVE IInv'
  BY <1>1, RequestKeeps
<1>2. ASSUME NEW r \in Runs, Lapse(r) \/ Ends(r) PROVE IInv'
  BY <1>2, LapseKeeps, EndsKeeps
<1>3. ASSUME NEW u \in Owners, History(u) PROVE IInv'
  BY <1>3, HistoryKeeps
<1>4. ASSUME NEW t \in Taps, NEW u \in Owners, NEW r \in Runs, NEW approve \in BOOLEAN,
             Tap(t, u, r, approve)
      PROVE  IInv'
  BY <1>4, TapKeeps
<1>5. ASSUME NEW t \in Taps, TapStep(t) \/ TapThrows(t) \/ Die(t) PROVE IInv'
  BY <1>5, ReadKeeps, DenyKeeps, ClaimKeeps, CheckKeeps, SecretKeeps, SendKeeps, RecordKeeps,
     LogKeeps, CaughtKeeps, ThrowsKeeps, DieKeeps DEF TapStep
<1>6. ASSUME NEW d \in Deliveries, NEW r \in Runs, Callback(d, r) \/ RecordCallback(d, r) PROVE IInv'
  BY <1>6, CallbackKeeps, RecordCallbackKeeps
<1>7. ASSUME NEW a \in Admins, AdminStep(a) PROVE IInv'
  BY <1>7, SaveKeeps, SaveStoreKeeps, SaveRowKeeps, HideKeeps, DiscoverKeeps, DiscoverFoundKeeps,
     DiscoverFailsKeeps, EnablingKeeps, DisconnectKeeps, DisconnectClearKeeps DEF AdminStep
<1>8. ASSUME NEW on \in BOOLEAN, Expose(on) PROVE IInv'
  BY <1>8, ExposeKeeps
<1>9. ASSUME NEW target \in Targets, RegisterWebhook(target) PROVE IInv'
  BY <1>9, RegisterWebhookKeeps
<1> QED  BY <1>1, <1>2, <1>3, <1>4, <1>5, <1>6, <1>7, <1>8, <1>9 DEF Next

LEMMA StutterKeeps == ASSUME IInv, UNCHANGED vars PROVE IInv'
<1>1. TypeOK' /\ AtItsBase'
  BY DEF IInv, TypeOK, AtItsBase, vars, rows, slot, history
<1>2. UNCHANGED <<run, tap, arrived, outside, history>>
  BY DEF vars
<1> QED  BY <1>1, <1>2, RunsKept DEF IInv

\* The inductive invariant holds in every state of every behaviour.
THEOREM Invariance == Spec => []IInv
<1>1. IInv /\ [Next]_vars => IInv'
  BY NextKeeps, StutterKeeps
<1> QED  BY <1>1, InitIInv, PTL DEF Spec

\* The rows, the requests and the histories keep their types.
THEOREM TypeCorrect == Spec => []TypeOK
<1>1. IInv => TypeOK
  BY DEF IInv
<1> QED  BY <1>1, Invariance, PTL

\* Whatever administrators change while a decision is carried out, what is sent
\* goes to the address and runs the target that the run was prepared for.
THEOREM SentAsPreparedAlways == Spec => []SentAsPrepared
<1>1. IInv => SentAsPrepared
  BY DEF IInv, Traces, AsPrepared, SentAsPrepared
<1> QED  BY <1>1, Invariance, PTL

\* No answer, callback or failure of the log makes a run read as succeeded that the
\* provider did not complete.
THEOREM SucceededWasReportedAlways == Spec => []SucceededWasReported
<1>1. IInv => SucceededWasReported
  BY DEF IInv, RunInv, SucceededWasReported
<1> QED  BY <1>1, Invariance, PTL

\* What an acknowledged callback said is not overwritten by the request that sent
\* the run, nor by any other.
THEOREM AcknowledgedStaysAlways == Spec => []AcknowledgedStays
<1>1. IInv => AcknowledgedStays
  BY DEF IInv, RunInv, AcknowledgedStays
<1> QED  BY <1>1, Invariance, PTL

----------------------------------------------------------------------------
(* The runs implement ConsentOnce.                                         *)

\* The phase of a row, and what the abstract specification calls it.
LEMMA PhaseOf ==
  ASSUME IInv, NEW r \in Runs
  PROVE  /\ (Phase[r] = "granted" <=> granted[r] # None)
         /\ (Phase[r] = "unasked" <=> run[r].status = "none")
         /\ (Phase[r] = "asked" <=> run[r].status = "pending")
         /\ Phase[r] \in {"unasked", "asked", "granted", "refused"}
BY DEF Phase, IInv, RunInv

\* A step that asks, decides and sends nothing.
SaysTheSame ==
  /\ UNCHANGED <<granted, carried>>
  /\ \A r \in Runs : /\ run'[r].owner = run[r].owner
                     /\ (run[r].status = "none" <=> run'[r].status = "none")
                     /\ (run[r].status = "pending" <=> run'[r].status = "pending")

LEMMA SameStutters == ASSUME IInv, SaysTheSame PROVE UNCHANGED Consent!vars
BY DEF SaysTheSame, Phase, Consent!vars

\* Runs that stop waiting unanswered are refused.
LEMMA DeclineRefines ==
  ASSUME IInv, NEW R \in SUBSET Runs, Declines(R), UNCHANGED <<granted, carried>>
  PROVE  Consent!Next
<1>1. \A r \in R : Phase[r] = "asked" /\ granted[r] = None
  BY PhaseOf DEF Declines, IInv, RunInv
<1>2. Phase' = [r \in Runs |-> IF r \in R THEN "refused" ELSE Phase[r]]
  <2>1. ASSUME NEW r \in R PROVE Phase'[r] = "refused"
    BY <1>1, <2>1 DEF Phase, Declines
  <2>2. ASSUME NEW r \in Runs \ R PROVE Phase'[r] = Phase[r]
    BY <2>2 DEF Phase, Declines
  <2>3. Phase' = [r \in Runs |-> Phase'[r]]
    BY DEF Phase
  <2> QED  BY <2>1, <2>2, <2>3
<1>3. [r \in Runs |-> run[r].owner]' = [r \in Runs |-> run[r].owner]
  BY DEF Declines
<1>4. Consent!Refuse(R)
  BY <1>1, <1>2, <1>3 DEF Consent!Refuse
<1> QED  BY <1>4 DEF Consent!Next

LEMMA RequestRefines == ASSUME IInv, NEW r \in Runs, NEW u \in Owners, Request(r, u) PROVE Consent!Next
<1>1. /\ run[r].status = "none" /\ run'[r].status = "pending" /\ run'[r].owner = u
      /\ \A q \in Runs \ {r} : run'[q] = run[q]
      /\ UNCHANGED <<granted, carried>>
  BY DEF Request, IInv, TypeOK, history
<1>2. Phase[r] = "unasked" /\ Phase' = [Phase EXCEPT ![r] = "asked"]
  BY <1>1, PhaseOf DEF Phase
<1>3. [q \in Runs |-> run[q].owner]' = [[q \in Runs |-> run[q].owner] EXCEPT ![r] = u]
  BY <1>1
<1>4. Consent!Ask(r, u)
  BY <1>1, <1>2, <1>3 DEF Consent!Ask
<1> QED  BY <1>4 DEF Consent!Next

LEMMA HistoryRefines == ASSUME IInv, NEW u \in Owners, History(u) PROVE Consent!Next
<1> DEFINE R == {r \in lapsed : run[r].owner = u}
<1>1. R \in SUBSET Runs /\ {r \in R : run[r].status = "pending"} \in SUBSET Runs
  BY DEF IInv, TypeOK
<1>2. Declines({r \in R : run[r].status = "pending"})
  BY <1>1, ExpiredDeclines DEF History
<1> QED  BY <1>1, <1>2, DeclineRefines DEF History, history

LEMMA TapRefines ==
  ASSUME IInv, NEW t \in Taps, NEW u \in Owners, NEW r \in Runs, NEW approve \in BOOLEAN,
         Tap(t, u, r, approve)
  PROVE  Consent!Next
<1>1. lapsed \in SUBSET Runs /\ {q \in lapsed : run[q].status = "pending"} \in SUBSET Runs
  BY DEF IInv, TypeOK
<1>2. Declines({q \in lapsed : run[q].status = "pending"})
  BY <1>1, ExpiredDeclines DEF Tap
<1> QED  BY <1>1, <1>2, DeclineRefines DEF Tap, history

LEMMA DenyRefines ==
  ASSUME IInv, NEW t \in Taps, TapDeny(t) PROVE [Consent!Next]_(Consent!vars)
<1>1. PICK r \in Runs : r = tap[t].run
  BY DEF IInv, TapInv, TapDeny
<1>2. CASE run[r].status = "pending"
  <2>1. Declines({r})
    BY <1>1, <1>2 DEF IInv, TypeOK, RunRow, Statuses, TapDeny, Declines
  <2> QED  BY <2>1, DeclineRefines DEF TapDeny, history
<1>3. CASE run[r].status # "pending"
  <2>1. SaysTheSame
    BY <1>1, <1>3 DEF TapDeny, SaysTheSame, history
  <2> QED  BY <2>1, SameStutters
<1> QED  BY <1>2, <1>3

LEMMA ClaimRefines ==
  ASSUME IInv, NEW t \in Taps, TapClaim(t) PROVE [Consent!Next]_(Consent!vars)
<1>1. PICK r \in Runs : r = tap[t].run
  BY DEF IInv, TapInv, TapClaim
<1>2. CASE Waiting(t)
  <2>1. run[r].status = "pending" /\ run[r].owner # None
    BY <1>1, <1>2, NoneAssumption DEF Waiting, IInv, RunInv
  <2>2. /\ run'[r].status = "running" /\ run'[r].owner = run[r].owner
        /\ \A q \in Runs \ {r} : run'[q] = run[q]
        /\ granted' = [granted EXCEPT ![r] = run[r].owner] /\ carried' = carried
    BY <1>1, <1>2 DEF TapClaim, IInv, TypeOK, RunRow
  <2>3. granted'[r] # None /\ \A q \in Runs \ {r} : granted'[q] = granted[q]
    BY <2>1, <2>2 DEF IInv, TypeOK
  <2>4. Phase[r] = "asked" /\ Phase' = [Phase EXCEPT ![r] = "granted"]
    BY <2>1, <2>2, <2>3, PhaseOf DEF Phase
  <2>5. [q \in Runs |-> run[q].owner]' = [q \in Runs |-> run[q].owner]
    BY <2>2
  <2>6. granted' = [granted EXCEPT ![r] = [q \in Runs |-> run[q].owner][r]]
    BY <2>2
  <2>7. Consent!Agree(r)
    BY <2>2, <2>4, <2>5, <2>6 DEF Consent!Agree
  <2> QED  BY <2>7 DEF Consent!Next
<1>3. CASE ~Waiting(t)
  <2>1. SaysTheSame
    BY <1>3 DEF TapClaim, SaysTheSame
  <2> QED  BY <2>1, SameStutters
<1> QED  BY <1>2, <1>3

LEMMA SendRefines == ASSUME IInv, NEW t \in Taps, TapSend(t) PROVE Consent!Next
<1>1. tap[t].pc = "send" /\ tap[t].pc \in Sending
  BY DEF TapSend, Sending
<1>2. PICK r \in Runs : r = tap[t].run
  BY <1>1, SenderIsAlone
<1>3. granted[r] = run[r].owner /\ granted[r] # None /\ carried[r] = 0
  BY <1>1, <1>2, SenderIsAlone DEF IInv, RunInv, TapInv, Untouched
<1>4. UNCHANGED <<run, granted>> /\ carried' = [carried EXCEPT ![r] = 1]
  BY <1>2, <1>3 DEF TapSend, IInv, TypeOK
<1>5. Phase[r] = "granted" /\ Phase' = Phase
  BY <1>3, <1>4, PhaseOf DEF Phase
<1>6. [q \in Runs |-> run[q].owner]' = [q \in Runs |-> run[q].owner]
  BY <1>4
<1>7. Consent!CarryOut(r)
  BY <1>3, <1>4, <1>5, <1>6 DEF Consent!CarryOut
<1> QED  BY <1>7 DEF Consent!Next

\* A request that sends a run gives it another status.
LEMMA StatusStutters ==
  ASSUME IInv, NEW r \in Runs, run[r].status \notin {"none", "pending"},
         NEW status \in Statuses \ {"none", "pending"}, Becomes(r, status),
         UNCHANGED <<granted, carried>>
  PROVE  UNCHANGED Consent!vars
<1>1. SaysTheSame
  BY DEF Becomes, SaysTheSame
<1> QED  BY <1>1, SameStutters

LEMMA SenderDecided ==
  ASSUME IInv, NEW t \in Taps, tap[t].pc \in Sending
  PROVE  tap[t].run \in Runs /\ run[tap[t].run].status \notin {"none", "pending"}
BY SenderIsAlone DEF IInv, RunInv

LEMMA SenderStutters ==
  ASSUME IInv, NEW t \in Taps, TapCheck(t) \/ TapRecord(t) \/ TapCaught(t)
  PROVE  UNCHANGED Consent!vars
<1>1. tap[t].pc \in Sending /\ UNCHANGED <<granted, carried>>
  BY DEF TapCheck, TapRecord, TapCaught, Sending, history
<1>2. tap[t].run \in Runs /\ run[tap[t].run].status \notin {"none", "pending"} /\ tap[t] \in TapState
  BY <1>1, SenderDecided DEF IInv, TypeOK
<1>0. run \in [Runs -> RunRow]
  BY DEF IInv, TypeOK
<1>3. CASE UNCHANGED run
  BY <1>1, <1>3, SameStutters DEF SaysTheSame
<1>4. CASE TapCheck(t) /\ ~UNCHANGED run
  <2>1. Becomes(tap[t].run, "denied")
    BY <1>0, <1>2, <1>4 DEF TapCheck, RunRow, Statuses, Becomes
  <2> QED  BY <1>1, <1>2, <2>1, StatusStutters DEF Statuses
<1>5. CASE TapRecord(t)
  <2>1. tap[t].result \in Statuses \ {"none", "pending"}
    BY <1>2 DEF TapState, Statuses
  <2>2. Becomes(tap[t].run, tap[t].result)
    BY <1>0, <1>2, <1>5, <2>1 DEF TapRecord, RunRow, Becomes
  <2> QED  BY <1>1, <1>2, <2>1, <2>2, StatusStutters
<1>6. CASE TapCaught(t)
  <2>1. Becomes(tap[t].run, "failed")
    BY <1>2, <1>6 DEF TapCaught, IInv, TypeOK, RunRow, Statuses, Becomes
  <2> QED  BY <1>1, <1>2, <2>1, StatusStutters DEF Statuses
<1> QED  BY <1>3, <1>4, <1>5, <1>6

LEMMA CallbackStutters ==
  ASSUME IInv, NEW d \in Deliveries, NEW r \in Runs, RecordCallback(d, r)
  PROVE  UNCHANGED Consent!vars
<1>1. UNCHANGED <<granted, carried>> /\ outside[r] \in {"succeeded", "failed"}
  BY DEF RecordCallback, IInv, Traces, AsPrepared
<1>2. CASE UNCHANGED run
  BY <1>1, <1>2, SameStutters DEF SaysTheSame
<1>3. CASE run[r].status = "running" /\ Settle(r)
  <2>1. Becomes(r, outside[r])
    BY <1>1, <1>3 DEF IInv, TypeOK, Settle, Becomes, RunRow, Statuses
  <2> QED  BY <1>1, <1>3, <2>1, StatusStutters DEF Statuses
<1> QED  BY <1>2, <1>3 DEF RecordCallback

\* Everything else leaves the runs alone.
LEMMA OthersStutter ==
  ASSUME IInv, UNCHANGED <<run, granted, carried>>
  PROVE  UNCHANGED Consent!vars
BY SameStutters DEF SaysTheSame

LEMMA NextRefines == ASSUME IInv, Next PROVE [Consent!Next]_(Consent!vars)
<1>1. ASSUME NEW r \in Runs, NEW u \in Owners, Request(r, u) PROVE Consent!Next
  BY <1>1, RequestRefines
<1>2. ASSUME NEW r \in Runs, Lapse(r) \/ Ends(r) PROVE UNCHANGED Consent!vars
  BY <1>2, OthersStutter DEF Lapse, Ends, history
<1>3. ASSUME NEW u \in Owners, History(u) PROVE Consent!Next
  BY <1>3, HistoryRefines
<1>4. ASSUME NEW t \in Taps, NEW u \in Owners, NEW r \in Runs, NEW approve \in BOOLEAN,
             Tap(t, u, r, approve)
      PROVE  Consent!Next
  BY <1>4, TapRefines
<1>5. ASSUME NEW t \in Taps, TapStep(t) \/ TapThrows(t) \/ Die(t)
      PROVE  [Consent!Next]_(Consent!vars)
  <2>1. CASE TapRead(t) \/ TapSecret(t) \/ TapLog(t) \/ TapThrows(t) \/ Die(t)
    BY <2>1, OthersStutter DEF TapRead, TapSecret, TapLog, TapThrows, Die, history
  <2>2. CASE TapDeny(t) \/ TapClaim(t) \/ TapSend(t)
    BY <2>2, DenyRefines, ClaimRefines, SendRefines
  <2>3. CASE TapCheck(t) \/ TapRecord(t) \/ TapCaught(t)
    BY <2>3, SenderStutters
  <2> QED  BY <1>5, <2>1, <2>2, <2>3 DEF TapStep
<1>6. ASSUME NEW d \in Deliveries, NEW r \in Runs, Callback(d, r) \/ RecordCallback(d, r)
      PROVE  UNCHANGED Consent!vars
  BY <1>6, CallbackStutters, OthersStutter DEF Callback, history
<1>7. ASSUME NEW a \in Admins, AdminStep(a) PROVE UNCHANGED Consent!vars
  BY <1>7, OthersStutter
  DEF AdminStep, Save, SaveStore, SaveRow, Hide, Discover, DiscoverFound, DiscoverFails, Activate,
      Enable, Disconnect, DisconnectClear, Others, history
<1>8. ASSUME NEW on \in BOOLEAN, Expose(on) PROVE UNCHANGED Consent!vars
  BY <1>8, OthersStutter DEF Expose, Others, history
<1>9. ASSUME NEW target \in Targets, RegisterWebhook(target) PROVE UNCHANGED Consent!vars
  BY <1>9, OthersStutter DEF RegisterWebhook, Others, history
<1> QED  BY <1>1, <1>2, <1>3, <1>4, <1>5, <1>6, <1>7, <1>8, <1>9 DEF Next

\* However decisions, callbacks, administrators and dying requests interleave, a run
\* is sent once at most, and only by consent of its owner (executeWorkflowRun).
THEOREM ImplementsConsent == Spec => KeepsConsent
<1>1. Init => Consent!Init
  BY DEF Init, Consent!Init, Phase, NoRun
<1>2. IInv /\ [Next]_vars => [Consent!Next]_(Consent!vars)
  BY NextRefines, OthersStutter DEF vars, history
<1> QED  BY <1>1, <1>2, Invariance, PTL DEF Spec, KeepsConsent, Consent!Spec
----------------------------------------------------------------------------
(* The credential of what is sent, where administrators act one at a time. *)

\* An administrator begins while no other is at work.
OneAfterAnother ==
  \A a \in Admins : admin[a].pc = "idle" /\ admin'[a].pc # "idle" =>
    \A c \in Admins : admin[c].pc = "idle"

OneAdmin == \A a, c \in Admins : admin[a].pc # "idle" /\ admin[c].pc # "idle" => a = c

\* The slot has the token of the row, but for a save between the two.
SlotFits ==
  /\ integration.cred # 0 /\ (\A a \in Admins : admin[a].pc # "save") => vault = integration.cred
  /\ \A a \in Admins :
       /\ admin[a].pc \in {"store", "save"} => ~integration.enabled
       /\ admin[a].pc = "save" => vault = admin[a].token
       /\ admin[a].pc \in {"withdraw", "clear"} => integration.cred = 0

\* What a decision has read is in the slot, or nothing is, unless a save wrote it since.
TapFits(t) ==
  tap[t].run \notin replaced =>
    /\ tap[t].pc \in Deciding => /\ vault \in {tap[t].boundary.cred, 0}
                                 /\ \A a \in Admins : admin[a].pc # "save"
    /\ tap[t].pc = "send" => tap[t].token = tap[t].boundary.cred

KInv == OneAdmin /\ SlotFits /\ (\A t \in Taps : TapFits(t)) /\ SentUnderItsCredential

\* What a run was prepared for stays, once it is decided.
LEMMA BoundaryStays ==
  ASSUME IInv, [Next]_vars, NEW q \in Runs, granted[q] # None
  PROVE  run'[q].boundary = run[q].boundary
<1>0. run \in [Runs -> RunRow] /\ run[q].status # "none"
  BY DEF IInv, TypeOK, RunInv
<1>1. CASE UNCHANGED run
  BY <1>1
<1>2. ASSUME NEW r \in Runs, NEW u \in Owners, Request(r, u) PROVE run'[q].boundary = run[q].boundary
  BY <1>0, <1>2 DEF Request
<1>3. ASSUME NEW R, run' = Expired(R) PROVE run'[q].boundary = run[q].boundary
  BY <1>0, <1>3 DEF Expired, RunRow
<1>4. ASSUME NEW t \in Taps, TapDeny(t) \/ TapClaim(t) PROVE run'[q].boundary = run[q].boundary
  BY <1>0, <1>4 DEF TapDeny, TapClaim, RunRow
<1>5. ASSUME NEW t \in Taps, TapCheck(t) \/ TapRecord(t) \/ TapCaught(t)
      PROVE  run'[q].boundary = run[q].boundary
  <2>1. CASE TapCheck(t) \/ TapCaught(t)
    BY <1>0, <2>1 DEF TapCheck, TapCaught, RunRow
  <2>2. CASE TapRecord(t)
    BY <1>0, <2>2 DEF TapRecord, RunRow
  <2> QED  BY <1>5, <2>1, <2>2
<1>6. ASSUME NEW d \in Deliveries, NEW r \in Runs, RecordCallback(d, r)
      PROVE  run'[q].boundary = run[q].boundary
  BY <1>0, <1>6 DEF RecordCallback, Settle, RunRow
<1>7. CASE Next /\ ~UNCHANGED run
  <2>1. ASSUME NEW u \in Owners, History(u) PROVE run'[q].boundary = run[q].boundary
    BY <1>3, <2>1 DEF History
  <2>2. ASSUME NEW t \in Taps, NEW u \in Owners, NEW r \in Runs, NEW approve \in BOOLEAN,
               Tap(t, u, r, approve)
        PROVE  run'[q].boundary = run[q].boundary
    BY <1>3, <2>2 DEF Tap
  <2>3. ASSUME NEW t \in Taps, TapStep(t) \/ TapThrows(t) \/ Die(t)
        PROVE  run'[q].boundary = run[q].boundary
    BY <1>1, <1>4, <1>5, <2>3 DEF TapStep, TapRead, TapSecret, TapSend, TapLog, TapThrows, Die
  <2>4. ASSUME NEW a \in Admins, AdminStep(a) PROVE UNCHANGED run
    BY <2>4 DEF AdminStep, Save, SaveStore, SaveRow, Hide, Discover, DiscoverFound, DiscoverFails,
                Activate, Enable, Disconnect, DisconnectClear, Others
  <2>5. ASSUME NEW r \in Runs, Lapse(r) \/ Ends(r) PROVE UNCHANGED run
    BY <2>5 DEF Lapse, Ends
  <2>6. ASSUME NEW d \in Deliveries, NEW r \in Runs, Callback(d, r) PROVE UNCHANGED run
    BY <2>6 DEF Callback
  <2>7. ASSUME (\E on \in BOOLEAN : Expose(on)) \/ (\E target \in Targets : RegisterWebhook(target))
        PROVE  UNCHANGED run
    BY <2>7 DEF Expose, RegisterWebhook, Others
  <2> QED  BY <1>2, <1>6, <1>7, <2>1, <2>2, <2>3, <2>4, <2>5, <2>6, <2>7 DEF Next
<1> QED  BY <1>1, <1>7 DEF vars

LEMMA SentStayFit ==
  ASSUME IInv, KInv, [Next]_vars, sent' = sent, replaced \subseteq replaced'
  PROVE  SentUnderItsCredential'
<1>1. \A s \in sent : s.run \in Runs /\ granted[s.run] # None
  BY DEF IInv, TypeOK, Traces
<1> QED  BY <1>1, BoundaryStays DEF KInv, SentUnderItsCredential

\* A step of anybody but an administrator; only one decision moves.
LEMMA TapFit ==
  ASSUME IInv, KInv, [Next]_vars, UNCHANGED <<integration, slot, admin, sent>>,
         \A t \in Taps : tap'[t] = tap[t] \/ TapFits(t)'
  PROVE  KInv'
<1>1. SentUnderItsCredential'
  BY SentStayFit DEF slot
<1>2. OneAdmin' /\ SlotFits' /\ \A t \in Taps : TapFits(t)'
  BY DEF KInv, OneAdmin, SlotFits, TapFits, slot
<1> QED  BY <1>1, <1>2 DEF KInv

LEMMA GoesFit ==
  ASSUME IInv, KInv, NEW t \in Taps, UNCHANGED <<slot, admin>>,
         \/ Leave(t)
         \/ \E pc \in Sending \ {"send"} :
              Goto(t, pc) /\ (pc \in Deciding => tap[t].pc \in Deciding)
  PROVE  \A u \in Taps : tap'[u] = tap[u] \/ TapFits(u)'
<1>1. CASE Leave(t)
  BY <1>1 DEF Leave, IdleTap, IInv, TypeOK, TapFits, Deciding, slot
<1>2. ASSUME NEW pc \in Sending \ {"send"}, Goto(t, pc), pc \in Deciding => tap[t].pc \in Deciding
      PROVE  \A u \in Taps : tap'[u] = tap[u] \/ TapFits(u)'
  <2>1. /\ tap'[t].pc = pc /\ pc # "send" /\ tap'[t].boundary = tap[t].boundary
        /\ tap'[t].run = tap[t].run
        /\ \A u \in Taps \ {t} : tap'[u] = tap[u]
    BY <1>2, Goes
  <2>2. TapFits(t)'
    BY <1>2, <2>1 DEF KInv, TapFits, slot
  <2> QED  BY <2>1, <2>2
<1> QED  BY <1>1, <1>2

LEMMA ReadFits == ASSUME IInv, KInv, NEW t \in Taps, TapRead(t), Next PROVE KInv'
<1>1. UNCHANGED <<integration, slot, admin, sent>>
  BY DEF TapRead, rows, slot, history
<1>2. CASE Leave(t)
  BY <1>1, <1>2, GoesFit, TapFit
<1>3. CASE ~Leave(t)
  <2>1. /\ integration.enabled /\ integration.cred # 0 /\ tap[t] \in TapState
        /\ tap' = [tap EXCEPT ![t].pc = IF tap[t].approve THEN "claim" ELSE "deny",
                              ![t].boundary = Boundary]
    BY <1>3 DEF TapRead, Serving, IInv, TypeOK
  <2>2. \A a \in Admins : admin[a].pc \notin {"store", "save"}
    BY <2>1 DEF KInv, SlotFits
  <2>3. vault = integration.cred
    BY <2>1, <2>2 DEF KInv, SlotFits
  <2>4. tap'[t].boundary.cred = integration.cred /\ tap'[t].pc \in {"claim", "deny"}
        /\ \A u \in Taps \ {t} : tap'[u] = tap[u]
    BY <2>1 DEF IInv, TypeOK, Boundary, TapState
  <2>5. TapFits(t)'
    BY <1>1, <2>2, <2>3, <2>4 DEF TapFits, Deciding, slot
  <2> QED  BY <1>1, <2>4, <2>5, TapFit
<1> QED  BY <1>2, <1>3

LEMMA SecretFits == ASSUME IInv, KInv, NEW t \in Taps, TapSecret(t), Next PROVE KInv'
<1>1. UNCHANGED <<integration, slot, admin, sent>> /\ tap[t].pc \in Deciding
  BY DEF TapSecret, rows, slot, history, Deciding
<1>2. CASE Leave(t)
  BY <1>1, <1>2, GoesFit, TapFit
<1>3. CASE vault # 0 /\ tap' = [tap EXCEPT ![t].pc = "send", ![t].token = vault]
  <2>1. (tap[t].run \notin replaced => vault = tap[t].boundary.cred) /\ tap[t] \in TapState
    BY <1>1, <1>3 DEF KInv, TapFits, IInv, TypeOK
  <2>2. /\ tap'[t].pc = "send" /\ tap'[t].token = vault /\ tap'[t].boundary = tap[t].boundary
        /\ tap'[t].run = tap[t].run
        /\ \A u \in Taps \ {t} : tap'[u] = tap[u]
    BY <1>3, <2>1 DEF IInv, TypeOK, TapState
  <2>3. TapFits(t)'
    BY <1>1, <2>1, <2>2 DEF TapFits, Deciding, slot
  <2> QED  BY <1>1, <2>2, <2>3, TapFit
<1> QED  BY <1>2, <1>3 DEF TapSecret

LEMMA SendFits == ASSUME IInv, KInv, NEW t \in Taps, TapSend(t) PROVE KInv'
<1>1. UNCHANGED <<integration, slot, admin, run>> /\ tap[t].pc = "send" /\ tap[t].pc \in Sending
  BY DEF TapSend, rows, slot, Sending
<1>2. tap[t].run \notin replaced => tap[t].token = run[tap[t].run].boundary.cred
  BY <1>1 DEF KInv, TapFits, IInv, TapInv
<1>3. SentUnderItsCredential'
  <2>1. sent' = sent \cup {[run |-> tap[t].run, base |-> tap[t].boundary.base,
                            target |-> tap[t].boundary.target, token |-> tap[t].token]}
    BY DEF TapSend
  <2> QED  BY <1>1, <1>2, <2>1 DEF KInv, SentUnderItsCredential, slot
<1>4. \A u \in Taps : tap'[u] = tap[u] \/ tap'[u].pc \in {"record", "caught"}
  BY DEF TapSend, Goto, IInv, TypeOK, TapState
<1>5. \A u \in Taps : TapFits(u)'
  BY <1>1, <1>4 DEF KInv, TapFits, Deciding, slot
<1> QED  BY <1>1, <1>3, <1>5 DEF KInv, OneAdmin, SlotFits, slot

\* An administrator's step.
LEMMA AdminFits ==
  ASSUME IInv, KInv, Next, OneAfterAnother, NEW a \in Admins, AdminStep(a)
  PROVE  KInv'
<1>1. UNCHANGED <<run, tap, sent>>
  BY DEF AdminStep, Save, SaveStore, SaveRow, Hide, Discover, DiscoverFound, DiscoverFails,
         Activate, Enable, Disconnect, DisconnectClear, Others, history
<1>0. replaced \subseteq replaced' /\ (replaced' = replaced \/ SaveStore(a))
  BY DEF AdminStep, Save, SaveStore, SaveRow, Hide, Discover, DiscoverFound, DiscoverFails,
         Activate, Enable, Disconnect, DisconnectClear, rows, slot
<1>2. SentUnderItsCredential'
  BY <1>0, <1>1, SentStayFit
<1>3. /\ admin \in [Admins -> AdminState] /\ integration \in Integration
      /\ \A c \in Admins \ {a} : admin'[c] = admin[c]
  BY DEF IInv, TypeOK, AdminStep, Save, SaveStore, SaveRow, Hide, Discover, DiscoverFound,
         DiscoverFails, Activate, Enable, Disconnect, DisconnectClear, AdminGoto
<1>4. \A c \in Admins \ {a} : admin[c].pc = "idle" /\ admin'[c].pc = "idle"
  <2>1. CASE admin[a].pc # "idle"
    BY <1>3, <2>1 DEF KInv, OneAdmin
  <2>2. CASE admin[a].pc = "idle"
    <3>1. admin'[a].pc # "idle"
      BY <1>3, <2>2 DEF AdminStep, Save, SaveStore, SaveRow, Hide, Discover, DiscoverFound,
         DiscoverFails, Activate, Enable, Disconnect, DisconnectClear, AdminGoto, AdminState
    <3> QED  BY <1>3, <2>2, <3>1 DEF OneAfterAnother
  <2> QED  BY <2>1, <2>2
<1>5. OneAdmin'
  BY <1>4 DEF OneAdmin
<1>6. ASSUME SlotFits', \A t \in Taps : TapFits(t)' PROVE KInv'
  BY <1>2, <1>5, <1>6 DEF KInv
<1>7. CASE \E b \in Bases : Save(a, b)
  <2>1. /\ admin'[a].pc = "store" /\ admin[a].pc = "idle" /\ vault' = vault
        /\ integration' = [integration EXCEPT !.enabled = FALSE]
    BY <1>3, <1>7 DEF Save, slot, AdminState
  <2>2. SlotFits'
    BY <1>3, <1>4, <2>1 DEF KInv, SlotFits, Integration
  <2>3. \A t \in Taps : TapFits(t)'
    BY <1>1, <1>4, <1>7, <2>1 DEF Save, slot, KInv, TapFits
  <2> QED  BY <1>6, <2>2, <2>3
<1>8. CASE SaveStore(a)
  <2>1. /\ admin'[a].pc = "save" /\ admin[a].pc = "store" /\ vault' = admin'[a].token
        /\ integration' = integration
    BY <1>3, <1>8 DEF SaveStore, AdminGoto, AdminState
  <2>2. SlotFits'
    BY <1>4, <2>1 DEF KInv, SlotFits
  <2>3. \A t \in Taps : tap[t].pc \in Deciding => tap[t].run \in replaced'
    BY <1>8 DEF SaveStore
  <2>4. \A t \in Taps : TapFits(t)'
    BY <1>0, <1>1, <2>3 DEF KInv, TapFits, Deciding
  <2> QED  BY <1>6, <2>2, <2>4
<1>9. CASE SaveRow(a)
  <2>1. /\ admin'[a].pc = "hide" /\ admin[a].pc = "save" /\ vault' = vault
        /\ integration'.cred = admin[a].token /\ ~integration'.enabled
    BY <1>3, <1>9 DEF SaveRow, AdminGoto, AdminState, slot
  <2>2. SlotFits'
    BY <1>4, <2>1 DEF KInv, SlotFits
  <2>3. \A t \in Taps : TapFits(t)'
    BY <1>0, <1>1, <1>4, <2>1 DEF KInv, TapFits
  <2> QED  BY <1>6, <2>2, <2>3
<1>10. CASE Disconnect(a)
  <2>1. /\ admin'[a].pc = "withdraw" /\ vault' = vault /\ integration'.cred = 0
    BY <1>3, <1>10 DEF Disconnect, AdminGoto, AdminState, Integration, slot
  <2>2. SlotFits'
    BY <1>4, <2>1 DEF KInv, SlotFits
  <2>3. \A t \in Taps : TapFits(t)'
    BY <1>0, <1>1, <1>4, <2>1 DEF KInv, TapFits
  <2> QED  BY <1>6, <2>2, <2>3
<1>11. CASE DisconnectClear(a)
  <2>1. /\ admin'[a].pc = "idle" /\ admin[a].pc = "clear" /\ vault' = 0 /\ integration' = integration
    BY <1>3, <1>11 DEF DisconnectClear, IdleAdmin, AdminState
  <2>2. SlotFits'
    BY <1>4, <2>1 DEF KInv, SlotFits
  <2>3. \A t \in Taps : TapFits(t)'
    BY <1>0, <1>1, <1>4, <2>1 DEF KInv, TapFits
  <2> QED  BY <1>6, <2>2, <2>3
<1>12. CASE Hide(a)
  <2>1. /\ integration' = integration /\ vault' = vault /\ admin[a].pc \in {"hide", "withdraw"}
        /\ admin'[a].pc = IF admin[a].pc = "hide" THEN "idle" ELSE "clear"
    BY <1>3, <1>12 DEF Hide, AdminGoto, IdleAdmin, AdminState, slot
  <2>2. SlotFits'
    BY <1>4, <2>1 DEF KInv, SlotFits
  <2>3. \A t \in Taps : TapFits(t)'
    BY <1>0, <1>1, <1>4, <2>1 DEF KInv, TapFits
  <2> QED  BY <1>6, <2>2, <2>3
<1>13. CASE Discover(a) \/ DiscoverFound(a) \/ DiscoverFails(a) \/ Activate(a) \/ Enable(a)
  <2>1. /\ vault' = vault /\ integration'.cred = integration.cred
        /\ admin[a].pc \in {"idle", "fetch", "active", "enable"}
        /\ admin'[a].pc \in {"idle", "fetch", "active", "enable"}
    <3>1. CASE Discover(a) \/ DiscoverFound(a)
      BY <1>3, <3>1 DEF Discover, DiscoverFound, AdminGoto, AdminState, rows, slot
    <3>2. CASE DiscoverFails(a)
      BY <1>3, <3>2 DEF DiscoverFails, IdleAdmin, AdminState, Integration, slot
    <3>3. CASE Activate(a) \/ Enable(a)
      BY <1>3, <3>3 DEF Activate, Enable, AdminGoto, IdleAdmin, AdminState, Integration, slot
    <3> QED  BY <1>13, <3>1, <3>2, <3>3
  <2>2. SlotFits'
    BY <1>4, <2>1 DEF KInv, SlotFits
  <2>3. \A t \in Taps : TapFits(t)'
    BY <1>0, <1>1, <1>4, <2>1 DEF KInv, TapFits
  <2> QED  BY <1>6, <2>2, <2>3
<1> QED  BY <1>7, <1>8, <1>9, <1>10, <1>11, <1>12, <1>13 DEF AdminStep

LEMMA StepFits == ASSUME IInv, KInv, [Next]_vars, [OneAfterAnother]_vars PROVE KInv'
<1>1. CASE UNCHANGED <<integration, slot, admin, sent, tap>>
  BY <1>1, TapFit
<1>2. ASSUME NEW t \in Taps, Next, TapStep(t) \/ TapThrows(t) \/ Die(t) PROVE KInv'
  <2>1. CASE TapRead(t) \/ TapSecret(t) \/ TapSend(t)
    BY <1>2, <2>1, ReadFits, SecretFits, SendFits
  <2>2. CASE TapDeny(t) \/ TapLog(t) \/ TapCaught(t) \/ Die(t)
    <3>1. Leave(t) /\ UNCHANGED <<integration, slot, admin, sent>>
      BY <2>2 DEF TapDeny, TapLog, TapCaught, Die, rows, slot, history
    <3> QED  BY <1>2, <3>1, GoesFit, TapFit
  <2>3. CASE TapClaim(t) \/ TapCheck(t) \/ TapRecord(t) \/ TapThrows(t)
    <3>1. UNCHANGED <<integration, slot, admin, sent>>
      BY <2>3 DEF TapClaim, TapCheck, TapRecord, TapThrows, rows, slot, history
    <3>2. \/ Leave(t)
          \/ \E pc \in Sending \ {"send"} :
               Goto(t, pc) /\ (pc \in Deciding => tap[t].pc \in Deciding)
      BY <2>3 DEF TapClaim, TapCheck, TapRecord, TapThrows, Sending, Deciding
    <3> QED  BY <1>2, <3>1, <3>2, GoesFit, TapFit
  <2> QED  BY <1>2, <2>1, <2>2, <2>3 DEF TapStep
<1>3. ASSUME NEW t \in Taps, NEW u \in Owners, NEW r \in Runs, NEW approve \in BOOLEAN, Next,
             Tap(t, u, r, approve)
      PROVE  KInv'
  <2>1. UNCHANGED <<integration, slot, admin, sent>>
    BY <1>3 DEF Tap, rows, slot, history
  <2>2. \A v \in Taps : tap'[v] = tap[v] \/ tap'[v].pc = "read"
    BY <1>3 DEF Tap, IInv, TypeOK, IdleTap
  <2>3. \A v \in Taps : tap'[v] = tap[v] \/ TapFits(v)'
    BY <2>2 DEF TapFits, Deciding
  <2> QED  BY <1>3, <2>1, <2>3, TapFit
<1>4. CASE Next /\ ~UNCHANGED <<integration, slot, admin, sent, tap>>
  <2>0. OneAfterAnother
    BY <1>4 DEF vars, rows, slot, history
  <2>1. ASSUME NEW a \in Admins, AdminStep(a) PROVE KInv'
    BY <1>4, <2>0, <2>1, AdminFits
  <2>2. ~\E r \in Runs, u \in Owners : Request(r, u)
    BY <1>4 DEF Request, rows, slot, history
  <2>3. ~(\E r \in Runs : Lapse(r) \/ Ends(r)) /\ ~\E u \in Owners : History(u)
    BY <1>4 DEF Lapse, Ends, History, rows, slot, history
  <2>4. ~\E d \in Deliveries, r \in Runs : Callback(d, r) \/ RecordCallback(d, r)
    BY <1>4 DEF Callback, RecordCallback, rows, slot, history
  <2>5. /\ ~\E on \in BOOLEAN : Expose(on)
        /\ ~\E target \in Targets : RegisterWebhook(target)
    BY <1>4 DEF Expose, RegisterWebhook, Others, slot, history
  <2> QED  BY <1>2, <1>3, <1>4, <2>1, <2>2, <2>3, <2>4, <2>5 DEF Next
<1> QED  BY <1>1, <1>4 DEF vars, rows, slot, history

\* Where administrators act one at a time, a run is sent under the credential it was
\* prepared for, but for a save that writes the slot between the row and the token of its
\* decision: whatever else is discovered, disconnected or saved, the code keeps the two together.
THEOREM CredentialKeptUnlessSaved ==
  Spec /\ [][OneAfterAnother]_vars => []SentUnderItsCredential
<1>1. Init => KInv
  BY DEF Init, KInv, OneAdmin, SlotFits, TapFits, SentUnderItsCredential, Deciding, IdleAdmin, IdleTap
<1>2. IInv /\ KInv /\ [Next]_vars /\ [OneAfterAnother]_vars => KInv'
  BY StepFits
<1>3. KInv => SentUnderItsCredential
  BY DEF KInv, SentUnderItsCredential
<1> QED  BY <1>1, <1>2, <1>3, Invariance, PTL DEF Spec
=============================================================================
