---------------------------- MODULE DurableTurns ----------------------------
(***************************************************************************)
(* Durable conversation turns of one thread: a submission is accepted with *)
(* its inbound message and one queue row, a worker claims the row and then *)
(* the turn, runs the assistant, fences every consequential tool call, and *)
(* settles the turn under its lease.                                       *)
(*                                                                         *)
(*   packages/core/src/mobile.ts            assistant_turns and effects    *)
(*   packages/core/src/queue.ts             job_queue                      *)
(*   packages/agent/src/durableEffects.ts   the fence around a tool call   *)
(*   packages/agent/src/mcp/server.ts       tools run out of process       *)
(*   apps/worker/src/jobs.ts                the assistant.turn job         *)
(*   packages/db/migrations/0057_durable_mobile_turns_push.sql             *)
(*                                                                         *)
(* One SQL statement is one step.  Turns are numbered in the order of      *)
(* their created_at; leases are numbered in the order they were handed out *)
(* (the code draws a random uuid); 0 is SQL null in both.                  *)
(***************************************************************************)
EXTENDS Naturals, FiniteSets

CONSTANTS
  NTurns,        \* how many turns the thread gets
  Sessions,      \* the logins turns are submitted under
  Keys,          \* hashes of consequential tool calls
  Workers,       \* values of WORKER_ID
  MaxActive,     \* the capacity of an owner (50 in the code)
  MaxAttempts,   \* job_queue.max_attempts
  MaxHops,       \* tool calls one run of the assistant makes at most
  MaxDeaths,     \* how many worker deaths a behaviour may contain
  MaxThrows,     \* how many jobs may end with an exception in a behaviour
  OutOfProcess,  \* tools run in the MCP server of a subscription CLI
  None

ASSUME BoundsAssumption ==
  /\ NTurns \in Nat /\ MaxActive \in Nat /\ MaxHops \in Nat /\ MaxDeaths \in Nat
  /\ MaxThrows \in Nat
  /\ MaxAttempts \in Nat \ {0}
ASSUME HarnessAssumption == OutOfProcess \in BOOLEAN
ASSUME NoneAssumption == None \notin Workers /\ None \notin Sessions

VARIABLES
  status,     \* assistant_turns.status
  attemptOf,  \* assistant_turns.attempt_of
  session,    \* assistant_turns.accepted_session_id
  lease,      \* assistant_turns.lease_token
  expired,    \* turns whose lease_expires_at is in the past
  retryable,  \* turns whose error_retryable is true
  effect,     \* assistant_turn_effects.state
  active,     \* assistant_turn_capacity.active_count of the owner
  job,        \* the job_queue row of each turn
  stale,      \* running jobs whose locked_at is more than ten minutes old
  revoked,    \* sessions that ended
  worker,     \* progress of each worker
  calls,      \* consequential tool calls under way
  tokens,     \* leases handed out so far
  deaths,     \* worker deaths so far
  throws,     \* jobs that ended with an exception so far
  request,    \* history: the turn each request was first sent as
  ran,        \* history: how often each effect was carried out
  replies     \* history: outbound messages created for each turn

turnRows == <<status, attemptOf, session, lease, expired, retryable, active, tokens,
              request>>
effects == <<effect, calls, ran>>
jobs == <<job, stale>>
faults == <<deaths, throws>>
vars == <<turnRows, effects, jobs, revoked, worker, faults, replies>>

Turns == 1 .. NTurns
Active == {"queued", "running"}
Terminal == {"completed", "failed"}

HasEffects(t) == \E k \in Keys : effect[t][k] # "none"
HasIncompleteEffects(t) == \E k \in Keys : effect[t][k] = "started"

\* The fence of every write a run makes: where status='running' and lease_token=$2.
Holds(t, token) == status[t] = "running" /\ lease[t] = token

EarlierRunning(t) == \E u \in Turns : u < t /\ status[u] = "running"

EarlierActive(t) == \E u \in Turns : u < t /\ status[u] \in Active

\* assistant_turns_release: the trigger fires for each row that leaves queued
\* or running.
ReleasesRunningOnly(T) ==
  active' = active - Cardinality({t \in T : status[t] = "running"})

Releases(T) == active' = active - Cardinality({t \in T : status[t] \in Active})

----------------------------------------------------------------------------
(* The client and the clock.                                               *)

\* valid_attempt, and the unique index that makes a retry a chain.
MayRetry(p) ==
  /\ status[p] = "failed" /\ p \in retryable
  /\ \A u \in Turns : attemptOf[u] # p

\* submitDurableTurn, one statement with its triggers.  Sending a
\* client_message_id again returns the turn it made and changes nothing.
Submit(t, s, p) ==
  /\ status[t] = "absent"
  /\ \A u \in 1 .. (t - 1) : status[u] # "absent"
  /\ s \notin revoked
  /\ p # 0 => MayRetry(p)
  /\ active < MaxActive
  /\ active' = active + 1
  /\ status' = [status EXCEPT ![t] = "queued"]
  /\ attemptOf' = [attemptOf EXCEPT ![t] = p]
  /\ session' = [session EXCEPT ![t] = s]
  /\ request' = [request EXCEPT ![t] = IF p = 0 THEN t ELSE request[p]]
  /\ job' = [job EXCEPT ![t] = [@ EXCEPT !.status = "queued"]]
  /\ UNCHANGED <<lease, expired, retryable, tokens, effects, stale, revoked,
                 worker, faults, replies>>

\* A login is revoked, runs out, or its account is disabled.
EndSession(s) ==
  /\ s \notin revoked
  /\ revoked' = revoked \cup {s}
  /\ UNCHANGED <<turnRows, effects, jobs, worker, faults, replies>>

LeaseExpires(t) ==
  /\ status[t] = "running" /\ t \notin expired
  /\ expired' = expired \cup {t}
  /\ UNCHANGED <<status, attemptOf, session, request, lease, retryable, active, tokens,
                 effects, jobs, revoked, worker, faults, replies>>

JobGrowsStale(t) ==
  /\ job[t].status = "running" /\ t \notin stale
  /\ stale' = stale \cup {t}
  /\ UNCHANGED <<turnRows, effects, job, revoked, worker, faults, replies>>

----------------------------------------------------------------------------
(* A worker.                                                               *)

IdleWorker == [pc |-> "idle", turn |-> 0, token |-> 0, hops |-> 0,
               answer |-> "none", retry |-> "no"]

Step(w, pc) == worker' = [worker EXCEPT ![w].pc = pc]
Idle(w) == worker' = [worker EXCEPT ![w] = IdleWorker]

\* The handler returns or throws; all that is left is to settle the job row.
EndJob(w, pc) ==
  worker' = [worker EXCEPT ![w] = [IdleWorker EXCEPT !.pc = pc, !.turn = worker[w].turn]]

\* The part of a run between claimDurableTurn and the end of its try block,
\* throughout which the heartbeat timer is set.
Running(w) == worker[w].pc \in {"model", "incomplete", "effects", "complete", "failTurn"}

\* A queued job, or one nobody has renewed for ten minutes whose turn still
\* needs a worker.
DueWhenQueued(t) == job[t].status = "queued"

Due(t) ==
  \/ job[t].status = "queued"
  \/ /\ job[t].status = "running" /\ t \in stale
     /\ status[t] = "queued" \/ (status[t] = "running" /\ t \in expired)

\* claimJobs; attempts stop counting at the only value they are compared with.
ClaimJob(w) ==
  /\ worker[w].pc = "idle"
  /\ \E t \in Turns :
       /\ Due(t) /\ ~EarlierActive(t)
       /\ job' = [job EXCEPT ![t] =
            [status |-> "running", by |-> w,
             attempts |-> IF job[t].attempts < MaxAttempts
                          THEN job[t].attempts + 1 ELSE MaxAttempts]]
       /\ stale' = stale \ {t}
       /\ worker' = [worker EXCEPT ![w] = [@ EXCEPT !.pc = "claim", !.turn = t]]
  /\ UNCHANGED <<turnRows, effects, revoked, faults, replies>>

\* Queued turns of the thread whose login has ended.
LoggedOut == {t \in Turns : status[t] = "queued" /\ session[t] \in revoked}

\* A running turn whose lease ran out: its worker may have reached a provider.
Interrupted(t) == status[t] = "running" /\ t \in expired

Claimable(t) ==
  /\ status[t] = "queued" /\ t \notin LoggedOut
  /\ \A u \in Turns \ {t} : ~ (status[u] = "running" /\ u \notin expired)
  /\ ~EarlierActive(t)

RetryableWhenInterrupted(t) == TRUE

RetryableAfter(t) == ~HasEffects(t)

\* claimDurableTurn, one statement: every part of it sees the rows as they
\* were when it began.
ClaimTurn(w) ==
  /\ worker[w].pc = "claim"
  /\ LET t == worker[w].turn
         lost == LoggedOut \cup (IF Interrupted(t) THEN {t} ELSE {})
     IN
     /\ status' = [u \in Turns |->
          IF u \in lost THEN "failed"
          ELSE IF u = t /\ Claimable(t) THEN "running" ELSE status[u]]
     /\ Releases(lost)
     /\ retryable' = IF Interrupted(t) /\ RetryableAfter(t)
                     THEN retryable \cup {t} ELSE retryable
     /\ IF Claimable(t)
        THEN /\ tokens' = tokens + 1
             /\ lease' = [lease EXCEPT ![t] = tokens + 1]
             /\ worker' = [worker EXCEPT ![w] =
                  [@ EXCEPT !.pc = "model", !.token = tokens + 1]]
        ELSE /\ lease' = IF Interrupted(t) THEN [lease EXCEPT ![t] = 0] ELSE lease
             /\ Step(w, "look")
             /\ UNCHANGED tokens
     /\ expired' = IF Claimable(t) \/ Interrupted(t) THEN expired \ {t} ELSE expired
  /\ UNCHANGED <<attemptOf, session, request, effects, jobs, revoked, faults, replies>>

\* Nothing was claimed.  A turn still queued sends its job back to the queue.
LookAtTurn(w) ==
  /\ worker[w].pc = "look"
  /\ EndJob(w, IF status[worker[w].turn] = "queued" THEN "failJob" ELSE "doneJob")
  /\ UNCHANGED <<turnRows, effects, jobs, revoked, faults, replies>>

\* The heartbeat renews the turn's lease, and then the job's when that worked.
Renew(w) ==
  /\ Running(w)
  /\ LET t == worker[w].turn IN
     /\ Holds(t, worker[w].token)
     /\ expired' = expired \ {t}
     /\ stale' = IF job[t].status = "running" /\ job[t].by = w
                 THEN stale \ {t} ELSE stale
  /\ UNCHANGED <<status, attemptOf, session, request, lease, retryable, active, tokens,
                 effects, job, revoked, worker, faults, replies>>

----------------------------------------------------------------------------
(* Consequential tool calls of a run.                                      *)

Call(t, token, k, pc) == [turn |-> t, token |-> token, key |-> k, pc |-> pc]

CallsOf(w) == {c \in calls : c.turn = worker[w].turn /\ c.token = worker[w].token}

\* The model asks for a tool.  In process the run waits for it; the MCP server
\* takes several requests at once.
AskTool(w, k) ==
  /\ worker[w].pc = "model"
  /\ worker[w].hops < MaxHops
  /\ OutOfProcess \/ CallsOf(w) = {}
  /\ calls' = calls \cup {Call(worker[w].turn, worker[w].token, k, "asked")}
  /\ worker' = [worker EXCEPT ![w].hops = @ + 1]
  /\ UNCHANGED <<turnRows, effect, ran, jobs, revoked, faults, replies>>

\* beginDurableToolEffect inserts the effect's row.  When there is one already
\* its receipt is returned or the call is refused as ambiguous, and when the
\* lease is gone it is refused: the call ends without running the tool.
BeginAgain(c) ==
  /\ c \in calls /\ c.pc = "asked"
  /\ IF Holds(c.turn, c.token) /\ effect[c.turn][c.key] # "completed"
     THEN /\ effect' = [effect EXCEPT ![c.turn] = [@ EXCEPT ![c.key] = "started"]]
          /\ calls' = (calls \ {c}) \cup {[c EXCEPT !.pc = "granted"]}
     ELSE calls' = calls \ {c} /\ UNCHANGED effect
  /\ UNCHANGED <<turnRows, ran, jobs, revoked, worker, faults, replies>>

BeginUnfenced(c) ==
  /\ c \in calls /\ c.pc = "asked"
  /\ IF effect[c.turn][c.key] = "none"
     THEN /\ effect' = [effect EXCEPT ![c.turn] = [@ EXCEPT ![c.key] = "started"]]
          /\ calls' = (calls \ {c}) \cup {[c EXCEPT !.pc = "granted"]}
     ELSE calls' = calls \ {c} /\ UNCHANGED effect
  /\ UNCHANGED <<turnRows, ran, jobs, revoked, worker, faults, replies>>

Begin(c) ==
  /\ c \in calls /\ c.pc = "asked"
  /\ IF Holds(c.turn, c.token) /\ effect[c.turn][c.key] = "none"
     THEN /\ effect' = [effect EXCEPT ![c.turn] = [@ EXCEPT ![c.key] = "started"]]
          /\ calls' = (calls \ {c}) \cup {[c EXCEPT !.pc = "granted"]}
     ELSE calls' = calls \ {c} /\ UNCHANGED effect
  /\ UNCHANGED <<turnRows, ran, jobs, revoked, worker, faults, replies>>

\* The tool runs.  One that throws may or may not have had its effect.
Run(c) ==
  /\ c \in calls /\ c.pc = "granted"
  /\ \/ ran' = [ran EXCEPT ![c.turn][c.key] = @ + 1]
     \/ UNCHANGED ran
  /\ \/ calls' = (calls \ {c}) \cup {[c EXCEPT !.pc = "ran"]}
     \/ calls' = calls \ {c}
  /\ UNCHANGED <<turnRows, effect, jobs, revoked, worker, faults, replies>>

\* completeDurableToolEffect keeps the receipt only under the same lease.
SaveReceipt(c) ==
  /\ c \in calls /\ c.pc = "ran"
  /\ calls' = calls \ {c}
  /\ IF Holds(c.turn, c.token) /\ effect[c.turn][c.key] = "started"
     THEN effect' = [effect EXCEPT ![c.turn] = [@ EXCEPT ![c.key] = "completed"]]
     ELSE UNCHANGED effect
  /\ UNCHANGED <<turnRows, ran, jobs, revoked, worker, faults, replies>>

CallStep(c) == Begin(c) \/ Run(c) \/ SaveReceipt(c)

----------------------------------------------------------------------------
(* Settling a run.                                                         *)

\* runAssistantTurn returns a reply, or a refusal that may be worth retrying,
\* or throws.  A subscription CLI that is killed when its time is up leaves
\* its MCP server to finish what it was asked.
FinishModel(w) ==
  /\ worker[w].pc = "model"
  /\ OutOfProcess \/ CallsOf(w) = {}
  /\ \E answer \in {"reply", "refused", "transient", "threw"} :
       worker' = [worker EXCEPT ![w] =
         [@ EXCEPT !.answer = answer,
                   !.pc = IF answer = "threw" THEN "effects" ELSE "incomplete",
                   !.hops = 0]]
  /\ UNCHANGED <<turnRows, effects, jobs, revoked, faults, replies>>

\* durableTurnHasIncompleteEffects: effect_outcome_unknown, never retryable.
CheckIncomplete(w) ==
  /\ worker[w].pc = "incomplete"
  /\ Step(w, IF HasIncompleteEffects(worker[w].turn) THEN "failTurn"
             ELSE IF worker[w].answer = "reply" THEN "complete" ELSE "effects")
  /\ UNCHANGED <<turnRows, effects, jobs, revoked, faults, replies>>

\* durableTurnHasEffects, after a refusal and in the catch block.
CheckEffects(w) ==
  /\ worker[w].pc = "effects"
  /\ worker' = [worker EXCEPT ![w] =
       [@ EXCEPT !.pc = "failTurn",
                 !.retry = IF ~HasEffects(worker[w].turn) /\ worker[w].answer # "refused"
                           THEN "yes" ELSE "no"]]
  /\ UNCHANGED <<turnRows, effects, jobs, revoked, faults, replies>>

\* A query of the try block fails, before or after it was carried out.
Throw(w) ==
  /\ worker[w].pc \in {"incomplete", "effects", "complete", "failTurn"}
  /\ worker[w].answer # "threw"
  /\ worker' = [worker EXCEPT ![w] =
       [@ EXCEPT !.pc = "effects", !.answer = "threw", !.retry = "no"]]
  /\ UNCHANGED <<turnRows, effects, jobs, revoked, faults, replies>>

\* A query outside the try block or in its catch block fails, or the worker has
\* no master key, or the answer to a claim that worked is lost.
ThrowJob(w) ==
  /\ \/ worker[w].pc \in {"claim", "look"}
     \/ worker[w].pc = "model" /\ worker[w].hops = 0
     \/ worker[w].pc \in {"effects", "failTurn"} /\ worker[w].answer = "threw"
  /\ throws < MaxThrows
  /\ throws' = throws + 1
  /\ EndJob(w, "failJob")
  /\ UNCHANGED <<turnRows, effects, jobs, revoked, deaths, replies>>

\* After a write that settles the turn; its acknowledgement may be lost too.
Settled(w) ==
  \/ EndJob(w, "doneJob")
  \/ /\ worker[w].answer # "threw"
     /\ worker' = [worker EXCEPT ![w] =
          [@ EXCEPT !.pc = "effects", !.answer = "threw", !.retry = "no"]]

\* completeDurableTurn: the reply and the status in one statement.
CompleteTurn(w) ==
  /\ worker[w].pc = "complete"
  /\ LET t == worker[w].turn IN
     IF Holds(t, worker[w].token)
     THEN /\ status' = [status EXCEPT ![t] = "completed"]
          /\ replies' = [replies EXCEPT ![t] = @ + 1]
          /\ Releases({t})
          /\ expired' = expired \ {t}
     ELSE UNCHANGED <<status, replies, active, expired>>
  /\ Settled(w)
  /\ UNCHANGED <<attemptOf, session, request, lease, retryable, tokens, effects,
                 jobs, revoked, faults>>

\* failDurableTurn
FailTurn(w) ==
  /\ worker[w].pc = "failTurn"
  /\ LET t == worker[w].turn IN
     IF Holds(t, worker[w].token)
     THEN /\ status' = [status EXCEPT ![t] = "failed"]
          /\ retryable' = IF worker[w].retry = "yes" THEN retryable \cup {t} ELSE retryable
          /\ Releases({t})
          /\ expired' = expired \ {t}
     ELSE UNCHANGED <<status, retryable, active, expired>>
  /\ Settled(w)
  /\ UNCHANGED <<attemptOf, session, request, lease, tokens, effects, jobs,
                 revoked, faults, replies>>

\* completeJob: where locked_by is this worker.
CompleteJob(w) ==
  /\ worker[w].pc = "doneJob"
  /\ LET t == worker[w].turn IN
     IF job[t].by = w
     THEN /\ job' = [job EXCEPT ![t] = [@ EXCEPT !.status = "done"]]
          /\ stale' = stale \ {t}
     ELSE UNCHANGED jobs
  /\ Idle(w)
  /\ UNCHANGED <<turnRows, effects, revoked, faults, replies>>

\* failJob: back to the queue after a while, or dead.
FailJob(w) ==
  /\ worker[w].pc = "failJob"
  /\ LET t == worker[w].turn IN
     IF job[t].by = w
     THEN /\ job' = [job EXCEPT ![t] = [@ EXCEPT
                !.status = IF job[t].attempts >= MaxAttempts THEN "dead" ELSE "queued",
                !.by = None]]
          /\ stale' = stale \ {t}
     ELSE UNCHANGED jobs
  /\ Idle(w)
  /\ UNCHANGED <<turnRows, effects, revoked, faults, replies>>

\* The process dies and comes back under the same id.  What the MCP server
\* was asked goes on without it.
WorkerDies(w) ==
  /\ worker[w].pc # "idle"
  /\ deaths < MaxDeaths
  /\ deaths' = deaths + 1
  /\ Idle(w)
  /\ calls' = IF OutOfProcess THEN calls ELSE calls \ CallsOf(w)
  /\ UNCHANGED <<turnRows, effect, ran, jobs, revoked, throws, replies>>

WorkerStep(w) ==
  \/ ClaimJob(w)     \/ ClaimTurn(w)       \/ LookAtTurn(w)
  \/ FinishModel(w)  \/ CheckIncomplete(w) \/ CheckEffects(w)
  \/ CompleteTurn(w) \/ FailTurn(w)        \/ CompleteJob(w)  \/ FailJob(w)

----------------------------------------------------------------------------

Init ==
  /\ status = [t \in Turns |-> "absent"]
  /\ attemptOf = [t \in Turns |-> 0]
  /\ session = [t \in Turns |-> None]
  /\ request = [t \in Turns |-> t]
  /\ lease = [t \in Turns |-> 0]
  /\ expired = {} /\ retryable = {} /\ stale = {} /\ revoked = {} /\ calls = {}
  /\ effect = [t \in Turns |-> [k \in Keys |-> "none"]]
  /\ active = 0
  /\ job = [t \in Turns |-> [status |-> "absent", by |-> None, attempts |-> 0]]
  /\ worker = [w \in Workers |-> IdleWorker]
  /\ tokens = 0
  /\ deaths = 0 /\ throws = 0
  /\ ran = [t \in Turns |-> [k \in Keys |-> 0]]
  /\ replies = [t \in Turns |-> 0]

ClientStep ==
  \/ \E t \in Turns, s \in Sessions, p \in {0} \cup Turns : Submit(t, s, p)
  \/ \E s \in Sessions : EndSession(s)

ClockStep == \E t \in Turns : LeaseExpires(t) \/ JobGrowsStale(t)

Next ==
  \/ ClientStep
  \/ ClockStep
  \/ \E w \in Workers :
       \/ WorkerStep(w) \/ Renew(w) \/ Throw(w) \/ ThrowJob(w) \/ WorkerDies(w)
       \/ \E k \in Keys : AskTool(w, k)
  \/ \E c \in calls : CallStep(c)

Spec == Init /\ [][Next]_vars

\* The worker ticks every 30 seconds and its queries and tools time out; leases
\* and locks that nobody renews grow old.  Nobody has to send anything.
FairSpec ==
  /\ Spec
  /\ \A w \in Workers : WF_vars(WorkerStep(w))
  /\ \A t \in Turns : WF_vars(LeaseExpires(t)) /\ WF_vars(JobGrowsStale(t))
  /\ WF_vars(\E c \in calls : CallStep(c))

----------------------------------------------------------------------------
(* Properties.                                                             *)

WorkerPcs == {"idle", "claim", "look", "model", "incomplete", "effects", "complete",
              "failTurn", "doneJob", "failJob"}
JobRows == [status : {"absent", "queued", "running", "done", "dead"},
            by : Workers \cup {None}, attempts : 0 .. MaxAttempts]
WorkerStates == [pc : WorkerPcs, turn : Nat, token : Nat, hops : 0 .. MaxHops,
                 answer : {"none", "reply", "refused", "transient", "threw"},
                 retry : {"yes", "no"}]
Calls == [turn : Turns, token : Nat, key : Keys, pc : {"asked", "granted", "ran"}]

\* The shape of every row and of every process's local state; the capacity
\* counter never leaves the range its check constraint gives it.
TypeOK ==
  /\ status \in [Turns -> {"absent"} \cup Active \cup Terminal]
  /\ attemptOf \in [Turns -> {0} \cup Turns]
  /\ session \in [Turns -> Sessions \cup {None}]
  /\ request \in [Turns -> Turns]
  /\ lease \in [Turns -> Nat]
  /\ expired \subseteq Turns /\ retryable \subseteq Turns /\ stale \subseteq Turns
  /\ effect \in [Turns -> [Keys -> {"none", "started", "completed"}]]
  /\ active \in 0 .. MaxActive
  /\ job \in [Turns -> JobRows]
  /\ revoked \subseteq Sessions
  /\ worker \in [Workers -> WorkerStates]
  /\ calls \subseteq Calls
  /\ tokens \in Nat /\ deaths \in Nat /\ throws \in Nat
  /\ ran \in [Turns -> [Keys -> Nat]]
  /\ replies \in [Turns -> Nat]

\* A failed turn is only ever tried again when no consequential call of it got
\* past its fence, and then none ever will.
RetryFindsNothing ==
  \A t \in Turns : attemptOf[t] # 0 =>
    ~HasEffects(attemptOf[t]) /\ \A k \in Keys : ran[attemptOf[t]][k] = 0

\* A consequential call happens only behind its fence and never twice in one
\* turn, however often the model repeats it, the process dies, or the lease
\* changes hands.
EffectsRunOnce ==
  \A t \in Turns, k \in Keys : ran[t][k] <= IF effect[t][k] = "none" THEN 0 ELSE 1

\* A turn is completed exactly when its one reply exists: no second reply, no
\* reply of a process that lost its lease, no completed turn without one.
RepliesMatch ==
  \A t \in Turns : replies[t] = IF status[t] = "completed" THEN 1 ELSE 0

\* The turns of a thread run one at a time and in the order they were sent.
TurnsInOrder ==
  \A t \in Turns : status[t] = "running" => ~EarlierActive(t)

\* What the triggers count is what is queued or running.
CapacityIsExact == active = Cardinality({t \in Turns : status[t] \in Active})

\* The queue never forgets a turn that still waits to be started.
QueuedKeepsItsJob ==
  \A t \in Turns : status[t] = "queued" => job[t].status \in {"queued", "running", "dead"}

\* What a turn ended with, and whether it may be tried again, is never rewritten.
SettledIsFinal ==
  [][\A t \in Turns : status[t] \in Terminal =>
       status'[t] = status[t] /\ (t \in retryable <=> t \in retryable')]_<<status, retryable>>

\* Every accepted turn is completed or failed in the end, whoever dies, unless
\* some job ended with an exception.
AcceptedIsSettled ==
  \A t \in Turns : status[t] \in Active ~> status[t] \in Terminal \/ throws > 0

\* The attempts at request r.  Only the last of them can be under way or have
\* been answered; the others failed.
Chain(r) == {t \in Turns : status[t] # "absent" /\ request[t] = r}

phaseBar ==
  [r \in Turns |->
     LET reached == {status[t] : t \in Chain(r)} IN
     IF reached = {} THEN "absent"
     ELSE IF reached \cap Active # {} THEN "working"
     ELSE IF "completed" \in reached THEN "answered" ELSE "failed"]

reservedBar ==
  [r \in Turns |-> {k \in Keys : \E t \in Chain(r) : effect[t][k] # "none"}]

actedBar ==
  [r \in Turns |-> [k \in Keys |->
     UNION {{t} \X (1 .. ran[t][k]) : t \in Chain(r)}]]

Promise == INSTANCE RequestOnce WITH
  Requests <- Turns, Occasions <- Turns \X {1},
  phase <- phaseBar, reserved <- reservedBar, acted <- actedBar

\* Durable turns keep the promise of RequestOnce.
KeepsPromise == Promise!Spec
=============================================================================
