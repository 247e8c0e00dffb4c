------------------------- MODULE DurableTurnsProofs -------------------------
(***************************************************************************)
(* What holds of DurableTurns for any number of turns, logins, effects,    *)
(* workers, attempts, deaths and exceptions.                               *)
(***************************************************************************)
EXTENDS DurableTurns, FiniteSetTheorems, TLAPS

----------------------------------------------------------------------------
(* The inductive invariant.                                                *)

\* TypeOK without the bounds of the capacity counter.
Shape ==
  /\ status \in [Turns -> {"absent"} \cup Active \cup Terminal]
  /\ attemptOf \in [Turns -> {0} \cup Turns]
  /\ session \in [Turns -> Sessions \cup {None}]
  /\ request \in [Turns -> Turns]
  /\ lease \in [Turns -> Nat]
  /\ expired \subseteq Turns /\ retryable \subseteq Turns /\ stale \subseteq Turns
  /\ effect \in [Turns -> [Keys -> {"none", "started", "completed"}]]
  /\ job \in [Turns -> JobRows]
  /\ revoked \subseteq Sessions
  /\ worker \in [Workers -> WorkerStates]
  /\ calls \subseteq Calls
  /\ tokens \in Nat /\ deaths \in Nat /\ throws \in Nat
  /\ ran \in [Turns -> [Keys -> Nat]]
  /\ replies \in [Turns -> Nat]

\* A worker that is not idle has a turn.
Busy == \A w \in Workers : worker[w].pc # "idle" => worker[w].turn \in Turns

\* No two workers ever hold the same lease, and a run has one.
TokensDiffer ==
  /\ \A w \in Workers : worker[w].token <= tokens
  /\ \A w \in Workers : Running(w) => worker[w].token # 0
  /\ \A v, w \in Workers : worker[v].token = worker[w].token /\ worker[w].token # 0 => v = w

\* A tool call that runs in process has a run waiting for it.
Awaited(c) ==
  \E w \in Workers : /\ worker[w].pc = "model" /\ worker[w].hops > 0
                     /\ worker[w].turn = c.turn /\ worker[w].token = c.token

CallsAreAwaited == OutOfProcess \/ \A c \in calls : Awaited(c)

\* A worker that decided to fail its turn as retryable is about to do so.
RetryIsFresh ==
  \A w \in Workers : worker[w].retry = "yes" => worker[w].pc = "failTurn"

\* A run about to fail its turn as retryable either found no effect, or has
\* lost its lease by now.
FailureIsClean ==
  OutOfProcess \/ \A w \in Workers :
    /\ worker[w].pc = "failTurn" /\ worker[w].retry = "yes"
    /\ Holds(worker[w].turn, worker[w].token)
    => ~HasEffects(worker[w].turn)

\* A retryable turn failed with nothing reserved.
RetryableIsClean ==
  /\ \A t \in retryable : status[t] = "failed"
  /\ OutOfProcess \/ \A t \in retryable : ~HasEffects(t)

RetriesAreOfRetryable ==
  \A t \in Turns : attemptOf[t] # 0 => attemptOf[t] \in retryable

\* Past its fence a call is the only one with its key, and has not run.
GrantedOnce ==
  /\ \A c \in calls : c.pc = "granted" =>
       effect[c.turn][c.key] # "none" /\ ran[c.turn][c.key] = 0
  /\ \A c, d \in calls :
       /\ c.pc = "granted" /\ d.pc = "granted"
       /\ c.turn = d.turn /\ c.key = d.key
       => c = d

\* Turns are submitted one after the other.
SubmittedInOrder ==
  \A t, u \in Turns : u < t /\ status[t] # "absent" => status[u] # "absent"

\* Only turns that were sent have jobs and workers.
SentFirst ==
  /\ \A t \in Turns : job[t].status \in {"queued", "running"} => status[t] # "absent"
  /\ \A w \in Workers : worker[w].pc # "idle" => status[worker[w].turn] # "absent"

\* A turn whose run began never waits again, so its job may end.
BegunIsNotQueued ==
  \A w \in Workers : Running(w) \/ worker[w].pc = "doneJob" =>
    status[worker[w].turn] \notin {"absent", "queued"}

\* The capacity counter is right and stays in its range.
Counted == CapacityIsExact /\ active <= MaxActive

IInv ==
  /\ Shape /\ Busy /\ TokensDiffer /\ RetryIsFresh
  /\ SubmittedInOrder /\ TurnsInOrder /\ SentFirst /\ BegunIsNotQueued /\ QueuedKeepsItsJob
  /\ CallsAreAwaited /\ FailureIsClean /\ RetryableIsClean /\ RetriesAreOfRetryable
  /\ GrantedOnce /\ EffectsRunOnce /\ RepliesMatch /\ Counted

----------------------------------------------------------------------------
(* Elementary updates.                                                     *)

\* Moving a worker on keeps the records of the workers well formed.
LEMMA StepShape ==
  ASSUME worker \in [Workers -> WorkerStates], NEW w \in Workers, NEW pc \in WorkerPcs,
         Step(w, pc)
  PROVE  worker' \in [Workers -> WorkerStates]
  BY DEF Step, WorkerStates

\* A record with fields of these kinds is the state of a worker.
LEMMA WorkerRecord ==
  ASSUME NEW pc \in WorkerPcs, NEW turn \in Nat, NEW token \in Nat,
         NEW hops \in 0 .. MaxHops,
         NEW answer \in {"none", "reply", "refused", "transient", "threw"},
         NEW retry \in {"yes", "no"}
  PROVE  [pc |-> pc, turn |-> turn, token |-> token, hops |-> hops,
          answer |-> answer, retry |-> retry] \in WorkerStates
  BY DEF WorkerStates

\* Where a worker has got to, and the turn and lease it works on, may be any.
LEMMA WorkerMoves ==
  ASSUME NEW r \in WorkerStates, NEW pc \in WorkerPcs, NEW turn \in Nat, NEW token \in Nat
  PROVE  /\ [r EXCEPT !.pc = pc, !.turn = turn] \in WorkerStates
         /\ [r EXCEPT !.pc = pc, !.token = token] \in WorkerStates
  BY DEF WorkerStates

\* An idle worker has the state of one.
LEMMA IdleIsAState == IdleWorker \in WorkerStates
<1>1. "idle" \in WorkerPcs
  BY DEF WorkerPcs
<1>2. 0 \in 0 .. MaxHops
  BY BoundsAssumption
<1> QED  BY <1>1, <1>2, WorkerRecord DEF IdleWorker

\* So does ending a run,
LEMMA EndJobShape ==
  ASSUME worker \in [Workers -> WorkerStates], NEW w \in Workers,
         NEW pc \in {"doneJob", "failJob"}, EndJob(w, pc)
  PROVE  worker' \in [Workers -> WorkerStates]
<1>1. worker[w].turn \in Nat
  BY DEF WorkerStates
<1>2. pc \in WorkerPcs
  BY DEF WorkerPcs
<1>3. [IdleWorker EXCEPT !.pc = pc, !.turn = worker[w].turn] \in WorkerStates
  BY <1>1, <1>2, IdleIsAState, WorkerMoves
<1> QED  BY <1>3 DEF EndJob

\* and going idle.
LEMMA IdleShape ==
  ASSUME worker \in [Workers -> WorkerStates], NEW w \in Workers, Idle(w)
  PROVE  worker' \in [Workers -> WorkerStates]
  BY IdleIsAState DEF Idle

\* What a settling write leaves of a run is well formed.
LEMMA SettledShape ==
  ASSUME worker \in [Workers -> WorkerStates], NEW w \in Workers, Settled(w)
  PROVE  worker' \in [Workers -> WorkerStates]
<1>1. CASE EndJob(w, "doneJob")
  BY <1>1, EndJobShape
<1>2. CASE worker' = [worker EXCEPT ![w] =
             [@ EXCEPT !.pc = "effects", !.answer = "threw", !.retry = "no"]]
  BY <1>2 DEF WorkerStates, WorkerPcs
<1> QED  BY <1>1, <1>2 DEF Settled

----------------------------------------------------------------------------
(* Each action keeps the shape of the state.                               *)

USE DEF turnRows, effects, jobs, faults

\* A submission fills in one row of each table.
LEMMA SubmitShape ==
  ASSUME Shape, NEW t \in Turns, NEW s \in Sessions, NEW p \in {0} \cup Turns, Submit(t, s, p)
  PROVE  Shape'
<1>1. status' \in [Turns -> {"absent"} \cup Active \cup Terminal]
  BY DEF Submit, Shape, Active
<1>2. attemptOf' \in [Turns -> {0} \cup Turns] /\ session' \in [Turns -> Sessions \cup {None}]
  BY DEF Submit, Shape
<1>3. request' \in [Turns -> Turns]
  BY DEF Submit, Shape
<1>4. job' \in [Turns -> JobRows]
  BY DEF Submit, Shape, JobRows
<1> QED  BY <1>1, <1>2, <1>3, <1>4 DEF Submit, Shape

\* Time only moves rows into sets of overdue rows.
LEMMA ClockShape ==
  ASSUME Shape, NEW t \in Turns, LeaseExpires(t) \/ JobGrowsStale(t) 
  PROVE  Shape'
  BY DEF LeaseExpires, JobGrowsStale, Shape

\* The end of a session touches no row of a turn.
LEMMA EndSessionShape ==
  ASSUME Shape, NEW s \in Sessions, EndSession(s)
  PROVE  Shape'
  BY DEF EndSession, Shape

\* Claiming a job keeps its attempts within their bound.
LEMMA ClaimJobShape ==
  ASSUME Shape, NEW w \in Workers, ClaimJob(w)
  PROVE  Shape'
<1> PICK t \in Turns :
      /\ job' = [job EXCEPT ![t] =
            [status |-> "running", by |-> w,
             attempts |-> IF job[t].attempts < MaxAttempts
                          THEN job[t].attempts + 1 ELSE MaxAttempts]]
      /\ stale' = stale \ {t}
      /\ worker' = [worker EXCEPT ![w] = [@ EXCEPT !.pc = "claim", !.turn = t]]
  BY DEF ClaimJob
<1>1. MaxAttempts \in Nat /\ t \in Nat /\ job[t].attempts \in 0 .. MaxAttempts
  BY BoundsAssumption DEF Turns, Shape, JobRows
<1>2. job' \in [Turns -> JobRows]
  <2>1. (IF job[t].attempts < MaxAttempts THEN job[t].attempts + 1 ELSE MaxAttempts)
          \in 0 .. MaxAttempts
    BY <1>1
  <2> QED  BY <2>1 DEF Shape, JobRows
<1>3. worker' \in [Workers -> WorkerStates]
  <2>1. "claim" \in WorkerPcs /\ worker[w] \in WorkerStates
    BY DEF WorkerPcs, Shape
  <2>2. [worker[w] EXCEPT !.pc = "claim", !.turn = t] \in WorkerStates
    BY <1>1, <2>1, WorkerMoves
  <2> QED  BY <2>2 DEF Shape
<1> QED  BY <1>2, <1>3 DEF ClaimJob, Shape

\* The one statement of claimDurableTurn.
LEMMA ClaimTurnShape ==
  ASSUME Shape, Busy, NEW w \in Workers, ClaimTurn(w)
  PROVE  Shape'
<1> DEFINE t == worker[w].turn
<1>0. t \in Turns
  BY DEF ClaimTurn, Busy
<1>1. status' \in [Turns -> {"absent"} \cup Active \cup Terminal]
  BY DEF ClaimTurn, Shape, Active, Terminal
<1>2. lease' \in [Turns -> Nat] /\ tokens' \in Nat
  BY DEF ClaimTurn, Shape
<1>3. expired' \subseteq Turns /\ retryable' \subseteq Turns
  BY <1>0 DEF ClaimTurn, Shape
<1>4. worker' \in [Workers -> WorkerStates]
  <2>1. CASE Claimable(t)
    <3>1. "model" \in WorkerPcs /\ worker[w] \in WorkerStates /\ tokens + 1 \in Nat
      BY DEF WorkerPcs, Shape
    <3>2. [worker[w] EXCEPT !.pc = "model", !.token = tokens + 1] \in WorkerStates
      BY <3>1, WorkerMoves
    <3> QED  BY <2>1, <3>2 DEF ClaimTurn, Shape
  <2>2. CASE ~Claimable(t)
    <3>1. Step(w, "look")
      BY <2>2 DEF ClaimTurn
    <3> QED  BY <3>1, StepShape DEF Shape, WorkerPcs
  <2> QED  BY <2>1, <2>2
<1> QED  BY <1>1, <1>2, <1>3, <1>4 DEF ClaimTurn, Shape

\* Steps that change a worker and no row.
LEMMA ThinkShape ==
  ASSUME Shape, NEW w \in Workers,
         \/ LookAtTurn(w) \/ FinishModel(w) \/ CheckIncomplete(w) \/ CheckEffects(w)
         \/ Throw(w) \/ ThrowJob(w)
  PROVE  Shape'
<1>0. worker \in [Workers -> WorkerStates] /\ worker[w] \in WorkerStates
  BY DEF Shape
<1>1. CASE LookAtTurn(w)
  <2>1. worker' \in [Workers -> WorkerStates]
    BY <1>0, <1>1, EndJobShape DEF LookAtTurn
  <2> QED  BY <1>1, <2>1 DEF LookAtTurn, Shape
<1>2. CASE FinishModel(w)
  <2> PICK answer \in {"reply", "refused", "transient", "threw"} :
       worker' = [worker EXCEPT ![w] =
         [@ EXCEPT !.answer = answer,
                   !.pc = IF answer = "threw" THEN "effects" ELSE "incomplete",
                   !.hops = 0]]
    BY <1>2 DEF FinishModel
  <2> DEFINE pc == IF answer = "threw" THEN "effects" ELSE "incomplete"
  <2>1. pc \in WorkerPcs
    BY DEF WorkerPcs
  <2>2. 0 \in 0 .. MaxHops
    BY BoundsAssumption
  <2> HIDE DEF pc
  <2>3. [worker[w] EXCEPT !.answer = answer, !.pc = pc, !.hops = 0] \in WorkerStates
    BY <1>0, <2>1, <2>2 DEF WorkerStates
  <2>4. worker' \in [Workers -> WorkerStates]
    BY <1>0, <2>3 DEF pc
  <2> QED  BY <1>2, <2>4 DEF FinishModel, Shape
<1>3. CASE CheckIncomplete(w)
  <2> DEFINE pc == IF HasIncompleteEffects(worker[w].turn) THEN "failTurn"
                   ELSE IF worker[w].answer = "reply" THEN "complete" ELSE "effects"
  <2>1. pc \in WorkerPcs
    BY DEF WorkerPcs
  <2>2. Step(w, pc)
    BY <1>3 DEF CheckIncomplete
  <2> HIDE DEF pc
  <2>3. worker' \in [Workers -> WorkerStates]
    BY <1>0, <2>1, <2>2, StepShape
  <2> QED  BY <1>3, <2>3 DEF CheckIncomplete, Shape
<1>4. CASE CheckEffects(w)
  <2>1. "failTurn" \in WorkerPcs
    BY DEF WorkerPcs
  <2>2. \A retry \in {"yes", "no"} :
          [worker[w] EXCEPT !.pc = "failTurn", !.retry = retry] \in WorkerStates
    BY <1>0, <2>1 DEF WorkerStates
  <2>3. worker' \in [Workers -> WorkerStates]
    BY <1>0, <1>4, <2>2 DEF CheckEffects
  <2> QED  BY <1>4, <2>3 DEF CheckEffects, Shape
<1>5. CASE Throw(w)
  <2>1. worker' \in [Workers -> WorkerStates]
    BY <1>0, <1>5, SettledShape DEF Throw, Settled
  <2> QED  BY <1>5, <2>1 DEF Throw, Shape
<1>6. CASE ThrowJob(w)
  <2>1. worker' \in [Workers -> WorkerStates]
    BY <1>0, <1>6, EndJobShape DEF ThrowJob
  <2> QED  BY <1>6, <2>1 DEF ThrowJob, Shape
<1> QED  BY <1>1, <1>2, <1>3, <1>4, <1>5, <1>6

\* A heartbeat takes rows out of sets of overdue rows.
LEMMA RenewShape ==
  ASSUME Shape, NEW w \in Workers, Renew(w)
  PROVE  Shape'
<1>1. expired' \subseteq Turns /\ stale' \subseteq Turns
  BY DEF Renew, Shape
<1> QED  BY <1>1 DEF Renew, Shape

\* A tool call is asked for by a run, which has a turn.
LEMMA AskToolShape ==
  ASSUME Shape, Busy, NEW w \in Workers, NEW k \in Keys, AskTool(w, k)
  PROVE  Shape'
<1>0. worker[w] \in WorkerStates /\ worker[w].turn \in Turns
  BY DEF AskTool, Busy, Shape
<1>1. calls' \subseteq Calls
  <2>1. worker[w].token \in Nat
    BY <1>0 DEF WorkerStates
  <2>2. Call(worker[w].turn, worker[w].token, k, "asked") \in Calls
    BY <1>0, <2>1 DEF Call, Calls
  <2> QED  BY <2>2 DEF AskTool, Shape
<1>2. worker' \in [Workers -> WorkerStates]
  <2>1. worker[w].hops + 1 \in 0 .. MaxHops
    <3>1. worker[w].hops \in 0 .. MaxHops /\ worker[w].hops < MaxHops
      BY <1>0 DEF AskTool, WorkerStates
    <3> QED  BY <3>1, BoundsAssumption
  <2>2. [worker[w] EXCEPT !.hops = worker[w].hops + 1] \in WorkerStates
    BY <1>0, <2>1 DEF WorkerStates
  <2> QED  BY <2>2 DEF AskTool, Shape
<1> QED  BY <1>1, <1>2 DEF AskTool, Shape

\* The steps of a call change one cell of a table and the call itself.
LEMMA CallShape ==
  ASSUME Shape, NEW c \in calls, CallStep(c)
  PROVE  Shape'
<1>0. /\ c \in Calls /\ c.turn \in Turns /\ c.key \in Keys
      /\ effect[c.turn] \in [Keys -> {"none", "started", "completed"}]
      /\ ran[c.turn] \in [Keys -> Nat]
  BY DEF Shape, Calls
<1>1. \A pc \in {"granted", "ran"} : [c EXCEPT !.pc = pc] \in Calls
  BY <1>0 DEF Calls
<1>2. \A s \in {"started", "completed"} :
        [effect EXCEPT ![c.turn] = [@ EXCEPT ![c.key] = s]]
          \in [Turns -> [Keys -> {"none", "started", "completed"}]]
  BY <1>0 DEF Shape
<1>3. [ran EXCEPT ![c.turn] = [ran[c.turn] EXCEPT ![c.key] = ran[c.turn][c.key] + 1]]
        \in [Turns -> [Keys -> Nat]]
  <2>1. ran[c.turn][c.key] + 1 \in Nat
    BY <1>0
  <2> DEFINE row == [ran[c.turn] EXCEPT ![c.key] = ran[c.turn][c.key] + 1]
  <2>2. row \in [Keys -> Nat]
    BY <1>0, <2>1
  <2> HIDE DEF row
  <2>3. [ran EXCEPT ![c.turn] = row] \in [Turns -> [Keys -> Nat]]
    BY <1>0, <2>2 DEF Shape
  <2> QED  BY <2>3 DEF row
<1>4. CASE Begin(c)
  <2>1. effect' \in [Turns -> [Keys -> {"none", "started", "completed"}]]
    BY <1>2, <1>4 DEF Begin, Shape
  <2>2. calls' \subseteq Calls
    BY <1>1, <1>4 DEF Begin, Shape
  <2> QED  BY <1>4, <2>1, <2>2 DEF Begin, Shape
<1>5. CASE Run(c)
  <2>1. ran' \in [Turns -> [Keys -> Nat]]
    BY <1>3, <1>5 DEF Run, Shape
  <2>2. calls' \subseteq Calls
    BY <1>1, <1>5 DEF Run, Shape
  <2> QED  BY <1>5, <2>1, <2>2 DEF Run, Shape
<1>6. CASE SaveReceipt(c)
  BY <1>2, <1>6 DEF SaveReceipt, Shape
<1> QED  BY <1>4, <1>5, <1>6 DEF CallStep

\* The writes that settle a turn.
LEMMA SettleShape ==
  ASSUME Shape, Busy, NEW w \in Workers, CompleteTurn(w) \/ FailTurn(w)
  PROVE  Shape'
<1>0. worker[w].turn \in Turns
  BY DEF Busy, CompleteTurn, FailTurn
<1>1. worker' \in [Workers -> WorkerStates]
  BY SettledShape DEF CompleteTurn, FailTurn, Shape
<1>2. status' \in [Turns -> {"absent"} \cup Active \cup Terminal]
  BY DEF CompleteTurn, FailTurn, Shape, Terminal
<1>3. expired' \subseteq Turns /\ retryable' \subseteq Turns
  BY <1>0 DEF CompleteTurn, FailTurn, Shape
<1>4. replies' \in [Turns -> Nat]
  BY <1>0 DEF CompleteTurn, FailTurn, Shape
<1>5. CASE CompleteTurn(w)
  BY <1>1, <1>2, <1>3, <1>4, <1>5 DEF CompleteTurn, Shape
<1>6. CASE FailTurn(w)
  BY <1>1, <1>2, <1>3, <1>4, <1>6 DEF FailTurn, Shape
<1> QED  BY <1>5, <1>6

\* The writes that settle a job.
LEMMA SettleJobShape ==
  ASSUME Shape, Busy, NEW w \in Workers, CompleteJob(w) \/ FailJob(w)
  PROVE  Shape'
<1>0. worker[w].turn \in Turns
  BY DEF Busy, CompleteJob, FailJob
<1>1. worker' \in [Workers -> WorkerStates]
  BY IdleShape DEF CompleteJob, FailJob, Shape
<1>2. job[worker[w].turn] \in JobRows
  BY <1>0 DEF Shape
<1>3. \A s \in {"done", "dead", "queued"}, b \in Workers \cup {None} :
        /\ [job[worker[w].turn] EXCEPT !.status = s] \in JobRows
        /\ [job[worker[w].turn] EXCEPT !.status = s, !.by = b] \in JobRows
  BY <1>2 DEF JobRows
<1>4. job' \in [Turns -> JobRows]
  <2>1. \/ job' = job
        \/ \E row \in JobRows : job' = [job EXCEPT ![worker[w].turn] = row]
    BY <1>0, <1>3 DEF CompleteJob, FailJob
  <2> QED  BY <1>0, <2>1 DEF Shape
<1>5. stale' \subseteq Turns
  BY DEF CompleteJob, FailJob, Shape
<1>6. CASE CompleteJob(w)
  BY <1>1, <1>4, <1>5, <1>6 DEF CompleteJob, Shape
<1>7. CASE FailJob(w)
  BY <1>1, <1>4, <1>5, <1>7 DEF FailJob, Shape
<1> QED  BY <1>6, <1>7

\* A death takes calls away and leaves an idle worker.
LEMMA DeathShape ==
  ASSUME Shape, NEW w \in Workers, WorkerDies(w)
  PROVE  Shape'
<1>1. worker' \in [Workers -> WorkerStates]
  BY IdleShape DEF WorkerDies, Shape
<1>2. calls' \subseteq Calls
  BY DEF WorkerDies, Shape
<1> QED  BY <1>1, <1>2 DEF WorkerDies, Shape

\* Every step keeps the shape of the state.
LEMMA NextShape ==
  ASSUME Shape, Busy, Next
  PROVE  Shape'
  BY SubmitShape, ClockShape, EndSessionShape, ClaimJobShape, ClaimTurnShape, ThinkShape,
     RenewShape, AskToolShape, CallShape, SettleShape, SettleJobShape, DeathShape
     DEF Next, ClientStep, ClockStep, WorkerStep

----------------------------------------------------------------------------
(* How a worker gets from one action to the next.                          *)

\* The actions of worker w but for the one that hands out leases.
Ordinary(w) ==
  \/ ClaimJob(w) \/ LookAtTurn(w) \/ FinishModel(w) \/ CheckIncomplete(w)
  \/ CheckEffects(w) \/ Throw(w) \/ ThrowJob(w) \/ CompleteTurn(w) \/ FailTurn(w)
  \/ CompleteJob(w) \/ FailJob(w) \/ WorkerDies(w)
  \/ \E k \in Keys : AskTool(w, k)

\* What worker w may have become in an ordinary step: it keeps its lease while
\* its run goes on, and decides on a retry from what it found in the table.
Continued(w) ==
  /\ \A v \in Workers \ {w} : worker'[v] = worker[v]
  /\ worker'[w].pc # "idle" =>
       /\ worker'[w].turn \in Turns
       /\ \/ ClaimJob(w) /\ worker'[w].pc = "claim"
          \/ worker[w].pc # "idle" /\ worker'[w].turn = worker[w].turn
  /\ worker'[w].token \in {0, worker[w].token}
  /\ Running(w)' => /\ Running(w)
                    /\ worker'[w].turn = worker[w].turn
                    /\ worker'[w].token = worker[w].token
  /\ worker'[w].pc = "model" => worker[w].pc = "model" /\ worker'[w].hops > 0
  /\ worker'[w].retry = "yes" =>
       /\ worker'[w].pc = "failTurn"
       /\ worker'[w].turn = worker[w].turn
       /\ ~HasEffects(worker[w].turn)
  /\ worker'[w].pc = "doneJob" =>
       /\ worker'[w].turn = worker[w].turn
       /\ \/ Running(w)
          \/ status[worker[w].turn] # "queued"

\* What ending a run leaves.
LEMMA EndJobFields ==
  ASSUME Shape, NEW w \in Workers, NEW pc, EndJob(w, pc)
  PROVE  /\ worker'[w].pc = pc /\ worker'[w].turn = worker[w].turn
         /\ worker'[w].token = 0 /\ worker'[w].retry = "no"
         /\ \A v \in Workers \ {w} : worker'[v] = worker[v]
  BY DEF EndJob, IdleWorker, Shape

\* What going idle leaves.
LEMMA IdleFields ==
  ASSUME Shape, NEW w \in Workers, Idle(w)
  PROVE  /\ worker'[w].pc = "idle" /\ worker'[w].token = 0 /\ worker'[w].retry = "no"
         /\ \A v \in Workers \ {w} : worker'[v] = worker[v]
  BY DEF Idle, IdleWorker, Shape

\* What an exception leaves.
LEMMA ThrownFields ==
  ASSUME Shape, NEW w \in Workers,
         worker' = [worker EXCEPT ![w] =
             [@ EXCEPT !.pc = "effects", !.answer = "threw", !.retry = "no"]]
  PROVE  /\ worker'[w].pc = "effects" /\ worker'[w].retry = "no"
         /\ worker'[w].turn = worker[w].turn /\ worker'[w].token = worker[w].token
         /\ \A v \in Workers \ {w} : worker'[v] = worker[v]
  BY DEF Shape, WorkerStates

\* Every ordinary step continues its worker.
LEMMA OrdinaryContinues ==
  ASSUME Shape, Busy, RetryIsFresh, NEW w \in Workers, Ordinary(w)
  PROVE  Continued(w)
<1>0. worker[w] \in WorkerStates
  BY DEF Shape
<1>1. CASE ClaimJob(w)
  <2> PICK t \in Turns : worker' = [worker EXCEPT ![w] = [@ EXCEPT !.pc = "claim", !.turn = t]]
    BY <1>1 DEF ClaimJob
  <2>1. /\ worker'[w].pc = "claim" /\ worker'[w].turn = t
        /\ worker'[w].token = worker[w].token /\ worker'[w].retry = worker[w].retry
        /\ \A v \in Workers \ {w} : worker'[v] = worker[v]
    BY <1>0 DEF Shape, WorkerStates
  <2>2. worker[w].retry # "yes"
    BY <1>1 DEF ClaimJob, RetryIsFresh
  <2> QED  BY <1>1, <2>1, <2>2 DEF Continued, Running
<1>2. CASE LookAtTurn(w)
  <2> DEFINE pc == IF status[worker[w].turn] = "queued" THEN "failJob" ELSE "doneJob"
  <2>1. EndJob(w, pc) /\ worker[w].pc = "look"
    BY <1>2 DEF LookAtTurn
  <2> HIDE DEF pc
  <2>2. /\ worker'[w].pc = pc /\ worker'[w].turn = worker[w].turn
        /\ worker'[w].token = 0 /\ worker'[w].retry = "no"
        /\ \A v \in Workers \ {w} : worker'[v] = worker[v]
    BY <2>1, EndJobFields
  <2> QED  BY <2>1, <2>2 DEF Continued, Running, Busy, pc
<1>3. CASE FinishModel(w)
  <2> PICK answer \in {"reply", "refused", "transient", "threw"} :
       worker' = [worker EXCEPT ![w] =
         [@ EXCEPT !.answer = answer,
                   !.pc = IF answer = "threw" THEN "effects" ELSE "incomplete",
                   !.hops = 0]]
    BY <1>3 DEF FinishModel
  <2>1. /\ worker'[w].pc \in {"effects", "incomplete"}
        /\ worker'[w].turn = worker[w].turn /\ worker'[w].token = worker[w].token
        /\ worker'[w].retry = worker[w].retry
        /\ \A v \in Workers \ {w} : worker'[v] = worker[v]
    BY <1>0 DEF Shape, WorkerStates
  <2>2. worker[w].pc = "model" /\ worker[w].retry # "yes"
    BY <1>3 DEF FinishModel, RetryIsFresh
  <2> QED  BY <2>1, <2>2 DEF Continued, Running, Busy
<1>4. CASE CheckIncomplete(w)
  <2>1. /\ worker'[w].pc \in {"failTurn", "complete", "effects"}
        /\ worker'[w].turn = worker[w].turn /\ worker'[w].token = worker[w].token
        /\ worker'[w].retry = worker[w].retry
        /\ \A v \in Workers \ {w} : worker'[v] = worker[v]
    BY <1>0, <1>4 DEF CheckIncomplete, Step, Shape, WorkerStates
  <2>2. worker[w].pc = "incomplete" /\ worker[w].retry # "yes"
    BY <1>4 DEF CheckIncomplete, RetryIsFresh
  <2> QED  BY <2>1, <2>2 DEF Continued, Running, Busy
<1>5. CASE CheckEffects(w)
  <2>1. /\ worker'[w].pc = "failTurn"
        /\ worker'[w].turn = worker[w].turn /\ worker'[w].token = worker[w].token
        /\ worker'[w].retry = "yes" => ~HasEffects(worker[w].turn)
        /\ \A v \in Workers \ {w} : worker'[v] = worker[v]
    BY <1>0, <1>5 DEF CheckEffects, Shape, WorkerStates
  <2>2. worker[w].pc = "effects"
    BY <1>5 DEF CheckEffects
  <2> QED  BY <2>1, <2>2 DEF Continued, Running, Busy
<1>6. ASSUME Running(w), Settled(w)
      PROVE  Continued(w)
  <2>1. CASE EndJob(w, "doneJob")
    BY <1>6, <2>1, EndJobFields DEF Continued, Running, Busy
  <2>2. CASE worker' = [worker EXCEPT ![w] =
             [@ EXCEPT !.pc = "effects", !.answer = "threw", !.retry = "no"]]
    BY <1>6, <2>2, ThrownFields DEF Continued, Running, Busy
  <2> QED  BY <1>6, <2>1, <2>2 DEF Settled
<1>7. CASE Throw(w)
  <2>1. Running(w) /\ Settled(w)
    BY <1>7 DEF Throw, Running, Settled
  <2> QED  BY <1>6, <2>1
<1>8. CASE ThrowJob(w)
  <2>1. EndJob(w, "failJob") /\ worker[w].pc # "idle"
    BY <1>8 DEF ThrowJob
  <2> QED  BY <2>1, EndJobFields DEF Continued, Running, Busy
<1>9. CASE CompleteTurn(w) \/ FailTurn(w)
  <2>1. Running(w) /\ Settled(w)
    BY <1>9 DEF CompleteTurn, FailTurn, Running
  <2> QED  BY <1>6, <2>1
<1>10. CASE CompleteJob(w) \/ FailJob(w) \/ WorkerDies(w)
  <2>1. Idle(w)
    BY <1>10 DEF CompleteJob, FailJob, WorkerDies
  <2> QED  BY <2>1, IdleFields DEF Continued, Running
<1>11. CASE \E k \in Keys : AskTool(w, k)
  <2>1. /\ worker[w].pc = "model"
        /\ worker' = [worker EXCEPT ![w].hops = @ + 1]
    BY <1>11 DEF AskTool
  <2>2. worker[w].hops \in Nat
    BY <1>0, BoundsAssumption DEF WorkerStates
  <2>3. /\ worker'[w].pc = "model" /\ worker'[w].hops = worker[w].hops + 1
        /\ worker'[w].turn = worker[w].turn /\ worker'[w].token = worker[w].token
        /\ worker'[w].retry = worker[w].retry
        /\ \A v \in Workers \ {w} : worker'[v] = worker[v]
    BY <1>0, <2>1 DEF Shape, WorkerStates
  <2>4. worker[w].retry # "yes" /\ worker[w].hops + 1 > 0
    BY <2>1, <2>2 DEF RetryIsFresh
  <2> QED  BY <2>1, <2>3, <2>4 DEF Continued, Running, Busy
<1> QED  BY <1>1, <1>2, <1>3, <1>4, <1>5, <1>7, <1>8, <1>9, <1>10, <1>11 DEF Ordinary

\* A claim moves its worker to the run of the turn under a new lease, or on.
Claimed(w) ==
  /\ \A v \in Workers \ {w} : worker'[v] = worker[v]
  /\ worker[w].pc = "claim"
  /\ worker[w].turn \in Turns /\ worker'[w].turn = worker[w].turn
  /\ worker[w].retry # "yes" /\ worker'[w].retry # "yes"
  /\ \/ /\ Claimable(worker[w].turn)
        /\ worker'[w].pc = "model"
        /\ tokens' = tokens + 1 /\ worker'[w].token = tokens + 1
     \/ /\ ~Claimable(worker[w].turn)
        /\ worker'[w].pc = "look"
        /\ tokens' = tokens /\ worker'[w].token = worker[w].token

\* Every claim does one or the other.
LEMMA ClaimTurnClaims ==
  ASSUME Shape, Busy, RetryIsFresh, NEW w \in Workers, ClaimTurn(w)
  PROVE  Claimed(w)
<1>0. worker[w] \in WorkerStates /\ worker[w].pc = "claim" /\ worker[w].turn \in Turns
  BY DEF ClaimTurn, Shape, Busy
<1>1. worker[w].retry # "yes"
  BY <1>0 DEF RetryIsFresh
<1>2. CASE Claimable(worker[w].turn)
  <2>1. /\ tokens' = tokens + 1
        /\ worker' = [worker EXCEPT ![w] = [@ EXCEPT !.pc = "model", !.token = tokens + 1]]
    BY <1>2 DEF ClaimTurn
  <2>2. /\ worker'[w].pc = "model" /\ worker'[w].turn = worker[w].turn
        /\ worker'[w].token = tokens + 1 /\ worker'[w].retry = worker[w].retry
        /\ \A v \in Workers \ {w} : worker'[v] = worker[v]
    BY <1>0, <2>1 DEF Shape, WorkerStates
  <2> QED  BY <1>0, <1>1, <1>2, <2>1, <2>2 DEF Claimed
<1>3. CASE ~Claimable(worker[w].turn)
  <2>1. tokens' = tokens /\ worker' = [worker EXCEPT ![w].pc = "look"]
    BY <1>3 DEF ClaimTurn, Step
  <2>2. /\ worker'[w].pc = "look" /\ worker'[w].turn = worker[w].turn
        /\ worker'[w].token = worker[w].token /\ worker'[w].retry = worker[w].retry
        /\ \A v \in Workers \ {w} : worker'[v] = worker[v]
    BY <1>0, <2>1 DEF Shape, WorkerStates
  <2> QED  BY <1>0, <1>1, <1>3, <2>1, <2>2 DEF Claimed
<1> QED  BY <1>2, <1>3

\* Which step changes what: the workers,
LEMMA WorkerFrame ==
  ASSUME Next
  PROVE  \/ \E w \in Workers : Ordinary(w) /\ tokens' = tokens
         \/ \E w \in Workers : ClaimTurn(w)
         \/ worker' = worker /\ tokens' = tokens
<1>1. CASE ClientStep \/ ClockStep
  BY <1>1 DEF ClientStep, ClockStep, Submit, EndSession, LeaseExpires, JobGrowsStale
<1>2. CASE \E w \in Workers : Renew(w)
  BY <1>2 DEF Renew
<1>3. CASE \E c \in calls : CallStep(c)
  BY <1>3 DEF CallStep, Begin, Run, SaveReceipt
<1>4. ASSUME NEW w \in Workers, Ordinary(w)
      PROVE  tokens' = tokens
  BY <1>4, ZenonT(60) DEF Ordinary, ClaimJob, LookAtTurn, FinishModel, CheckIncomplete, CheckEffects,
     Throw, ThrowJob, CompleteTurn, FailTurn, CompleteJob, FailJob, WorkerDies, AskTool
<1> QED  BY <1>1, <1>2, <1>3, <1>4 DEF Next, WorkerStep, Ordinary

\* the turns,
LEMMA TurnFrame ==
  ASSUME Next
  PROVE  \/ \E t \in Turns, s \in Sessions, p \in {0} \cup Turns : Submit(t, s, p)
         \/ \E w \in Workers : ClaimTurn(w) \/ CompleteTurn(w) \/ FailTurn(w)
         \/ UNCHANGED <<status, attemptOf, lease, retryable, active, tokens, replies>>
<1>1. CASE ClientStep \/ ClockStep
  BY <1>1 DEF ClientStep, ClockStep, EndSession, LeaseExpires, JobGrowsStale
<1>2. CASE \E w \in Workers : Renew(w)
  BY <1>2 DEF Renew
<1>3. CASE \E c \in calls : CallStep(c)
  BY <1>3 DEF CallStep, Begin, Run, SaveReceipt
<1>4. ASSUME NEW w \in Workers,
             \/ ClaimJob(w) \/ LookAtTurn(w) \/ FinishModel(w)
             \/ CheckIncomplete(w) \/ CheckEffects(w)
      PROVE  UNCHANGED <<status, attemptOf, lease, retryable, active, tokens, replies>>
  BY <1>4 DEF ClaimJob, LookAtTurn, FinishModel, CheckIncomplete, CheckEffects
<1>5. ASSUME NEW w \in Workers, Throw(w) \/ ThrowJob(w) \/ CompleteJob(w) \/ FailJob(w)
      PROVE  UNCHANGED <<status, attemptOf, lease, retryable, active, tokens, replies>>
  BY <1>5 DEF Throw, ThrowJob, CompleteJob, FailJob
<1>6. ASSUME NEW w \in Workers, WorkerDies(w) \/ \E k \in Keys : AskTool(w, k)
      PROVE  UNCHANGED <<status, attemptOf, lease, retryable, active, tokens, replies>>
  BY <1>6 DEF WorkerDies, AskTool
<1> QED  BY <1>1, <1>2, <1>3, <1>4, <1>5, <1>6 DEF Next, WorkerStep

\* the effects,
LEMMA EffectFrame ==
  ASSUME Next
  PROVE  \/ \E c \in calls : CallStep(c)
         \/ UNCHANGED <<effect, ran>>
<1>1. CASE ClientStep \/ ClockStep
  BY <1>1 DEF ClientStep, ClockStep, Submit, EndSession, LeaseExpires, JobGrowsStale
<1>2. CASE \E w \in Workers : Renew(w) \/ ClaimTurn(w)
  BY <1>2 DEF Renew, ClaimTurn
<1>3. CASE \E w \in Workers : Ordinary(w)
  BY <1>3, ZenonT(60) DEF Ordinary, ClaimJob, LookAtTurn, FinishModel, CheckIncomplete, CheckEffects,
     Throw, ThrowJob, CompleteTurn, FailTurn, CompleteJob, FailJob, WorkerDies, AskTool
<1> QED  BY <1>1, <1>2, <1>3 DEF Next, WorkerStep, Ordinary

\* the calls under way,
LEMMA CallFrame ==
  ASSUME Next
  PROVE  \/ \E c \in calls : CallStep(c)
         \/ \E w \in Workers, k \in Keys : AskTool(w, k)
         \/ \E w \in Workers : WorkerDies(w)
         \/ UNCHANGED calls
<1>1. CASE ClientStep \/ ClockStep
  BY <1>1 DEF ClientStep, ClockStep, Submit, EndSession, LeaseExpires, JobGrowsStale
<1>2. CASE \E w \in Workers : Renew(w) \/ ClaimTurn(w)
  BY <1>2 DEF Renew, ClaimTurn
<1>3. CASE \E w \in Workers : \/ ClaimJob(w) \/ LookAtTurn(w) \/ FinishModel(w)
                              \/ CheckIncomplete(w) \/ CheckEffects(w) \/ Throw(w)
                              \/ ThrowJob(w) \/ CompleteTurn(w) \/ FailTurn(w)
                              \/ CompleteJob(w) \/ FailJob(w)
  BY <1>3, ZenonT(60) DEF ClaimJob, LookAtTurn, FinishModel, CheckIncomplete, CheckEffects,
     Throw, ThrowJob, CompleteTurn, FailTurn, CompleteJob, FailJob
<1> QED  BY <1>1, <1>2, <1>3 DEF Next, WorkerStep

\* and the queue.
LEMMA JobFrame ==
  ASSUME Next
  PROVE  \/ \E t \in Turns, s \in Sessions, p \in {0} \cup Turns : Submit(t, s, p)
         \/ \E w \in Workers : ClaimJob(w) \/ CompleteJob(w) \/ FailJob(w)
         \/ UNCHANGED job
<1>1. CASE ClientStep \/ ClockStep
  BY <1>1 DEF ClientStep, ClockStep, EndSession, LeaseExpires, JobGrowsStale
<1>2. CASE \E c \in calls : CallStep(c)
  BY <1>2 DEF CallStep, Begin, Run, SaveReceipt
<1>3. CASE \E w \in Workers : \/ Renew(w) \/ ClaimTurn(w) \/ LookAtTurn(w) \/ FinishModel(w)
                              \/ CheckIncomplete(w) \/ CheckEffects(w) \/ Throw(w)
                              \/ ThrowJob(w) \/ CompleteTurn(w) \/ FailTurn(w)
                              \/ WorkerDies(w) \/ \E k \in Keys : AskTool(w, k)
  BY <1>3, ZenonT(60) DEF Renew, ClaimTurn, LookAtTurn, FinishModel, CheckIncomplete, CheckEffects,
     Throw, ThrowJob, CompleteTurn, FailTurn, WorkerDies, AskTool
<1> QED  BY <1>1, <1>2, <1>3 DEF Next, WorkerStep

----------------------------------------------------------------------------
(* How a turn gets from one status to the next.                            *)

\* Turn t keeps its lease while it runs, starts under a fresh one, waits only
\* after it was sent, and stays settled.
Forward(t) ==
  /\ status[t] \in Terminal => status'[t] = status[t]
  /\ status'[t] = "absent" => status[t] = "absent"
  /\ status'[t] = "queued" => status[t] \in {"absent", "queued"}
  /\ status'[t] = "running" =>
       \/ status[t] = "running" /\ lease'[t] = lease[t]
       \/ lease'[t] = tokens + 1

\* Every turn only moves forward.
LEMMA TurnsGoForward ==
  ASSUME Shape, Busy, Next, NEW t \in Turns
  PROVE  Forward(t)
<1>0. status[t] \in {"absent", "queued", "running", "completed", "failed"}
  BY DEF Shape, Active, Terminal
<1>1. CASE \E u \in Turns, s \in Sessions, p \in {0} \cup Turns : Submit(u, s, p)
  <2> PICK u \in Turns : /\ status[u] = "absent"
                         /\ status' = [status EXCEPT ![u] = "queued"]
                         /\ lease' = lease
    BY <1>1 DEF Submit
  <2> QED  BY <1>0 DEF Forward, Terminal, Shape
<1>2. ASSUME NEW w \in Workers, ClaimTurn(w)
      PROVE  Forward(t)
  <2> DEFINE u == worker[w].turn
             lost == LoggedOut \cup (IF Interrupted(u) THEN {u} ELSE {})
  <2>1. u \in Turns
    BY <1>2 DEF ClaimTurn, Busy
  <2>2. status'[t] = IF t \in lost THEN "failed"
                     ELSE IF t = u /\ Claimable(u) THEN "running" ELSE status[t]
    BY <1>2 DEF ClaimTurn
  <2>3. t \in lost => status[t] \in {"queued", "running"}
    BY DEF LoggedOut, Interrupted
  <2>4. t = u /\ Claimable(u) => status[t] = "queued" /\ lease'[t] = tokens + 1
    BY <1>2, <2>1 DEF ClaimTurn, Claimable, Shape
  <2>5. t # u \/ ~Interrupted(u) => lease'[t] = lease[t] \/ (t = u /\ Claimable(u))
    BY <1>2, <2>1 DEF ClaimTurn, Shape
  <2>6. t = u /\ Interrupted(u) => t \in lost
    OBVIOUS
  <2> QED  BY <1>0, <2>2, <2>3, <2>4, <2>5, <2>6 DEF Forward, Terminal
<1>3. ASSUME NEW w \in Workers, CompleteTurn(w) \/ FailTurn(w)
      PROVE  Forward(t)
  <2> DEFINE u == worker[w].turn
  <2>1. lease' = lease
    BY <1>3 DEF CompleteTurn, FailTurn
  <2>2. \/ status' = status
        \/ /\ status[u] = "running"
           /\ \E s \in Terminal : status' = [status EXCEPT ![u] = s]
    BY <1>3 DEF CompleteTurn, FailTurn, Holds, Terminal
  <2> QED  BY <1>0, <2>1, <2>2 DEF Forward, Terminal, Shape
<1>4. CASE UNCHANGED <<status, attemptOf, lease, retryable, active, tokens, replies>>
  BY <1>4 DEF Forward
<1> QED  BY <1>1, <1>2, <1>3, <1>4, TurnFrame

\* A run that holds its turn's lease held it before.
LEMMA HeldBefore ==
  ASSUME Shape, Busy, Next, NEW t \in Turns, NEW token \in Nat, token <= tokens,
         Holds(t, token)'
  PROVE  Holds(t, token)
<1>1. Forward(t)
  BY TurnsGoForward
<1>2. token # tokens + 1
  BY DEF Shape
<1> QED  BY <1>1, <1>2 DEF Forward, Holds

----------------------------------------------------------------------------
(* Each part of the invariant is kept by every step.                       *)

\* Workers.
LEMMA BusyKept ==
  ASSUME Shape, Busy, RetryIsFresh, Next
  PROVE  Busy' /\ RetryIsFresh'
<1>1. ASSUME NEW w \in Workers, Ordinary(w)
      PROVE  Busy' /\ RetryIsFresh'
  BY <1>1, OrdinaryContinues DEF Continued, Busy, RetryIsFresh
<1>2. ASSUME NEW w \in Workers, ClaimTurn(w)
      PROVE  Busy' /\ RetryIsFresh'
  BY <1>2, ClaimTurnClaims DEF Claimed, Busy, RetryIsFresh
<1>3. CASE worker' = worker
  BY <1>3 DEF Busy, RetryIsFresh
<1> QED  BY <1>1, <1>2, <1>3, WorkerFrame

\* Leases.
LEMMA TokensKept ==
  ASSUME Shape, Busy, RetryIsFresh, TokensDiffer, Next
  PROVE  TokensDiffer'
<1>0. tokens \in Nat /\ \A w \in Workers : worker[w].token \in Nat
  BY DEF Shape, WorkerStates
<1>1. ASSUME NEW w \in Workers, Ordinary(w), tokens' = tokens
      PROVE  TokensDiffer'
  <2>1. Continued(w)
    BY <1>1, OrdinaryContinues
  <2>2. \A v \in Workers : worker'[v].token \in {0, worker[v].token}
    BY <2>1 DEF Continued
  <2>3. \A v \in Workers : Running(v)' => Running(v) /\ worker'[v].token = worker[v].token
    BY <2>1 DEF Continued, Running
  <2> QED  BY <1>0, <1>1, <2>2, <2>3 DEF TokensDiffer
<1>2. ASSUME NEW w \in Workers, ClaimTurn(w)
      PROVE  TokensDiffer'
  <2>1. Claimed(w)
    BY <1>2, ClaimTurnClaims
  <2>2. CASE Claimable(worker[w].turn)
    <3>1. /\ tokens' = tokens + 1 /\ worker'[w].token = tokens + 1
          /\ \A v \in Workers \ {w} : worker'[v] = worker[v]
      BY <2>1, <2>2 DEF Claimed
    <3>2. \A v \in Workers \ {w} : worker'[v].token # tokens + 1
      BY <1>0, <3>1 DEF TokensDiffer
    <3> QED  BY <1>0, <3>1, <3>2 DEF TokensDiffer, Running
  <2>3. CASE ~Claimable(worker[w].turn)
    <3>1. /\ tokens' = tokens /\ worker'[w].token = worker[w].token
          /\ ~Running(w)'
          /\ \A v \in Workers \ {w} : worker'[v] = worker[v]
      BY <2>1, <2>3 DEF Claimed, Running
    <3> QED  BY <3>1 DEF TokensDiffer, Running
  <2> QED  BY <2>2, <2>3
<1>3. CASE worker' = worker /\ tokens' = tokens
  BY <1>3 DEF TokensDiffer, Running
<1> QED  BY <1>1, <1>2, <1>3, WorkerFrame

\* Replies.
LEMMA RepliesKept ==
  ASSUME Shape, Busy, RepliesMatch, Next
  PROVE  RepliesMatch'
<1>1. CASE \E t \in Turns, s \in Sessions, p \in {0} \cup Turns : Submit(t, s, p)
  BY <1>1 DEF Submit, RepliesMatch, Shape
<1>2. ASSUME NEW w \in Workers, ClaimTurn(w)
      PROVE  RepliesMatch'
  <2>1. \A t \in Turns : status'[t] = "completed" <=> status[t] = "completed"
    BY <1>2 DEF ClaimTurn, LoggedOut, Interrupted, Claimable, Shape
  <2> QED  BY <1>2, <2>1 DEF ClaimTurn, RepliesMatch
<1>3. ASSUME NEW w \in Workers, CompleteTurn(w)
      PROVE  RepliesMatch'
  <2>1. CASE Holds(worker[w].turn, worker[w].token)
    <3> DEFINE u == worker[w].turn
    <3>1. /\ status' = [status EXCEPT ![u] = "completed"]
          /\ replies' = [replies EXCEPT ![u] = @ + 1]
          /\ status[u] = "running"
      BY <1>3, <2>1 DEF CompleteTurn, Holds
    <3>2. u \in Turns => replies[u] = 0
      BY <3>1 DEF RepliesMatch
    <3>3. ASSUME NEW t \in Turns
          PROVE  replies'[t] = IF status'[t] = "completed" THEN 1 ELSE 0
      <4> HIDE DEF u
      <4>1. CASE t = u
        BY <3>1, <3>2, <4>1 DEF Shape
      <4>2. CASE t # u
        BY <3>1, <4>2 DEF Shape, RepliesMatch
      <4> QED  BY <4>1, <4>2
    <3> QED  BY <3>3 DEF RepliesMatch
  <2>2. CASE ~Holds(worker[w].turn, worker[w].token)
    BY <1>3, <2>2 DEF CompleteTurn, RepliesMatch
  <2> QED  BY <2>1, <2>2
<1>4. ASSUME NEW w \in Workers, FailTurn(w)
      PROVE  RepliesMatch'
  <2>1. CASE Holds(worker[w].turn, worker[w].token)
    BY <1>4, <2>1 DEF FailTurn, Holds, RepliesMatch, Shape
  <2>2. CASE ~Holds(worker[w].turn, worker[w].token)
    BY <1>4, <2>2 DEF FailTurn, RepliesMatch
  <2> QED  BY <2>1, <2>2
<1>5. CASE UNCHANGED <<status, attemptOf, lease, retryable, active, tokens, replies>>
  BY <1>5 DEF RepliesMatch
<1> QED  BY <1>1, <1>2, <1>3, <1>4, <1>5, TurnFrame

\* The order of submissions, and of runs.
LEMMA OrderKept ==
  ASSUME Shape, Busy, SubmittedInOrder, TurnsInOrder, Next
  PROVE  SubmittedInOrder' /\ TurnsInOrder'
<1>0. \A t \in Turns : status[t] \in {"absent", "queued", "running", "completed", "failed"}
  BY DEF Shape, Active, Terminal
<1>1. ASSUME NEW t \in Turns, NEW s \in Sessions, NEW p \in {0} \cup Turns, Submit(t, s, p)
      PROVE  SubmittedInOrder' /\ TurnsInOrder'
  <2>1. /\ status[t] = "absent" /\ status' = [status EXCEPT ![t] = "queued"]
        /\ \A u \in Turns : u < t => status[u] # "absent"
    BY <1>1 DEF Submit, Turns
  <2>2. \A u \in Turns : t < u => status[u] = "absent"
    BY <2>1 DEF SubmittedInOrder
  <2>3. SubmittedInOrder'
    BY <2>1, <2>2 DEF SubmittedInOrder, Shape
  <2>4. TurnsInOrder'
    BY <2>1, <2>2 DEF TurnsInOrder, EarlierActive, Shape
  <2> QED  BY <2>3, <2>4
<1>2. ASSUME NEW w \in Workers, ClaimTurn(w)
      PROVE  SubmittedInOrder' /\ TurnsInOrder'
  <2> DEFINE t == worker[w].turn
  <2>1. \A u \in Turns : status'[u] = "absent" => status[u] = "absent"
    BY TurnsGoForward DEF Forward
  <2>2. \A u \in Turns : status[u] = "absent" => status'[u] = "absent"
    BY <1>2 DEF ClaimTurn, LoggedOut, Interrupted, Claimable
  <2>3. \A u \in Turns : status'[u] \in Active => status[u] \in Active
    BY <1>2 DEF ClaimTurn, Claimable, Active
  <2>4. \A u \in Turns : status'[u] = "running" => status[u] = "running" \/ ~EarlierActive(u)
    BY <1>2 DEF ClaimTurn, Claimable
  <2>5. SubmittedInOrder'
    BY <2>1, <2>2 DEF SubmittedInOrder
  <2>6. TurnsInOrder'
    BY <2>3, <2>4 DEF TurnsInOrder, EarlierActive
  <2> QED  BY <2>5, <2>6
<1>3. ASSUME NEW w \in Workers, CompleteTurn(w) \/ FailTurn(w)
      PROVE  SubmittedInOrder' /\ TurnsInOrder'
  <2>1. \/ status' = status
        \/ \E u \in Turns, s \in Terminal :
             status[u] = "running" /\ status' = [status EXCEPT ![u] = s]
    BY <1>3 DEF CompleteTurn, FailTurn, Holds, Terminal, Busy
  <2>2. CASE status' = status
    BY <2>2 DEF SubmittedInOrder, TurnsInOrder, EarlierActive
  <2>3. ASSUME NEW u \in Turns, NEW s \in Terminal,
               status[u] = "running", status' = [status EXCEPT ![u] = s]
        PROVE  SubmittedInOrder' /\ TurnsInOrder'
    BY <2>3 DEF SubmittedInOrder, TurnsInOrder, EarlierActive, Active, Terminal, Shape
  <2> QED  BY <2>1, <2>2, <2>3
<1>4. CASE UNCHANGED <<status, attemptOf, lease, retryable, active, tokens, replies>>
  BY <1>4 DEF SubmittedInOrder, TurnsInOrder, EarlierActive
<1> QED  BY <1>1, <1>2, <1>3, <1>4, TurnFrame

\* Jobs and workers of turns that were sent.
LEMMA SentKept ==
  ASSUME Shape, Busy, RetryIsFresh, SentFirst, Next
  PROVE  SentFirst'
<1>0. \A t \in Turns : status[t] # "absent" => status'[t] # "absent"
  BY TurnsGoForward DEF Forward
<1>1. \A t \in Turns : job'[t].status \in {"queued", "running"} => status'[t] # "absent"
  <2>1. CASE \E t \in Turns, s \in Sessions, p \in {0} \cup Turns : Submit(t, s, p)
    BY <1>0, <2>1 DEF Submit, SentFirst, Shape, JobRows
  <2>2. ASSUME NEW w \in Workers, ClaimJob(w)
        PROVE  \A t \in Turns : job'[t].status \in {"queued", "running"}
                             => job[t].status \in {"queued", "running"}
    BY <2>2 DEF ClaimJob, Due, Shape
  <2>3. ASSUME NEW w \in Workers, CompleteJob(w) \/ FailJob(w)
        PROVE  \A t \in Turns \ {worker[w].turn} : job'[t] = job[t]
    BY <2>3 DEF CompleteJob, FailJob, Shape
  <2>4. ASSUME NEW w \in Workers, CompleteJob(w) \/ FailJob(w)
        PROVE  status[worker[w].turn] # "absent"
    BY <2>4 DEF CompleteJob, FailJob, SentFirst
  <2> QED  BY <1>0, <2>1, <2>2, <2>3, <2>4, JobFrame DEF SentFirst
<1>2. \A w \in Workers : worker'[w].pc # "idle" => status'[worker'[w].turn] # "absent"
  <2>1. ASSUME NEW v \in Workers, worker'[v].turn = worker[v].turn, worker[v].pc # "idle"
        PROVE  status'[worker'[v].turn] # "absent"
    BY <1>0, <2>1 DEF Busy, SentFirst
  <2>2. ASSUME NEW w \in Workers, ClaimJob(w)
        PROVE  /\ worker'[w].turn \in Turns /\ status[worker'[w].turn] # "absent"
               /\ \A v \in Workers \ {w} : worker'[v] = worker[v]
    <3> PICK t \in Turns :
           /\ Due(t)
           /\ worker' = [worker EXCEPT ![w] = [@ EXCEPT !.pc = "claim", !.turn = t]]
      BY <2>2 DEF ClaimJob
    <3>1. worker'[w].turn = t /\ \A v \in Workers \ {w} : worker'[v] = worker[v]
      BY DEF Shape, WorkerStates
    <3> QED  BY <3>1 DEF Due, SentFirst
  <2>3. ASSUME NEW w \in Workers, Ordinary(w), ~ClaimJob(w)
        PROVE  /\ worker'[w].pc # "idle" =>
                    worker[w].pc # "idle" /\ worker'[w].turn = worker[w].turn
               /\ \A v \in Workers \ {w} : worker'[v] = worker[v]
    BY <2>3, OrdinaryContinues DEF Continued
  <2>4. ASSUME NEW w \in Workers, ClaimTurn(w)
        PROVE  /\ worker[w].pc # "idle" /\ worker'[w].turn = worker[w].turn
               /\ \A v \in Workers \ {w} : worker'[v] = worker[v]
    BY <2>4, ClaimTurnClaims DEF Claimed
  <2> QED  BY <1>0, <2>1, <2>2, <2>3, <2>4, WorkerFrame DEF SentFirst
<1> QED  BY <1>1, <1>2 DEF SentFirst

\* What has begun never waits again.
LEMMA BegunKept ==
  ASSUME Shape, Busy, RetryIsFresh, SentFirst, BegunIsNotQueued, Next
  PROVE  BegunIsNotQueued'
<1>0. \A t \in Turns : status[t] \notin {"absent", "queued"} =>
                       status'[t] \notin {"absent", "queued"}
  BY TurnsGoForward DEF Forward
<1>1. ASSUME NEW v \in Workers,
             worker[v].pc # "idle", worker'[v].turn = worker[v].turn,
             status[worker[v].turn] \notin {"absent", "queued"}
      PROVE  status'[worker'[v].turn] \notin {"absent", "queued"}
  BY <1>0, <1>1 DEF Busy
<1>2. ASSUME NEW v \in Workers, worker'[v] = worker[v]
      PROVE  Running(v)' \/ worker'[v].pc = "doneJob" =>
               status'[worker'[v].turn] \notin {"absent", "queued"}
  BY <1>1, <1>2 DEF BegunIsNotQueued, Running
<1>3. ASSUME NEW w \in Workers, Ordinary(w)
      PROVE  BegunIsNotQueued'
  <2>1. Continued(w)
    BY <1>3, OrdinaryContinues
  <2>2. ASSUME Running(w)'
        PROVE  status'[worker'[w].turn] \notin {"absent", "queued"}
    <3>1. Running(w) /\ worker'[w].turn = worker[w].turn
      BY <2>1, <2>2 DEF Continued
    <3>2. worker[w].pc # "idle" /\ status[worker[w].turn] \notin {"absent", "queued"}
      BY <3>1 DEF BegunIsNotQueued, Running
    <3> QED  BY <1>1, <3>1, <3>2
  <2>3. ASSUME worker'[w].pc = "doneJob"
        PROVE  status'[worker'[w].turn] \notin {"absent", "queued"}
    <3>1. /\ worker'[w].turn = worker[w].turn /\ worker[w].pc # "idle"
          /\ Running(w) \/ status[worker[w].turn] # "queued"
      BY <2>1, <2>3 DEF Continued, Running
    <3>2. status[worker[w].turn] \notin {"absent", "queued"}
      BY <3>1 DEF BegunIsNotQueued, SentFirst
    <3> QED  BY <1>1, <3>1, <3>2
  <2> QED  BY <1>2, <2>1, <2>2, <2>3 DEF Continued, BegunIsNotQueued
<1>4. ASSUME NEW w \in Workers, ClaimTurn(w)
      PROVE  BegunIsNotQueued'
  <2>1. Claimed(w)
    BY <1>4, ClaimTurnClaims
  <2>2. ASSUME Running(w)'
        PROVE  status'[worker'[w].turn] = "running"
    <3>1. Claimable(worker[w].turn) /\ worker'[w].turn = worker[w].turn
      BY <2>1, <2>2 DEF Claimed, Running
    <3> QED  BY <1>4, <2>1, <3>1 DEF ClaimTurn, Claimable, Claimed, LoggedOut, Interrupted
  <2>3. worker'[w].pc # "doneJob"
    BY <2>1 DEF Claimed
  <2> QED  BY <1>2, <2>1, <2>2, <2>3 DEF Claimed, BegunIsNotQueued
<1>5. CASE worker' = worker
  BY <1>2, <1>5 DEF BegunIsNotQueued
<1> QED  BY <1>3, <1>4, <1>5, WorkerFrame

\* The job of a turn that waits.
LEMMA JobsKept ==
  ASSUME Shape, Busy, BegunIsNotQueued, QueuedKeepsItsJob, Next
  PROVE  QueuedKeepsItsJob'
<1>0. \A t \in Turns : status'[t] = "queued" => status[t] \in {"absent", "queued"}
  BY TurnsGoForward DEF Forward
<1>1. CASE \E t \in Turns, s \in Sessions, p \in {0} \cup Turns : Submit(t, s, p)
  <2> PICK t \in Turns : /\ status' = [status EXCEPT ![t] = "queued"]
                         /\ job' = [job EXCEPT ![t] = [@ EXCEPT !.status = "queued"]]
    BY <1>1 DEF Submit
  <2>1. job'[t].status = "queued"
    BY DEF Shape, JobRows
  <2> QED  BY <2>1 DEF QueuedKeepsItsJob, Shape
<1>2. ASSUME ~ \E t \in Turns, s \in Sessions, p \in {0} \cup Turns : Submit(t, s, p)
      PROVE  \A t \in Turns : status'[t] = "queued" => status[t] = "queued"
  <2>1. ASSUME NEW w \in Workers, ClaimTurn(w) \/ CompleteTurn(w) \/ FailTurn(w)
        PROVE  \A t \in Turns : status'[t] = "queued" => status[t] = "queued"
    BY <2>1 DEF ClaimTurn, CompleteTurn, FailTurn, Shape
  <2> QED  BY <1>2, <2>1, TurnFrame
<1>3. ASSUME NEW w \in Workers, ClaimJob(w)
      PROVE  \A t \in Turns : job'[t] = job[t] \/ job'[t].status = "running"
  BY <1>3 DEF ClaimJob, Shape
<1>4. ASSUME NEW w \in Workers, CompleteJob(w)
      PROVE  \A t \in Turns : job'[t] = job[t] \/ status[t] # "queued"
  BY <1>4 DEF CompleteJob, BegunIsNotQueued, Shape
<1>5. ASSUME NEW w \in Workers, FailJob(w)
      PROVE  \A t \in Turns : job'[t] = job[t] \/ job'[t].status \in {"queued", "dead"}
  <2> DEFINE u == worker[w].turn
  <2>1. u \in Turns
    BY <1>5 DEF FailJob, Busy
  <2>2. \/ job' = job
        \/ \E s \in {"queued", "dead"} :
             job' = [job EXCEPT ![u] = [@ EXCEPT !.status = s, !.by = None]]
    BY <1>5 DEF FailJob
  <2>3. \A s \in {"queued", "dead"} :
          [job[u] EXCEPT !.status = s, !.by = None].status = s
    BY <2>1 DEF Shape, JobRows
  <2> HIDE DEF u
  <2> QED  BY <2>1, <2>2, <2>3 DEF Shape
<1> QED  BY <1>1, <1>2, <1>3, <1>4, <1>5, JobFrame DEF QueuedKeepsItsJob

----------------------------------------------------------------------------
(* Effects.                                                                *)

\* The fence lets call c through: it reserved its effect, which nobody had.
Passes(c) ==
  /\ c.pc = "asked" /\ Holds(c.turn, c.token)
  /\ effect[c.turn][c.key] = "none" /\ effect'[c.turn][c.key] # "none"
  /\ \A t \in Turns, k \in Keys : <<t, k>> # <<c.turn, c.key>> => effect'[t][k] = effect[t][k]
  /\ ran' = ran
  /\ \E d \in Calls : /\ calls' = (calls \ {c}) \cup {d}
                      /\ d.turn = c.turn /\ d.key = c.key /\ d.token = c.token
                      /\ d.pc = "granted"

\* Call c has acted, or not.
Acts(c) ==
  /\ c.pc = "granted" /\ effect' = effect
  /\ \A t \in Turns, k \in Keys :
       ran'[t][k] = ran[t][k] \/ (t = c.turn /\ k = c.key /\ ran'[t][k] = ran[t][k] + 1)
  /\ \E d \in Calls : /\ calls' \subseteq (calls \ {c}) \cup {d}
                      /\ d.turn = c.turn /\ d.token = c.token /\ d.pc = "ran"

\* Call c ends; a receipt is no reservation.
Ends(c) ==
  /\ calls' = calls \ {c} /\ ran' = ran
  /\ \A t \in Turns, k \in Keys : (effect'[t][k] = "none" <=> effect[t][k] = "none")

\* Every step of a call is one of the three.
LEMMA CallsProgress ==
  ASSUME Shape, NEW c \in calls, CallStep(c)
  PROVE  Passes(c) \/ Acts(c) \/ Ends(c)
<1>0. /\ c \in Calls /\ c.turn \in Turns /\ c.key \in Keys
      /\ effect[c.turn] \in [Keys -> {"none", "started", "completed"}]
      /\ ran[c.turn] \in [Keys -> Nat]
  BY DEF Shape, Calls
<1>1. ASSUME NEW pc \in {"granted", "ran"}
      PROVE  \E d \in Calls : /\ d = [c EXCEPT !.pc = pc]
                              /\ d.turn = c.turn /\ d.key = c.key /\ d.token = c.token
                              /\ d.pc = pc
  <2> DEFINE d == [c EXCEPT !.pc = pc]
  <2>1. /\ d \in Calls /\ d.turn = c.turn /\ d.key = c.key /\ d.token = c.token
        /\ d.pc = pc
    BY <1>0 DEF Calls
  <2> HIDE DEF d
  <2> QED  BY <2>1 DEF d
<1>2. ASSUME NEW s, effect' = [effect EXCEPT ![c.turn] = [@ EXCEPT ![c.key] = s]]
      PROVE  /\ effect'[c.turn][c.key] = s
             /\ \A t \in Turns, k \in Keys :
                  <<t, k>> # <<c.turn, c.key>> => effect'[t][k] = effect[t][k]
  BY <1>0, <1>2 DEF Shape
<1>3. CASE Begin(c)
  <2>1. CASE Holds(c.turn, c.token) /\ effect[c.turn][c.key] = "none"
    <3>1. /\ c.pc = "asked" /\ ran' = ran
          /\ effect' = [effect EXCEPT ![c.turn] = [@ EXCEPT ![c.key] = "started"]]
          /\ calls' = (calls \ {c}) \cup {[c EXCEPT !.pc = "granted"]}
      BY <1>3, <2>1 DEF Begin
    <3>2. \E d \in Calls : /\ calls' = (calls \ {c}) \cup {d}
                           /\ d.turn = c.turn /\ d.key = c.key /\ d.token = c.token
                           /\ d.pc = "granted"
      BY <1>1, <3>1
    <3>3. /\ effect'[c.turn][c.key] = "started"
          /\ \A t \in Turns, k \in Keys :
               <<t, k>> # <<c.turn, c.key>> => effect'[t][k] = effect[t][k]
      BY <1>2, <3>1
    <3> QED  BY <2>1, <3>1, <3>2, <3>3 DEF Passes
  <2>2. CASE ~ (Holds(c.turn, c.token) /\ effect[c.turn][c.key] = "none")
    BY <1>3, <2>2 DEF Begin, Ends
  <2> QED  BY <2>1, <2>2
<1>4. CASE Run(c)
  <2>1. c.pc = "granted" /\ effect' = effect
    BY <1>4 DEF Run
  <2>2. \A t \in Turns, k \in Keys :
          ran'[t][k] = ran[t][k] \/ (t = c.turn /\ k = c.key /\ ran'[t][k] = ran[t][k] + 1)
    BY <1>0, <1>4 DEF Run, Shape
  <2>3. \E d \in Calls : /\ calls' \subseteq (calls \ {c}) \cup {d}
                         /\ d.turn = c.turn /\ d.token = c.token /\ d.pc = "ran"
    BY <1>1, <1>4 DEF Run
  <2> QED  BY <2>1, <2>2, <2>3 DEF Acts
<1>5. CASE SaveReceipt(c)
  <2>1. CASE Holds(c.turn, c.token) /\ effect[c.turn][c.key] = "started"
    <3>1. /\ calls' = calls \ {c} /\ ran' = ran
          /\ effect' = [effect EXCEPT ![c.turn] = [@ EXCEPT ![c.key] = "completed"]]
      BY <1>5, <2>1 DEF SaveReceipt
    <3>2. /\ effect'[c.turn][c.key] = "completed"
          /\ \A t \in Turns, k \in Keys :
               <<t, k>> # <<c.turn, c.key>> => effect'[t][k] = effect[t][k]
      BY <1>2, <3>1
    <3> QED  BY <2>1, <3>1, <3>2 DEF Ends
  <2>2. CASE ~ (Holds(c.turn, c.token) /\ effect[c.turn][c.key] = "started")
    BY <1>5, <2>2 DEF SaveReceipt, Ends
  <2> QED  BY <2>1, <2>2
<1> QED  BY <1>3, <1>4, <1>5 DEF CallStep

\* Effects are carried out behind their fence and once.
LEMMA EffectsKept ==
  ASSUME Shape, GrantedOnce, EffectsRunOnce, Next
  PROVE  GrantedOnce' /\ EffectsRunOnce'
<1>0. \A t \in Turns, k \in Keys : ran[t][k] \in Nat
  BY DEF Shape
<1>1. ASSUME NEW c \in calls, CallStep(c)
      PROVE  GrantedOnce' /\ EffectsRunOnce'
  <2>0. c.turn \in Turns /\ c.key \in Keys
    BY DEF Shape, Calls
  <2>1. CASE Passes(c)
    <3> PICK d \in Calls : /\ calls' = (calls \ {c}) \cup {d}
                           /\ d.turn = c.turn /\ d.key = c.key /\ d.pc = "granted"
      BY <2>1 DEF Passes
    <3>1. ran[c.turn][c.key] = 0
      BY <1>0, <2>0, <2>1 DEF Passes, EffectsRunOnce
    <3>2. \A e \in calls : e.pc = "granted" => <<e.turn, e.key>> # <<c.turn, c.key>>
      BY <2>1 DEF Passes, GrantedOnce
    <3>3. \A e \in calls : e.turn \in Turns /\ e.key \in Keys
      BY DEF Shape, Calls
    <3>4. GrantedOnce'
      BY <2>1, <3>1, <3>2, <3>3 DEF Passes, GrantedOnce
    <3>5. EffectsRunOnce'
      BY <1>0, <2>0, <2>1, <3>1 DEF Passes, EffectsRunOnce
    <3> QED  BY <3>4, <3>5
  <2>2. CASE Acts(c)
    <3> PICK d \in Calls : calls' \subseteq (calls \ {c}) \cup {d} /\ d.pc = "ran"
      BY <2>2 DEF Acts
    <3>1. effect[c.turn][c.key] # "none" /\ ran[c.turn][c.key] = 0
      BY <2>2 DEF Acts, GrantedOnce
    <3>2. \A e \in calls' : e.pc = "granted" =>
            e \in calls /\ e.turn \in Turns /\ e.key \in Keys
            /\ <<e.turn, e.key>> # <<c.turn, c.key>>
      BY <2>2 DEF Acts, GrantedOnce, Shape, Calls
    <3>3. GrantedOnce'
      BY <2>2, <3>2 DEF Acts, GrantedOnce
    <3>4. EffectsRunOnce'
      BY <1>0, <2>0, <2>2, <3>1 DEF Acts, EffectsRunOnce
    <3> QED  BY <3>3, <3>4
  <2>3. CASE Ends(c)
    <3>1. \A e \in calls : e.turn \in Turns /\ e.key \in Keys
      BY DEF Shape, Calls
    <3> QED  BY <2>3, <3>1 DEF Ends, GrantedOnce, EffectsRunOnce
  <2> QED  BY <1>1, <2>1, <2>2, <2>3, CallsProgress
<1>2. ASSUME NEW w \in Workers, NEW k \in Keys, AskTool(w, k)
      PROVE  GrantedOnce' /\ EffectsRunOnce'
  <2>1. /\ calls' = calls \cup {Call(worker[w].turn, worker[w].token, k, "asked")}
        /\ effect' = effect /\ ran' = ran
    BY <1>2 DEF AskTool
  <2>2. Call(worker[w].turn, worker[w].token, k, "asked").pc = "asked"
    BY DEF Call
  <2>3. \A c \in calls' : c.pc = "granted" => c \in calls
    BY <2>1, <2>2
  <2> QED  BY <2>1, <2>3 DEF GrantedOnce, EffectsRunOnce
<1>3. CASE calls' \subseteq calls /\ UNCHANGED <<effect, ran>>
  BY <1>3 DEF GrantedOnce, EffectsRunOnce
<1>4. ASSUME NEW w \in Workers, WorkerDies(w)
      PROVE  calls' \subseteq calls
  BY <1>4 DEF WorkerDies
<1> QED  BY <1>1, <1>2, <1>3, <1>4, CallFrame, EffectFrame

\* Calls in process are awaited.
LEMMA AwaitedKept ==
  ASSUME Shape, Busy, RetryIsFresh, CallsAreAwaited, Next
  PROVE  CallsAreAwaited'
<1> SUFFICES ASSUME ~OutOfProcess PROVE \A c \in calls' : Awaited(c)'
  BY DEF CallsAreAwaited
<1>0. \A c \in calls : Awaited(c)
  BY DEF CallsAreAwaited
<1>1. ASSUME NEW c \in calls, CallStep(c)
      PROVE  \A e \in calls' : Awaited(e)'
  <2>1. worker' = worker
    BY <1>1 DEF CallStep, Begin, Run, SaveReceipt
  <2>2. \A e \in calls' : \E d \in calls : e.turn = d.turn /\ e.token = d.token
    BY <1>1, CallsProgress DEF Passes, Acts, Ends
  <2> QED  BY <1>0, <2>1, <2>2 DEF Awaited
<1>2. ASSUME NEW w \in Workers, NEW k \in Keys, AskTool(w, k)
      PROVE  \A e \in calls' : Awaited(e)'
  <2> DEFINE new == Call(worker[w].turn, worker[w].token, k, "asked")
  <2>0. worker[w] \in WorkerStates /\ worker[w].hops \in Nat
    BY BoundsAssumption DEF Shape, WorkerStates
  <2>1. /\ calls' = calls \cup {new} /\ worker[w].pc = "model"
        /\ worker' = [worker EXCEPT ![w].hops = @ + 1]
    BY <1>2 DEF AskTool
  <2>2. /\ worker'[w].pc = "model" /\ worker'[w].hops = worker[w].hops + 1
        /\ worker'[w].turn = worker[w].turn /\ worker'[w].token = worker[w].token
        /\ \A v \in Workers \ {w} : worker'[v] = worker[v]
    BY <2>0, <2>1 DEF Shape, WorkerStates
  <2>3. new.turn = worker[w].turn /\ new.token = worker[w].token
    BY DEF Call
  <2>4. worker'[w].hops > 0
    BY <2>0, <2>2
  <2>5. Awaited(new)'
    BY <2>2, <2>3, <2>4 DEF Awaited
  <2>6. \A c \in calls : Awaited(c)'
    BY <1>0, <2>2, <2>4 DEF Awaited
  <2> QED  BY <2>1, <2>5, <2>6
<1>3. ASSUME NEW w \in Workers,
             Ordinary(w) \/ ClaimTurn(w), ~ \E k \in Keys : AskTool(w, k)
      PROVE  /\ \A v \in Workers \ {w} : worker'[v] = worker[v]
             /\ \A c \in calls' : ~ (/\ worker[w].pc = "model" /\ worker[w].hops > 0
                                     /\ worker[w].turn = c.turn /\ worker[w].token = c.token)
             /\ calls' \subseteq calls
  <2>1. \A v \in Workers \ {w} : worker'[v] = worker[v]
    BY <1>3, OrdinaryContinues, ClaimTurnClaims DEF Continued, Claimed
  <2>2. CASE FinishModel(w)
    BY <2>1, <2>2 DEF FinishModel, CallsOf
  <2>3. CASE WorkerDies(w)
    BY <2>1, <2>3 DEF WorkerDies, CallsOf
  <2>4. CASE \/ ClaimJob(w) \/ ClaimTurn(w) \/ LookAtTurn(w) \/ CheckIncomplete(w)
             \/ CheckEffects(w) \/ Throw(w) \/ ThrowJob(w) \/ CompleteTurn(w)
             \/ FailTurn(w) \/ CompleteJob(w) \/ FailJob(w)
    <3>1. calls' = calls
      BY <2>4 DEF ClaimJob, ClaimTurn, LookAtTurn, CheckIncomplete, CheckEffects, Throw,
         ThrowJob, CompleteTurn, FailTurn, CompleteJob, FailJob
    <3>2. worker[w].pc = "model" => worker[w].hops = 0
      BY <2>4 DEF ClaimJob, ClaimTurn, LookAtTurn, CheckIncomplete, CheckEffects, Throw,
         ThrowJob, CompleteTurn, FailTurn, CompleteJob, FailJob
    <3>3. ~ (worker[w].pc = "model" /\ worker[w].hops > 0)
      BY <3>2
    <3> QED  BY <2>1, <3>1, <3>3
  <2> QED  BY <1>3, <2>2, <2>3, <2>4 DEF Ordinary
<1>4. ASSUME NEW w \in Workers, Ordinary(w) \/ ClaimTurn(w)
      PROVE  \A e \in calls' : Awaited(e)'
  <2>1. CASE \E k \in Keys : AskTool(w, k)
    BY <1>2, <2>1
  <2>2. CASE ~ \E k \in Keys : AskTool(w, k)
    BY <1>0, <1>3, <1>4, <2>2 DEF Awaited
  <2> QED  BY <2>1, <2>2
<1>5. CASE worker' = worker /\ calls' = calls
  BY <1>0, <1>5 DEF Awaited
<1>6. ASSUME NEW w \in Workers, WorkerDies(w)
      PROVE  Ordinary(w)
  BY <1>6 DEF Ordinary
<1> QED  BY <1>1, <1>2, <1>4, <1>5, <1>6, WorkerFrame, CallFrame

\* A turn becomes retryable when it fails, and only if nothing was reserved.
LEMMA RetryableGrows ==
  ASSUME Shape, Busy, FailureIsClean, Next
  PROVE  /\ retryable \subseteq retryable'
         /\ \A t \in retryable' \ retryable :
              /\ status[t] = "running" /\ status'[t] = "failed"
              /\ OutOfProcess \/ ~HasEffects(t)
              /\ effect' = effect
<1>1. CASE UNCHANGED retryable
  BY <1>1
<1>2. ASSUME NEW w \in Workers, ClaimTurn(w)
      PROVE  /\ retryable \subseteq retryable'
             /\ \A t \in retryable' \ retryable :
                  /\ status[t] = "running" /\ status'[t] = "failed"
                  /\ ~HasEffects(t)
                  /\ effect' = effect
  <2>1. worker[w].turn \in Turns
    BY <1>2 DEF ClaimTurn, Busy
  <2> QED  BY <1>2, <2>1 DEF ClaimTurn, Interrupted, RetryableAfter
<1>3. ASSUME NEW w \in Workers, FailTurn(w)
      PROVE  /\ retryable \subseteq retryable'
             /\ \A t \in retryable' \ retryable :
                  /\ status[t] = "running" /\ status'[t] = "failed"
                  /\ OutOfProcess \/ ~HasEffects(t)
                  /\ effect' = effect
  <2> DEFINE u == worker[w].turn
  <2>0. u \in Turns /\ worker[w].pc = "failTurn" /\ effect' = effect
    BY <1>3 DEF FailTurn, Busy
  <2>1. CASE Holds(u, worker[w].token) /\ worker[w].retry = "yes"
    <3>1. retryable' = retryable \cup {u} /\ status' = [status EXCEPT ![u] = "failed"]
      BY <1>3, <2>1 DEF FailTurn
    <3>2. OutOfProcess \/ ~HasEffects(u)
      BY <2>0, <2>1 DEF FailureIsClean
    <3>3. status[u] = "running" /\ status'[u] = "failed"
      BY <2>0, <2>1, <3>1 DEF Holds, Shape
    <3> QED  BY <2>0, <3>1, <3>2, <3>3
  <2>2. CASE ~ (Holds(u, worker[w].token) /\ worker[w].retry = "yes")
    BY <1>3, <2>2 DEF FailTurn
  <2> QED  BY <2>1, <2>2
<1>4. ASSUME NEW w \in Workers, CompleteTurn(w)
      PROVE  UNCHANGED retryable
  BY <1>4 DEF CompleteTurn
<1>5. ASSUME NEW t \in Turns, NEW s \in Sessions, NEW p \in {0} \cup Turns, Submit(t, s, p)
      PROVE  UNCHANGED retryable
  BY <1>5 DEF Submit
<1> QED  BY <1>1, <1>2, <1>3, <1>4, <1>5, TurnFrame

\* Effects are reserved only by a call that holds the lease of its turn.
LEMMA ReservedUnderLease ==
  ASSUME Shape, Next, NEW t \in Turns, HasEffects(t)', ~HasEffects(t)
  PROVE  \E c \in calls : c.turn = t /\ Holds(t, c.token) /\ worker' = worker
<1> PICK k \in Keys : effect'[t][k] # "none" /\ effect[t][k] = "none"
  BY DEF HasEffects
<1> PICK c \in calls : CallStep(c)
  BY EffectFrame
<1>1. Passes(c) /\ c.turn = t
  BY CallsProgress DEF Passes, Acts, Ends
<1>2. worker' = worker
  BY DEF CallStep, Begin, Run, SaveReceipt
<1> QED  BY <1>1, <1>2 DEF Passes

\* Failures with nothing reserved.
LEMMA FailureKept ==
  ASSUME Shape, Busy, RetryIsFresh, TokensDiffer, CallsAreAwaited, FailureIsClean, Next
  PROVE  FailureIsClean'
<1>1. ASSUME ~OutOfProcess, NEW w \in Workers, NEW t \in Turns, NEW token \in Nat,
             worker'[w].pc = "failTurn", worker'[w].retry = "yes",
             worker'[w].turn = t, worker'[w].token = token,
             Holds(t, token)', HasEffects(t)'
      PROVE  FALSE
  <2>1. /\ Running(w) /\ worker[w].turn = t /\ worker[w].token = token
        /\ worker'[w] = worker[w] \/ ~HasEffects(t)
    <3>1. ASSUME NEW v \in Workers, Ordinary(v)
          PROVE  \/ worker'[w] = worker[w]
                 \/ /\ Running(w) /\ worker'[w].turn = worker[w].turn
                    /\ worker'[w].token = worker[w].token
                    /\ ~HasEffects(t)
      <4>1. Continued(v)
        BY <3>1, OrdinaryContinues
      <4>2. CASE v = w
        BY <1>1, <4>1, <4>2 DEF Continued, Running
      <4>3. CASE v # w
        BY <4>1, <4>3 DEF Continued
      <4> QED  BY <4>2, <4>3
    <3>2. ASSUME NEW v \in Workers, ClaimTurn(v)
          PROVE  worker'[w] = worker[w]
      BY <1>1, <3>2, ClaimTurnClaims DEF Claimed
    <3> QED  BY <1>1, <3>1, <3>2, WorkerFrame DEF Running
  <2>2. token <= tokens /\ token # 0
    BY <2>1 DEF TokensDiffer
  <2>3. Holds(t, token)
    BY <1>1, <2>2, HeldBefore
  <2>4. ~HasEffects(t)
    BY <1>1, <2>1, <2>3 DEF FailureIsClean
  <2>5. PICK c \in calls : c.turn = t /\ Holds(t, c.token) /\ worker' = worker
    BY <1>1, <2>4, ReservedUnderLease
  <2>6. PICK v \in Workers : worker[v].pc = "model" /\ worker[v].token = c.token
    BY <1>1 DEF CallsAreAwaited, Awaited
  <2>7. c.token = token
    BY <2>3, <2>5 DEF Holds
  <2> QED  BY <1>1, <2>1, <2>2, <2>5, <2>6, <2>7 DEF TokensDiffer
<1>2. \A w \in Workers :
        worker'[w].token \in Nat /\ (worker'[w].pc = "failTurn" => worker'[w].turn \in Turns)
  BY NextShape, BusyKept DEF Shape, Busy, WorkerStates
<1> QED  BY <1>1, <1>2 DEF FailureIsClean, Holds, HasEffects

\* Retryable turns with nothing reserved, and the retries of them.
LEMMA RetryableKept ==
  ASSUME Shape, Busy, FailureIsClean, RetryableIsClean, RetriesAreOfRetryable, Next
  PROVE  RetryableIsClean' /\ RetriesAreOfRetryable'
<1>0. retryable \subseteq Turns /\ retryable' \subseteq Turns
  BY NextShape DEF Shape
<1>1. ASSUME NEW t \in retryable'
      PROVE  status'[t] = "failed"
  <2>1. t \in Turns
    BY <1>0
  <2>2. CASE t \in retryable
    BY <2>1, <2>2, TurnsGoForward DEF Forward, RetryableIsClean, Terminal
  <2>3. CASE t \notin retryable
    BY <2>3, RetryableGrows
  <2> QED  BY <2>2, <2>3
<1>2. ASSUME NEW t \in retryable', ~OutOfProcess
      PROVE  ~HasEffects(t)'
  <2>1. t \in Turns
    BY <1>0
  <2>2. CASE t \in retryable
    <3>1. status[t] = "failed" /\ ~HasEffects(t)
      BY <1>2, <2>2 DEF RetryableIsClean
    <3> QED  BY <2>1, <3>1, ReservedUnderLease DEF Holds
  <2>3. CASE t \notin retryable
    BY <1>2, <2>3, RetryableGrows DEF HasEffects
  <2> QED  BY <2>2, <2>3
<1>3. RetriesAreOfRetryable'
  <2>1. retryable \subseteq retryable'
    BY RetryableGrows
  <2>2. CASE \E t \in Turns, s \in Sessions, p \in {0} \cup Turns : Submit(t, s, p)
    BY <2>1, <2>2 DEF Submit, MayRetry, RetriesAreOfRetryable, Shape
  <2>3. CASE UNCHANGED attemptOf
    BY <2>1, <2>3 DEF RetriesAreOfRetryable
  <2>4. ASSUME NEW w \in Workers, ClaimTurn(w) \/ CompleteTurn(w) \/ FailTurn(w)
        PROVE  UNCHANGED attemptOf
    BY <2>4 DEF ClaimTurn, CompleteTurn, FailTurn
  <2> QED  BY <2>2, <2>3, <2>4, TurnFrame
<1> QED  BY <1>1, <1>2, <1>3 DEF RetryableIsClean

----------------------------------------------------------------------------
(* The capacity of the owner.                                              *)

\* The turns that are queued or running.
Counting == {t \in Turns : status[t] \in Active}

\* There are finitely many.
LEMMA CountingIsFinite ==
  /\ IsFiniteSet(Turns)
  /\ IsFiniteSet(Counting) /\ Cardinality(Counting) \in Nat
<1>1. IsFiniteSet(Turns)
  BY FS_Interval, BoundsAssumption DEF Turns
<1>2. Counting \in SUBSET Turns
  BY DEF Counting
<1>3. IsFiniteSet(Counting)
  BY <1>1, <1>2, FS_Subset
<1> QED  BY <1>1, <1>3, FS_CardinalityType

\* Taking turns off the count is what their release subtracts.
LEMMA Released ==
  ASSUME Counted, NEW T \in SUBSET Turns, Releases(T),
         Counting' = Counting \ T
  PROVE  Counted'
<1>1. {t \in T : status[t] \in Active} = Counting \cap T
  BY DEF Counting
<1>2. Cardinality(Counting') = Cardinality(Counting) - Cardinality(Counting \cap T)
  BY CountingIsFinite, FS_Difference
<1>3. active = Cardinality(Counting) /\ active <= MaxActive
  BY DEF Counted, CapacityIsExact, Counting
<1>4. active' = Cardinality(Counting')
  BY <1>1, <1>2, <1>3 DEF Releases
<1>5. Cardinality(Counting \cap T) \in Nat
  <2>1. Counting \cap T \in SUBSET Counting
    OBVIOUS
  <2>2. IsFiniteSet(Counting \cap T)
    BY <2>1, CountingIsFinite, FS_Subset
  <2> QED  BY <2>2, FS_CardinalityType
<1>6. active' = active - Cardinality(Counting \cap T)
  BY <1>2, <1>3, <1>4
<1>7. active \in Nat /\ MaxActive \in Nat
  BY <1>3, CountingIsFinite, BoundsAssumption
<1>8. active' <= MaxActive
  BY <1>3, <1>5, <1>6, <1>7
<1> QED  BY <1>4, <1>8 DEF Counted, CapacityIsExact, Counting

\* Every step keeps the count.
LEMMA CountKept ==
  ASSUME Shape, Busy, Counted, Next
  PROVE  Counted'
<1>1. CASE \E t \in Turns, s \in Sessions, p \in {0} \cup Turns : Submit(t, s, p)
  <2> PICK t \in Turns : /\ status[t] = "absent" /\ status' = [status EXCEPT ![t] = "queued"]
                         /\ active < MaxActive /\ active' = active + 1
    BY <1>1 DEF Submit
  <2>1. Counting' = Counting \cup {t} /\ t \notin Counting
    BY DEF Counting, Active, Shape
  <2>2. Cardinality(Counting') = Cardinality(Counting) + 1
    BY <2>1, CountingIsFinite, FS_AddElement
  <2>3. active = Cardinality(Counting) /\ active \in Nat /\ MaxActive \in Nat
    BY CountingIsFinite, BoundsAssumption DEF Counted, CapacityIsExact, Counting
  <2>4. active' = Cardinality(Counting') /\ active' <= MaxActive
    BY <2>2, <2>3
  <2> QED  BY <2>4 DEF Counted, CapacityIsExact, Counting
<1>2. ASSUME NEW w \in Workers, ClaimTurn(w)
      PROVE  Counted'
  <2> DEFINE u == worker[w].turn
             lost == LoggedOut \cup (IF Interrupted(u) THEN {u} ELSE {})
  <2>1. u \in Turns /\ lost \in SUBSET Turns
    BY <1>2 DEF ClaimTurn, Busy, LoggedOut
  <2>2. /\ Releases(lost)
        /\ \A t \in Turns : status'[t] = IF t \in lost THEN "failed"
                                ELSE IF t = u /\ Claimable(u) THEN "running" ELSE status[t]
    BY <1>2 DEF ClaimTurn
  <2>3. Claimable(u) => status[u] = "queued"
    BY DEF Claimable
  <2> HIDE DEF lost, u
  <2>4. Counting' = Counting \ lost
    BY <2>2, <2>3 DEF Counting, Active
  <2> QED  BY <2>1, <2>2, <2>4, Released
<1>3. ASSUME NEW w \in Workers, CompleteTurn(w) \/ FailTurn(w)
      PROVE  Counted'
  <2> DEFINE u == worker[w].turn
  <2>1. u \in Turns
    BY <1>3 DEF CompleteTurn, FailTurn, Busy
  <2>2. CASE Holds(u, worker[w].token)
    <3>1. Releases({u}) /\ \E s \in Terminal : status' = [status EXCEPT ![u] = s]
      BY <1>3, <2>2 DEF CompleteTurn, FailTurn, Terminal
    <3> HIDE DEF u
    <3>2. Counting' = Counting \ {u}
      BY <2>1, <3>1 DEF Counting, Active, Terminal, Shape
    <3>3. {u} \in SUBSET Turns
      BY <2>1
    <3> QED  BY <3>1, <3>2, <3>3, Released
  <2>3. CASE ~Holds(u, worker[w].token)
    <3>1. UNCHANGED <<status, active>>
      BY <1>3, <2>3 DEF CompleteTurn, FailTurn
    <3> QED  BY <3>1 DEF Counted, CapacityIsExact
  <2> QED  BY <2>2, <2>3
<1>4. CASE UNCHANGED <<status, attemptOf, lease, retryable, active, tokens, replies>>
  BY <1>4 DEF Counted, CapacityIsExact
<1> QED  BY <1>1, <1>2, <1>3, <1>4, TurnFrame

----------------------------------------------------------------------------
(* The theorems.                                                           *)

\* The invariant holds at the start.
LEMMA InitInvariant ==
  ASSUME Init
  PROVE  IInv
<1>1. Shape
  <2>1. job \in [Turns -> JobRows]
    <3>1. [status |-> "absent", by |-> None, attempts |-> 0] \in JobRows
      BY BoundsAssumption DEF JobRows
    <3> QED  BY <3>1 DEF Init
  <2>2. worker \in [Workers -> WorkerStates]
    BY IdleIsAState DEF Init
  <2> QED  BY <2>1, <2>2 DEF Init, Shape
<1>2. \A w \in Workers : /\ worker[w].pc = "idle" /\ worker[w].token = 0
                         /\ worker[w].retry = "no"
  BY DEF Init, IdleWorker
<1>3. Busy /\ TokensDiffer /\ RetryIsFresh /\ BegunIsNotQueued /\ FailureIsClean
  BY <1>2 DEF Init, Busy, TokensDiffer, RetryIsFresh, BegunIsNotQueued, FailureIsClean,
     Running
<1>4. SubmittedInOrder /\ TurnsInOrder /\ SentFirst /\ QueuedKeepsItsJob
  BY <1>2 DEF Init, SubmittedInOrder, TurnsInOrder, SentFirst, QueuedKeepsItsJob
<1>5. CallsAreAwaited /\ RetryableIsClean /\ RetriesAreOfRetryable
  BY DEF Init, CallsAreAwaited, RetryableIsClean, RetriesAreOfRetryable
<1>6. GrantedOnce /\ EffectsRunOnce /\ RepliesMatch
  BY DEF Init, GrantedOnce, EffectsRunOnce, RepliesMatch
<1>7. Counted
  <2>1. Counting = {} /\ active = 0
    BY DEF Init, Counting, Active
  <2> QED  BY <2>1, FS_EmptySet, BoundsAssumption DEF Counted, CapacityIsExact, Counting
<1> QED  BY <1>1, <1>3, <1>4, <1>5, <1>6, <1>7 DEF IInv

\* Doing nothing keeps it.
LEMMA StutterInvariant ==
  ASSUME IInv, UNCHANGED vars
  PROVE  IInv'
<1> USE DEF vars
<1>1. Shape'
  BY DEF IInv, Shape
<1>2. (Busy /\ TokensDiffer /\ RetryIsFresh)'
  BY DEF IInv, Busy, TokensDiffer, RetryIsFresh, Running
<1>3. (SubmittedInOrder /\ TurnsInOrder /\ SentFirst /\ BegunIsNotQueued)'
  BY DEF IInv, SubmittedInOrder, TurnsInOrder, SentFirst, BegunIsNotQueued, EarlierActive,
     Running
<1>4. (CallsAreAwaited /\ FailureIsClean /\ RetryableIsClean /\ RetriesAreOfRetryable)'
  BY DEF IInv, CallsAreAwaited, Awaited, FailureIsClean, RetryableIsClean,
     RetriesAreOfRetryable, Holds, HasEffects
<1>5. (QueuedKeepsItsJob /\ GrantedOnce /\ EffectsRunOnce /\ RepliesMatch /\ Counted)'
  BY DEF IInv, QueuedKeepsItsJob, GrantedOnce, EffectsRunOnce, RepliesMatch, Counted,
     CapacityIsExact
<1> QED  BY <1>1, <1>2, <1>3, <1>4, <1>5 DEF IInv

\* The invariant holds throughout.
THEOREM Invariance == Spec => []IInv
<1>1. Init => IInv
  BY InitInvariant
<1>2. IInv /\ [Next]_vars => IInv'
  <2>1. ASSUME IInv, Next
        PROVE  IInv'
    BY <2>1, NextShape, BusyKept, TokensKept, OrderKept, SentKept, BegunKept, JobsKept,
       AwaitedKept, FailureKept, RetryableKept, EffectsKept, RepliesKept, CountKept
       DEF IInv
  <2> QED  BY <2>1, StutterInvariant
<1> QED  BY <1>1, <1>2, PTL DEF Spec

\* Every row keeps its shape, and the capacity counter the range that its check
\* constraint gives it.
THEOREM TypeCorrect == Spec => []TypeOK
<1>1. IInv => TypeOK
  <2> SUFFICES ASSUME IInv PROVE TypeOK
    OBVIOUS
  <2>1. active = Cardinality(Counting) /\ active <= MaxActive
    BY DEF IInv, Counted, CapacityIsExact, Counting
  <2>2. active \in 0 .. MaxActive
    BY <2>1, CountingIsFinite, BoundsAssumption
  <2> QED  BY <2>2 DEF IInv, Shape, TypeOK
<1> QED  BY <1>1, Invariance, PTL

\* No consequential call of a turn happens twice, or outside its fence.
THEOREM EffectsHappenOnce == Spec => []EffectsRunOnce
<1>1. IInv => EffectsRunOnce
  BY DEF IInv
<1> QED  BY <1>1, Invariance, PTL

\* A completed turn has its one reply, and no other turn has any.
THEOREM OneReplyEach == Spec => []RepliesMatch
<1>1. IInv => RepliesMatch
  BY DEF IInv
<1> QED  BY <1>1, Invariance, PTL

\* The turns of a thread run one at a time and in the order they were sent.
THEOREM RunInOrder == Spec => []TurnsInOrder
<1>1. IInv => TurnsInOrder
  BY DEF IInv
<1> QED  BY <1>1, Invariance, PTL

\* The triggers count exactly what is queued or running.
THEOREM CapacityCounts == Spec => []CapacityIsExact
<1>1. IInv => CapacityIsExact
  BY DEF IInv, Counted
<1> QED  BY <1>1, Invariance, PTL

\* The queue never loses a turn that still has to start.
THEOREM WaitingHaveJobs == Spec => []QueuedKeepsItsJob
<1>1. IInv => QueuedKeepsItsJob
  BY DEF IInv
<1> QED  BY <1>1, Invariance, PTL

\* When tools run in the worker, a turn that is tried again has no effect, and
\* never gets one.  Out of process it may: a call asked for before the
\* CLI was killed can pass its fence between the look and the write.
THEOREM RetriesFindNothing == Spec => [](~OutOfProcess => RetryFindsNothing)
<1>1. IInv => (~OutOfProcess => RetryFindsNothing)
  <2> SUFFICES ASSUME IInv, ~OutOfProcess, NEW t \in Turns, attemptOf[t] # 0
               PROVE  /\ ~HasEffects(attemptOf[t])
                      /\ \A k \in Keys : ran[attemptOf[t]][k] = 0
    BY DEF RetryFindsNothing
  <2>1. attemptOf[t] \in Turns /\ attemptOf[t] \in retryable
    BY DEF IInv, Shape, RetriesAreOfRetryable
  <2>2. ~HasEffects(attemptOf[t])
    BY <2>1 DEF IInv, RetryableIsClean
  <2>3. \A k \in Keys : ran[attemptOf[t]][k] \in Nat /\ ran[attemptOf[t]][k] <= 0
    BY <2>1, <2>2 DEF IInv, Shape, EffectsRunOnce, HasEffects
  <2> QED  BY <2>2, <2>3
<1> QED  BY <1>1, Invariance, PTL

\* What a turn ended with, and whether it may be tried again, is never rewritten.
THEOREM SettledStays == Spec => SettledIsFinal
<1> DEFINE A == \A t \in Turns : status[t] \in Terminal =>
              status'[t] = status[t] /\ (t \in retryable <=> t \in retryable')
<1>1. IInv /\ [Next]_vars => [A]_<<status, retryable>>
  <2>1. ASSUME IInv, Next
        PROVE  A
    <3> SUFFICES ASSUME NEW t \in Turns, status[t] \in Terminal
                 PROVE  status'[t] = status[t] /\ (t \in retryable <=> t \in retryable')
      OBVIOUS
    <3>1. status'[t] = status[t]
      BY <2>1, TurnsGoForward DEF IInv, Forward
    <3>2. t \in retryable <=> t \in retryable'
      BY <2>1, RetryableGrows DEF IInv, Terminal
    <3> QED  BY <3>1, <3>2
  <2>2. ASSUME UNCHANGED vars
        PROVE  UNCHANGED <<status, retryable>>
    BY <2>2 DEF vars
  <2> QED  BY <2>1, <2>2
<1>2. Spec => [][A]_<<status, retryable>>
  BY <1>1, Invariance, PTL DEF Spec
<1> QED  BY <1>2 DEF SettledIsFinal

----------------------------------------------------------------------------
(* Durable turns keep the promise of RequestOnce.                          *)

Sent(t) == status[t] # "absent"
Retried(t) == \E v \in Turns : attemptOf[v] = t

\* The attempts at a request form a chain: all but the last were tried again,
\* and a turn that was not sent yet is in none.
ChainInv ==
  /\ \A t \in Turns : ~Sent(t) => request[t] = t /\ attemptOf[t] = 0 /\ ~HasEffects(t)
  /\ \A t \in Turns : Sent(t) => Sent(request[t])
  /\ \A t, u \in Turns :
       Sent(t) /\ Sent(u) /\ t < u /\ request[t] = request[u] => Retried(t)

\* A request is sent, or sent again, as the last of its chain.
LEMMA SubmitKeepsChain ==
  ASSUME Shape, SubmittedInOrder, ChainInv,
         NEW t \in Turns, NEW s \in Sessions, NEW p \in {0} \cup Turns, Submit(t, s, p)
  PROVE  ChainInv'
<1>1. /\ ~Sent(t) /\ (\A u \in Turns : u > t => ~Sent(u))
      /\ p # 0 => p \in Turns /\ p # t /\ Sent(p) /\ ~Retried(p)
      /\ 0 \notin Turns /\ t \in Nat
  BY DEF Submit, Sent, Retried, MayRetry, Turns, SubmittedInOrder
<1>2. /\ \A u \in Turns : Sent(u)' <=> Sent(u) \/ u = t
      /\ \A u \in Turns \ {t} : request'[u] = request[u] /\ attemptOf'[u] = attemptOf[u]
      /\ request'[t] = IF p = 0 THEN t ELSE request[p]
      /\ attemptOf'[t] = p
      /\ effect' = effect
  BY DEF Submit, Sent, Shape, Active, Terminal, effects
<1>3. \A u \in Turns : ~Sent(u)' => request'[u] = u /\ attemptOf'[u] = 0 /\ ~HasEffects(u)'
  BY <1>2 DEF ChainInv, HasEffects
<1>4. \A u \in Turns : Sent(u)' => Sent(request[u])'
  <2>1. \A u \in Turns : request[u] \in Turns
    BY DEF Shape
  <2>2. ASSUME NEW u \in Turns, u # t, Sent(u)' PROVE Sent(request[u])'
    <3>1. Sent(request[u]) /\ request'[u] = request[u]
      BY <1>2, <2>2 DEF ChainInv
    <3> QED  BY <1>2, <2>1, <3>1 DEF Sent
  <2>3. Sent(request[t])'
    <3>1. CASE p = 0  BY <1>2, <3>1 DEF Sent
    <3>2. CASE p # 0
      <4>1. Sent(request[p]) /\ request'[t] = request[p] /\ request[p] \in Turns
        BY <1>1, <1>2, <2>1, <3>2 DEF ChainInv
      <4> QED  BY <1>2, <4>1 DEF Sent
    <3> QED  BY <3>1, <3>2
  <2> QED  BY <2>2, <2>3
<1>5. ASSUME NEW x \in Turns, NEW y \in Turns, Sent(x)', Sent(y)', x < y,
             request'[x] = request'[y]
      PROVE  Retried(x)'
  <2>0. x # t
    BY <1>1, <1>2, <1>5 DEF Turns
  <2>1. Retried(x) => Retried(x)'
    BY <1>1, <1>2 DEF Retried, ChainInv
  <2>2. CASE y # t
    BY <1>2, <1>5, <2>0, <2>1, <2>2 DEF ChainInv
  <2>3. CASE y = t /\ p = 0
    BY <1>1, <1>2, <1>5, <2>0, <2>3 DEF ChainInv
  <2>4. CASE y = t /\ p = x
    BY <1>2, <2>4 DEF Retried
  <2>5. CASE y = t /\ p # 0 /\ p # x
    <3>1. request[x] = request[p] /\ Sent(x) /\ Sent(p)
      BY <1>1, <1>2, <1>5, <2>0, <2>5
    <3>2. x < p \/ p < x
      BY <1>1, <2>5 DEF Turns
    <3> QED  BY <1>1, <2>1, <2>5, <3>1, <3>2 DEF ChainInv
  <2> QED  BY <2>2, <2>3, <2>4, <2>5
<1>6. \A x, y \in Turns :
        Sent(x)' /\ Sent(y)' /\ x < y /\ request'[x] = request'[y] => Retried(x)'
  BY <1>5
<1> QED  BY <1>3, <1>4, <1>6 DEF ChainInv

\* No other step sends a turn or moves it to another chain.
LEMMA RequestFrame ==
  ASSUME Shape, Busy, Next,
         ~ \E t \in Turns, s \in Sessions, p \in {0} \cup Turns : Submit(t, s, p)
  PROVE  /\ UNCHANGED <<request, attemptOf>>
         /\ \A t \in Turns : Sent(t)' <=> Sent(t)
<1>1. UNCHANGED <<request, attemptOf>>
  <2>1. CASE ClientStep \/ ClockStep
    BY <2>1 DEF ClientStep, ClockStep, EndSession, LeaseExpires, JobGrowsStale, turnRows
  <2>2. CASE \E c \in calls : CallStep(c)
    BY <2>2 DEF CallStep, Begin, Run, SaveReceipt, turnRows
  <2>3. ASSUME NEW w \in Workers, ClaimTurn(w) \/ Renew(w) \/ Ordinary(w)
        PROVE  UNCHANGED <<request, attemptOf>>
    BY <2>3, ZenonT(60) DEF ClaimTurn, Renew, Ordinary, ClaimJob, LookAtTurn, FinishModel, CheckIncomplete,
       CheckEffects, Throw, ThrowJob, CompleteTurn, FailTurn, CompleteJob, FailJob, WorkerDies,
       AskTool, turnRows
  <2> QED  BY <2>1, <2>2, <2>3 DEF Next, WorkerStep, Ordinary
<1>2. ASSUME NEW t \in Turns PROVE Sent(t)' <=> Sent(t)
  <2>1. Sent(t) => Sent(t)'
    BY TurnsGoForward DEF Forward, Sent
  <2>2. ASSUME NEW w \in Workers, ClaimTurn(w) \/ CompleteTurn(w) \/ FailTurn(w), ~Sent(t)
        PROVE  ~Sent(t)'
    BY <2>2 DEF ClaimTurn, CompleteTurn, FailTurn, Sent, LoggedOut, Interrupted, Claimable,
       Holds, Shape
  <2>3. CASE UNCHANGED status
    BY <2>3 DEF Sent
  <2> QED  BY <2>1, <2>2, <2>3, TurnFrame
<1> QED  BY <1>1, <1>2

\* Every step keeps the attempts at a request in a chain.
LEMMA ChainKept ==
  ASSUME Shape, Busy, SubmittedInOrder, ChainInv, Next
  PROVE  ChainInv'
<1>1. CASE \E t \in Turns, s \in Sessions, p \in {0} \cup Turns : Submit(t, s, p)
  BY <1>1, SubmitKeepsChain
<1>2. CASE ~ \E t \in Turns, s \in Sessions, p \in {0} \cup Turns : Submit(t, s, p)
  <2>1. /\ UNCHANGED <<request, attemptOf>>
        /\ \A t \in Turns : Sent(t)' <=> Sent(t)
    BY <1>2, RequestFrame
  <2>2. \A t \in Turns : ~Sent(t) /\ ~HasEffects(t) => ~HasEffects(t)'
    BY ReservedUnderLease DEF Holds, Sent
  <2>3. \A t \in Turns : request[t] \in Turns
    BY DEF Shape
  <2> QED  BY <2>1, <2>2, <2>3 DEF ChainInv, Retried
<1> QED  BY <1>1, <1>2

\* Every other attempt at the request of turn t failed and did nothing.
DidNothing(u) == status[u] = "failed" /\ \A k \in Keys : effect[u][k] = "none" /\ ran[u][k] = 0

Alone(t) == \A u \in Turns : u # t /\ Sent(u) /\ request[u] = request[t] => DidNothing(u)

\* A turn that was tried again did nothing, when tools run in the worker.
LEMMA RetriedDidNothing ==
  ASSUME IInv, ~OutOfProcess, NEW t \in Turns, Retried(t)
  PROVE  DidNothing(t)
<1>1. t \in retryable
  BY DEF Retried, IInv, RetriesAreOfRetryable, Turns
<1>2. status[t] = "failed" /\ ~HasEffects(t)
  BY <1>1 DEF IInv, RetryableIsClean
<1>3. \A k \in Keys : ran[t][k] \in Nat /\ ran[t][k] <= 0
  BY <1>2 DEF IInv, Shape, EffectsRunOnce, HasEffects
<1> QED  BY <1>2, <1>3 DEF DidNothing, HasEffects

\* The last attempt at a request is the only one that did anything.
LEMMA LastIsAlone ==
  ASSUME IInv, ChainInv, ~OutOfProcess, NEW t \in Turns, Sent(t), ~Retried(t)
  PROVE  Alone(t)
<1> SUFFICES ASSUME NEW u \in Turns, u # t, Sent(u), request[u] = request[t]
             PROVE  Retried(u)
  BY RetriedDidNothing DEF Alone
<1>1. u < t \/ t < u
  BY DEF Turns
<1> QED  BY <1>1 DEF ChainInv

\* A turn that waits, runs, was answered or reserved anything is the last one.
LEMMA WorkingIsAlone ==
  ASSUME IInv, ChainInv, ~OutOfProcess, NEW t \in Turns, Sent(t), ~DidNothing(t)
  PROVE  Alone(t)
  BY LastIsAlone, RetriedDidNothing

Outcome(s) == IF s \in Active THEN "working" ELSE IF s = "completed" THEN "answered" ELSE "failed"

\* What the last attempt says of its request.
Says(t) ==
  /\ phaseBar[request[t]] = Outcome(status[t])
  /\ reservedBar[request[t]] = {k \in Keys : effect[t][k] # "none"}
  /\ actedBar[request[t]] = [k \in Keys |-> {t} \X (1 .. ran[t][k])]

\* What chains of attempts say of their request, before a step and after it.
LEMMA PhaseIs ==
  ASSUME NEW r \in Turns
  PROVE  /\ phaseBar[r] = IF Chain(r) = {} THEN "absent"
                          ELSE IF \E u \in Chain(r) : status[u] \in Active THEN "working"
                          ELSE IF \E u \in Chain(r) : status[u] = "completed" THEN "answered"
                          ELSE "failed"
         /\ phaseBar'[r] = IF Chain(r)' = {} THEN "absent"
                          ELSE IF \E u \in Chain(r)' : status'[u] \in Active THEN "working"
                          ELSE IF \E u \in Chain(r)' : status'[u] = "completed" THEN "answered"
                          ELSE "failed"
<1>1. phaseBar[r] = IF Chain(r) = {} THEN "absent"
                    ELSE IF \E u \in Chain(r) : status[u] \in Active THEN "working"
                    ELSE IF \E u \in Chain(r) : status[u] = "completed" THEN "answered"
                    ELSE "failed"
  <2> DEFINE C == Chain(r)
             reached == {status[u] : u \in C}
  <2>1. phaseBar[r] = IF reached = {} THEN "absent"
                      ELSE IF reached \cap Active # {} THEN "working"
                      ELSE IF "completed" \in reached THEN "answered" ELSE "failed"
    BY DEF phaseBar
  <2> HIDE DEF C
  <2>2. /\ reached = {} <=> C = {}
        /\ reached \cap Active # {} <=> \E u \in C : status[u] \in Active
        /\ "completed" \in reached <=> \E u \in C : status[u] = "completed"
    OBVIOUS
  <2> HIDE DEF reached
  <2>3. phaseBar[r] = IF C = {} THEN "absent"
                      ELSE IF \E u \in C : status[u] \in Active THEN "working"
                      ELSE IF \E u \in C : status[u] = "completed" THEN "answered"
                      ELSE "failed"
    BY <2>1, <2>2
  <2> QED  BY <2>3 DEF C
<1>2. phaseBar'[r] = IF Chain(r)' = {} THEN "absent"
                     ELSE IF \E u \in Chain(r)' : status'[u] \in Active THEN "working"
                     ELSE IF \E u \in Chain(r)' : status'[u] = "completed" THEN "answered"
                     ELSE "failed"
  <2> DEFINE C == Chain(r)'
             reached == {status'[u] : u \in C}
  <2>1. phaseBar'[r] = IF reached = {} THEN "absent"
                       ELSE IF reached \cap Active # {} THEN "working"
                       ELSE IF "completed" \in reached THEN "answered" ELSE "failed"
    BY DEF phaseBar
  <2> HIDE DEF C
  <2>2. /\ reached = {} <=> C = {}
        /\ reached \cap Active # {} <=> \E u \in C : status'[u] \in Active
        /\ "completed" \in reached <=> \E u \in C : status'[u] = "completed"
    OBVIOUS
  <2> HIDE DEF reached
  <2>3. phaseBar'[r] = IF C = {} THEN "absent"
                       ELSE IF \E u \in C : status'[u] \in Active THEN "working"
                       ELSE IF \E u \in C : status'[u] = "completed" THEN "answered"
                       ELSE "failed"
    BY <2>1, <2>2
  <2> QED  BY <2>3 DEF C
<1> QED  BY <1>1, <1>2

\* The turn that is alone in its chain speaks for its request,
LEMMA AloneSays ==
  ASSUME Shape, NEW t \in Turns, Sent(t), Alone(t)
  PROVE  Says(t)
<1> DEFINE r == request[t]
<1>0. r \in Turns /\ t \in Chain(r)
      /\ \A u \in Chain(r) : u \in Turns /\ (u = t \/ DidNothing(u))
  BY DEF Shape, Chain, Alone, Sent
<1>1. phaseBar[r] = Outcome(status[t])
  BY <1>0, PhaseIs DEF Outcome, DidNothing, Active
<1>2. reservedBar[r] = {k \in Keys : effect[t][k] # "none"}
  BY <1>0 DEF reservedBar, DidNothing
<1>3. actedBar[r] = [k \in Keys |-> {t} \X (1 .. ran[t][k])]
  <2>1. ASSUME NEW k \in Keys
        PROVE  UNION {{u} \X (1 .. ran[u][k]) : u \in Chain(r)} = {t} \X (1 .. ran[t][k])
    <3>1. \A u \in Chain(r) : u # t => {u} \X (1 .. ran[u][k]) = {}
      BY <1>0 DEF DidNothing
    <3> QED  BY <1>0, <3>1
  <2> QED  BY <1>0, <2>1 DEF actedBar
<1> QED  BY <1>1, <1>2, <1>3 DEF Says

\* ... and after a step as before it.
LEMMA AloneSaysNext ==
  ASSUME Shape', NEW t \in Turns, Sent(t)', Alone(t)'
  PROVE  Says(t)'
<1> DEFINE r == request'[t]
<1>0. r \in Turns /\ t \in Chain(request[t])'
      /\ \A u \in Chain(request[t])' : u \in Turns /\ (u = t \/ DidNothing(u)')
  BY DEF Shape, Chain, Alone, Sent
<1>1. phaseBar'[r] = Outcome(status'[t])
  BY <1>0, PhaseIs DEF Outcome, DidNothing, Active, Chain
<1>2. reservedBar'[r] = {k \in Keys : effect'[t][k] # "none"}
  BY <1>0 DEF reservedBar, DidNothing, Chain
<1>3. actedBar'[r] = [k \in Keys |-> {t} \X (1 .. ran'[t][k])]
  <2>1. ASSUME NEW k \in Keys
        PROVE  UNION {{u} \X (1 .. ran'[u][k]) : u \in Chain(request[t])'} = {t} \X (1 .. ran'[t][k])
    <3>1. \A u \in Chain(request[t])' : u # t => {u} \X (1 .. ran'[u][k]) = {}
      BY <1>0 DEF DidNothing
    <3> QED  BY <1>0, <3>1
  <2> QED  BY <1>0, <2>1 DEF actedBar, Chain
<1> QED  BY <1>1, <1>2, <1>3 DEF Says, Outcome

\* The three views of the turns are functions of the requests.
LEMMA BarsAreFunctions ==
  /\ phaseBar = [r \in Turns |-> phaseBar[r]]
  /\ phaseBar' = [r \in Turns |-> phaseBar'[r]]
  /\ reservedBar = [r \in Turns |-> reservedBar[r]]
  /\ reservedBar' = [r \in Turns |-> reservedBar'[r]]
  /\ actedBar = [r \in Turns |-> actedBar[r]]
  /\ actedBar' = [r \in Turns |-> actedBar'[r]]
<1>1. phaseBar = [r \in Turns |-> phaseBar[r]] /\ phaseBar' = [r \in Turns |-> phaseBar'[r]]
  BY Zenon DEF phaseBar
<1>2. /\ reservedBar = [r \in Turns |-> reservedBar[r]]
      /\ reservedBar' = [r \in Turns |-> reservedBar'[r]]
  BY Zenon DEF reservedBar
<1>3. actedBar = [r \in Turns |-> actedBar[r]] /\ actedBar' = [r \in Turns |-> actedBar'[r]]
  BY Zenon DEF actedBar
<1> QED  BY <1>1, <1>2, <1>3

\* The chain of request r has the same attempts before a step and after it.
SameChain(r) ==
  \A u \in Turns : Sent(u)' /\ request'[u] = r <=> Sent(u) /\ request[u] = r

\* Then what is unchanged in its attempts is unchanged in what it says.
LEMMA SameSays ==
  ASSUME NEW r \in Turns, SameChain(r)
  PROVE  /\ Chain(r)' = Chain(r)
         /\ (\A u \in Chain(r) : status'[u] = status[u]) => phaseBar'[r] = phaseBar[r]
         /\ (\A u \in Chain(r), k \in Keys : effect'[u][k] = "none" <=> effect[u][k] = "none")
              => reservedBar'[r] = reservedBar[r]
         /\ (\A u \in Chain(r), k \in Keys : ran'[u][k] = ran[u][k])
              => actedBar'[r] = actedBar[r]
<1>1. Chain(r)' = Chain(r)
  BY DEF SameChain, Chain, Sent
<1>2. (\A u \in Chain(r) : status'[u] = status[u]) => phaseBar'[r] = phaseBar[r]
  BY <1>1, PhaseIs
<1>3. (\A u \in Chain(r), k \in Keys : effect'[u][k] = "none" <=> effect[u][k] = "none")
        => reservedBar'[r] = reservedBar[r]
  <2> DEFINE C == Chain(r)
  <2>1. reservedBar[r] = {k \in Keys : \E t \in C : effect[t][k] # "none"}
    BY DEF reservedBar
  <2>2. reservedBar'[r] = {k \in Keys : \E t \in C : effect'[t][k] # "none"}
    BY <1>1 DEF reservedBar
  <2> HIDE DEF C
  <2>3. (\A u \in C, k \in Keys : effect'[u][k] = "none" <=> effect[u][k] = "none")
          => {k \in Keys : \E t \in C : effect'[t][k] # "none"}
             = {k \in Keys : \E t \in C : effect[t][k] # "none"}
    OBVIOUS
  <2> QED  BY <2>1, <2>2, <2>3 DEF C
<1>4. (\A u \in Chain(r), k \in Keys : ran'[u][k] = ran[u][k]) => actedBar'[r] = actedBar[r]
  <2> DEFINE C == Chain(r)
  <2>1. actedBar[r] = [k \in Keys |-> UNION {{t} \X (1 .. ran[t][k]) : t \in C}]
    BY DEF actedBar
  <2>2. actedBar'[r] = [k \in Keys |-> UNION {{t} \X (1 .. ran'[t][k]) : t \in C}]
    BY <1>1 DEF actedBar
  <2> HIDE DEF C
  <2>3. ASSUME \A u \in C, k \in Keys : ran'[u][k] = ran[u][k], NEW k \in Keys
        PROVE  {{t} \X (1 .. ran'[t][k]) : t \in C} = {{t} \X (1 .. ran[t][k]) : t \in C}
    BY <2>3
  <2> QED  BY <2>1, <2>2, <2>3 DEF C
<1> QED  BY <1>1, <1>2, <1>3, <1>4

\* A step that changes nothing in any chain is a stutter of the promise.
LEMMA SameStutters ==
  ASSUME \A r \in Turns : SameChain(r), status' = status, ran' = ran,
         \A u \in Turns, k \in Keys : effect'[u][k] = "none" <=> effect[u][k] = "none"
  PROVE  UNCHANGED <<phaseBar, reservedBar, actedBar>>
<1>1. \A r \in Turns : Chain(r) \subseteq Turns
  BY DEF Chain
<1>2. \A r \in Turns : /\ phaseBar'[r] = phaseBar[r] /\ reservedBar'[r] = reservedBar[r]
                       /\ actedBar'[r] = actedBar[r]
  BY <1>1, SameSays
<1> QED  BY <1>2, BarsAreFunctions

\* A step that changes one chain changes what one request says.
LEMMA OneRequest ==
  ASSUME NEW r \in Turns
  PROVE  /\ (\A q \in Turns \ {r} : phaseBar'[q] = phaseBar[q])
              => phaseBar' = [phaseBar EXCEPT ![r] = phaseBar'[r]]
         /\ (\A q \in Turns \ {r} : reservedBar'[q] = reservedBar[q])
              => reservedBar' = [reservedBar EXCEPT ![r] = reservedBar'[r]]
         /\ (\A q \in Turns \ {r} : actedBar'[q] = actedBar[q])
              => actedBar' = [actedBar EXCEPT ![r] = actedBar'[r]]
         /\ (\A q \in Turns : phaseBar'[q] = phaseBar[q]) => phaseBar' = phaseBar
         /\ (\A q \in Turns : reservedBar'[q] = reservedBar[q]) => reservedBar' = reservedBar
         /\ (\A q \in Turns : actedBar'[q] = actedBar[q]) => actedBar' = actedBar
<1>1. /\ (\A q \in Turns \ {r} : phaseBar'[q] = phaseBar[q])
           => phaseBar' = [phaseBar EXCEPT ![r] = phaseBar'[r]]
      /\ (\A q \in Turns : phaseBar'[q] = phaseBar[q]) => phaseBar' = phaseBar
  <2> DEFINE f == phaseBar
             g == phaseBar'
  <2>1. f = [q \in Turns |-> f[q]] /\ g = [q \in Turns |-> g[q]]
    BY BarsAreFunctions
  <2> HIDE DEF f, g
  <2>2. (\A q \in Turns \ {r} : g[q] = f[q]) => g = [f EXCEPT ![r] = g[r]]
    BY <2>1
  <2>3. (\A q \in Turns : g[q] = f[q]) => g = f
    BY <2>1
  <2> QED  BY <2>2, <2>3 DEF f, g
<1>2. /\ (\A q \in Turns \ {r} : reservedBar'[q] = reservedBar[q])
           => reservedBar' = [reservedBar EXCEPT ![r] = reservedBar'[r]]
      /\ (\A q \in Turns : reservedBar'[q] = reservedBar[q]) => reservedBar' = reservedBar
  <2> DEFINE f == reservedBar
             g == reservedBar'
  <2>1. f = [q \in Turns |-> f[q]] /\ g = [q \in Turns |-> g[q]]
    BY BarsAreFunctions
  <2> HIDE DEF f, g
  <2>2. (\A q \in Turns \ {r} : g[q] = f[q]) => g = [f EXCEPT ![r] = g[r]]
    BY <2>1
  <2>3. (\A q \in Turns : g[q] = f[q]) => g = f
    BY <2>1
  <2> QED  BY <2>2, <2>3 DEF f, g
<1>3. /\ (\A q \in Turns \ {r} : actedBar'[q] = actedBar[q])
           => actedBar' = [actedBar EXCEPT ![r] = actedBar'[r]]
      /\ (\A q \in Turns : actedBar'[q] = actedBar[q]) => actedBar' = actedBar
  <2> DEFINE f == actedBar
             g == actedBar'
  <2>1. f = [q \in Turns |-> f[q]] /\ g = [q \in Turns |-> g[q]]
    BY BarsAreFunctions
  <2> HIDE DEF f, g
  <2>2. (\A q \in Turns \ {r} : g[q] = f[q]) => g = [f EXCEPT ![r] = g[r]]
    BY <2>1
  <2>3. (\A q \in Turns : g[q] = f[q]) => g = f
    BY <2>1
  <2> QED  BY <2>2, <2>3 DEF f, g
<1> QED  BY <1>1, <1>2, <1>3

\* A first submission accepts a request, a retry tries it again.
LEMMA SubmitRefines ==
  ASSUME IInv, ChainInv, ~OutOfProcess, IInv', ChainInv',
         NEW t \in Turns, NEW s \in Sessions, NEW p \in {0} \cup Turns, Submit(t, s, p)
  PROVE  Promise!Next
<1> DEFINE r == request'[t]
<1>1. /\ ~Sent(t) /\ Sent(t)' /\ status'[t] = "queued"
      /\ \A u \in Turns \ {t} : /\ status'[u] = status[u] /\ request'[u] = request[u]
                                /\ attemptOf'[u] = attemptOf[u]
      /\ r = IF p = 0 THEN t ELSE request[p]
      /\ attemptOf'[t] = p /\ effect' = effect /\ ran' = ran
      /\ p # 0 => p \in Turns /\ p # t /\ status[p] = "failed" /\ ~Retried(p)
  BY DEF Submit, Sent, Retried, MayRetry, effects, IInv, Shape
<1>2. r \in Turns /\ 0 \notin Turns
  BY DEF IInv, Shape, Turns
<1>3. ~Retried(t)'
  <2>1. \A v \in Turns : attemptOf[v] # t
    <3> SUFFICES ASSUME NEW v \in Turns, attemptOf[v] = t PROVE FALSE
      OBVIOUS
    <3>1. status[t] = "failed"
      BY <1>2 DEF IInv, RetriesAreOfRetryable, RetryableIsClean
    <3> QED  BY <1>1, <3>1 DEF Sent
  <2>2. p # t
    BY <1>1, <1>2
  <2> QED  BY <1>1, <2>1, <2>2 DEF Retried
<1>4. ~HasEffects(t) /\ \A k \in Keys : effect[t][k] = "none" /\ ran[t][k] = 0
  <2>1. ~HasEffects(t)
    BY <1>1 DEF ChainInv
  <2>2. \A k \in Keys : ran[t][k] \in Nat /\ ran[t][k] <= 0
    BY <2>1 DEF IInv, Shape, EffectsRunOnce, HasEffects
  <2> QED  BY <2>1, <2>2 DEF HasEffects
<1>5. Alone(t)'
  <2>1. \A u \in Turns : u # t /\ Sent(u)' /\ request'[u] = request'[t] => Retried(u)'
    <3> SUFFICES ASSUME NEW u \in Turns, u # t, Sent(u)', request'[u] = request'[t]
                 PROVE  Retried(u)'
      OBVIOUS
    <3>1. u < t \/ t < u
      BY DEF Turns
    <3> QED  BY <1>1, <1>3, <3>1 DEF ChainInv
  <2>2. ASSUME NEW u \in Turns, u # t, Retried(u)' PROVE DidNothing(u)'
    <3>1. CASE Retried(u)
      BY <1>1, <2>2, <3>1, RetriedDidNothing DEF DidNothing
    <3>2. CASE ~Retried(u)
      <4>1. u = p
        BY <1>1, <2>2, <3>2 DEF Retried
      <4>2. p \in retryable
        BY <1>1, <1>2, <4>1 DEF Submit, MayRetry
      <4>3. ~HasEffects(p)
        BY <4>2 DEF IInv, RetryableIsClean
      <4>4. \A k \in Keys : ran[p][k] \in Nat /\ ran[p][k] <= 0
        BY <1>1, <1>2, <4>1, <4>3 DEF IInv, Shape, EffectsRunOnce, HasEffects
      <4>5. \A k \in Keys : effect'[u][k] = "none" /\ ran'[u][k] = 0
        <5>1. ASSUME NEW k \in Keys PROVE effect'[u][k] = "none" /\ ran'[u][k] = 0
          <6>1. effect[u][k] = "none" /\ ran[u][k] = 0
            BY <4>1, <4>3, <4>4 DEF HasEffects
          <6> QED  BY <1>1, <6>1
        <5> QED  BY <5>1
      <4>6. status'[u] = "failed"
        BY <1>1, <1>2, <2>2, <4>1
      <4> QED  BY <4>5, <4>6 DEF DidNothing
    <3> QED  BY <3>1, <3>2
  <2> QED  BY <2>1, <2>2 DEF Alone
<1>6. Says(t)'
  BY <1>1, <1>5, AloneSaysNext DEF IInv
<1>7. /\ phaseBar'[r] = "working" /\ reservedBar'[r] = {}
      /\ actedBar'[r] = [k \in Keys |-> {}]
  <2>1. Outcome("queued") = "working"
    BY DEF Outcome, Active
  <2>2. \A k \in Keys : {t} \X (1 .. ran'[t][k]) = {}
    BY <1>1, <1>4
  <2>3. reservedBar'[r] = {k \in Keys : effect[t][k] # "none"}
    BY <1>1, <1>6 DEF Says
  <2>4. actedBar'[r] = [k \in Keys |-> {t} \X (1 .. ran'[t][k])]
    BY <1>6 DEF Says
  <2>5. phaseBar'[r] = Outcome(status'[t])
    BY <1>6 DEF Says, Outcome
  <2> QED  BY <1>1, <1>4, <2>1, <2>2, <2>3, <2>4, <2>5
<1>8. ASSUME NEW q \in Turns, q # r
      PROVE  phaseBar'[q] = phaseBar[q] /\ reservedBar'[q] = reservedBar[q]
             /\ actedBar'[q] = actedBar[q]
  <2>1. SameChain(q)
    BY <1>1, <1>8 DEF SameChain, Sent
  <2>2. \A u \in Chain(q) : u \in Turns \ {t}
    BY <1>1 DEF Chain, Sent
  <2> QED  BY <1>1, <2>1, <2>2, SameSays
<1>9. CASE p = 0
  <2>1. r = t /\ Chain(t) = {}
    BY <1>1, <1>9 DEF ChainInv, Chain, Sent
  <2>2. phaseBar[t] = "absent" /\ reservedBar[t] = {} /\ actedBar[t] = [k \in Keys |-> {}]
    <3>1. phaseBar[t] = "absent"
      BY <2>1, PhaseIs
    <3>2. reservedBar[t] = {}
      BY <2>1 DEF reservedBar
    <3>3. \A k \in Keys : UNION {{u} \X (1 .. ran[u][k]) : u \in {}} = {}
      OBVIOUS
    <3>4. actedBar[t] = [k \in Keys |-> {}]
      BY <2>1, <3>3 DEF actedBar
    <3> QED  BY <3>1, <3>2, <3>4
  <2>3. phaseBar' = [phaseBar EXCEPT ![t] = "working"] /\ UNCHANGED <<reservedBar, actedBar>>
    <3>1. \A q \in Turns \ {t} : phaseBar'[q] = phaseBar[q]
      BY <1>8, <2>1
    <3>2. \A q \in Turns : reservedBar'[q] = reservedBar[q] /\ actedBar'[q] = actedBar[q]
      BY <1>7, <1>8, <2>1, <2>2
    <3> QED  BY <1>7, <2>1, <3>1, <3>2, OneRequest
  <2>4. Promise!Accept(t)
    BY <2>2, <2>3 DEF Promise!Accept, Promise!Move
  <2> QED  BY <2>4 DEF Promise!Next
<1>10. CASE p # 0
  <2>1. r = request[p] /\ Sent(p) /\ DidNothing(p)'
    BY <1>1, <1>5, <1>10 DEF Alone, Sent
  <2>2. Alone(p)
    BY <1>1, <1>10, <2>1, LastIsAlone
  <2>3. Says(p)
    BY <1>1, <1>10, <2>1, <2>2, AloneSays DEF IInv
  <2>4. /\ phaseBar[r] = "failed" /\ reservedBar[r] = {}
        /\ actedBar[r] = [k \in Keys |-> {}]
    <3>1. Outcome("failed") = "failed"
      BY DEF Outcome, Active
    <3>2. \A k \in Keys : effect[p][k] = "none" /\ {p} \X (1 .. ran[p][k]) = {}
      BY <1>1, <2>1 DEF DidNothing
    <3>3. actedBar[r] = [k \in Keys |-> {p} \X (1 .. ran[p][k])]
      BY <2>1, <2>3 DEF Says
    <3>4. phaseBar[r] = "failed"
      BY <1>1, <1>10, <2>1, <2>3, <3>1 DEF Says
    <3>5. reservedBar[r] = {}
      BY <2>1, <2>3, <3>2 DEF Says
    <3> QED  BY <3>2, <3>3, <3>4, <3>5
  <2>5. phaseBar' = [phaseBar EXCEPT ![r] = "working"] /\ UNCHANGED <<reservedBar, actedBar>>
    <3>1. \A q \in Turns \ {r} : phaseBar'[q] = phaseBar[q]
      BY <1>8
    <3>2. \A q \in Turns : reservedBar'[q] = reservedBar[q] /\ actedBar'[q] = actedBar[q]
      BY <1>7, <1>8, <2>4
    <3> QED  BY <1>2, <1>7, <3>1, <3>2, OneRequest
  <2>6. Promise!TryAgain(r)
    BY <2>4, <2>5 DEF Promise!TryAgain, Promise!Move
  <2> QED  BY <1>2, <2>6 DEF Promise!Next
<1> QED  BY <1>9, <1>10

\* A step of the last attempt at a request is seen at that request alone.
LEMMA OneTurn ==
  ASSUME IInv, IInv', NEW t \in Turns, Sent(t), Alone(t), request' = request,
         \A u \in Turns : Sent(u)' <=> Sent(u),
         \A u \in Turns \ {t} : status'[u] = status[u] /\ ran'[u] = ran[u],
         \A u \in Turns \ {t}, k \in Keys : effect'[u][k] = "none" <=> effect[u][k] = "none"
  PROVE  /\ Says(t) /\ Says(t)'
         /\ \A q \in Turns \ {request[t]} :
              /\ phaseBar'[q] = phaseBar[q] /\ reservedBar'[q] = reservedBar[q]
              /\ actedBar'[q] = actedBar[q]
<1>1. Says(t)
  BY AloneSays DEF IInv
<1>2. Alone(t)'
  <2> SUFFICES ASSUME NEW u \in Turns, u # t, Sent(u)', request'[u] = request'[t]
               PROVE  DidNothing(u)'
    BY DEF Alone
  <2>1. DidNothing(u)
    BY DEF Alone
  <2> QED  BY <2>1 DEF DidNothing
<1>3. Says(t)'
  BY <1>2, AloneSaysNext DEF IInv
<1>4. ASSUME NEW q \in Turns \ {request[t]}
      PROVE  /\ phaseBar'[q] = phaseBar[q] /\ reservedBar'[q] = reservedBar[q]
             /\ actedBar'[q] = actedBar[q]
  <2>1. SameChain(q)
    BY DEF SameChain
  <2>2. \A u \in Chain(q) : u \in Turns \ {t}
    BY DEF Chain
  <2> QED  BY <2>1, <2>2, SameSays
<1> QED  BY <1>1, <1>3, <1>4

\* A turn that is under way, or reserved an effect, is the last attempt.
LEMMA BusyIsAlone ==
  ASSUME IInv, ChainInv, ~OutOfProcess, NEW t \in Turns, status[t] \in Active \/ HasEffects(t)
  PROVE  Sent(t) /\ Alone(t)
<1>1. Sent(t)
  BY DEF ChainInv, Sent, Active
<1>2. ~DidNothing(t)
  BY DEF DidNothing, HasEffects, Active
<1> QED  BY <1>1, <1>2, WorkingIsAlone

\* Settling a turn answers its request or gives it up.
LEMMA SettleRefines ==
  ASSUME IInv, ChainInv, ~OutOfProcess, IInv', Next,
         NEW w \in Workers, CompleteTurn(w) \/ FailTurn(w)
  PROVE  Promise!Next \/ UNCHANGED <<phaseBar, reservedBar, actedBar>>
<1> PICK t \in Turns : t = worker[w].turn
  BY DEF CompleteTurn, FailTurn, IInv, Busy
<1> DEFINE r == request[t]
<1>0. t \in Turns
  OBVIOUS
<1>1. request' = request /\ effect' = effect /\ ran' = ran
  BY DEF CompleteTurn, FailTurn
<1>2. CASE ~Holds(t, worker[w].token)
  <2>1. status' = status
    BY <1>2 DEF CompleteTurn, FailTurn
  <2>2. \A q \in Turns : SameChain(q)
    BY <1>1, <2>1 DEF SameChain, Sent
  <2> QED  BY <1>1, <2>1, <2>2, SameStutters
<1>3. CASE Holds(t, worker[w].token)
  <2>1. status[t] = "running" /\ r \in Turns
    BY <1>0, <1>3 DEF Holds, IInv, Shape
  <2>2. Sent(t) /\ Alone(t)
    BY <1>0, <2>1, BusyIsAlone DEF Active
  <2>3. /\ \A u \in Turns \ {t} : status'[u] = status[u]
        /\ \/ CompleteTurn(w) /\ status'[t] = "completed"
           \/ FailTurn(w) /\ status'[t] = "failed"
    BY <1>0, <1>3 DEF CompleteTurn, FailTurn, IInv, Shape
  <2>4. \A u \in Turns : Sent(u)' <=> Sent(u)
    BY <2>1, <2>3 DEF Sent
  <2>5. /\ Says(t) /\ Says(t)'
        /\ \A q \in Turns \ {r} :
             /\ phaseBar'[q] = phaseBar[q] /\ reservedBar'[q] = reservedBar[q]
             /\ actedBar'[q] = actedBar[q]
    BY <1>0, <1>1, <2>2, <2>3, <2>4, OneTurn
  <2>6. /\ phaseBar[r] = "working" /\ phaseBar'[r] = Outcome(status'[t])
        /\ reservedBar'[r] = reservedBar[r] /\ actedBar'[r] = actedBar[r]
    <3>1. phaseBar[r] = "working"
      BY <2>1, <2>5 DEF Says, Outcome, Active
    <3>2. phaseBar'[r] = Outcome(status'[t])
      BY <1>1, <2>5 DEF Says, Outcome
    <3>3. reservedBar'[r] = reservedBar[r] /\ actedBar'[r] = actedBar[r]
      BY <1>1, <2>5 DEF Says
    <3> QED  BY <3>1, <3>2, <3>3
  <2>7. UNCHANGED <<reservedBar, actedBar>>
    BY <2>1, <2>5, <2>6, OneRequest
  <2>8. CASE CompleteTurn(w) /\ status'[t] = "completed"
    <3>1. phaseBar'[r] = "answered"
      BY <2>6, <2>8 DEF Outcome, Active
    <3>2. phaseBar' = [phaseBar EXCEPT ![r] = "answered"]
      BY <2>1, <2>5, <3>1, OneRequest
    <3> QED  BY <2>1, <2>6, <2>7, <3>2 DEF Promise!Next, Promise!Answer, Promise!Move
  <2>9. CASE FailTurn(w) /\ status'[t] = "failed"
    <3>1. phaseBar'[r] = "failed"
      BY <2>6, <2>9 DEF Outcome, Active
    <3>2. \A q \in Turns : phaseBar'[q] = IF q \in {r} THEN "failed" ELSE phaseBar[q]
      BY <2>5, <3>1
    <3>3. phaseBar' = [q \in Turns |-> IF q \in {r} THEN "failed" ELSE phaseBar[q]]
      <4> DEFINE g == phaseBar'
      <4>1. g = [q \in Turns |-> g[q]]
        BY BarsAreFunctions
      <4> HIDE DEF g
      <4>2. (\A q \in Turns : g[q] = IF q \in {r} THEN "failed" ELSE phaseBar[q])
              => g = [q \in Turns |-> IF q \in {r} THEN "failed" ELSE phaseBar[q]]
        BY <4>1
      <4> QED  BY <3>2, <4>2 DEF g
    <3>4. Promise!GiveUp({r})
      BY <2>6, <2>7, <3>3 DEF Promise!GiveUp
    <3> QED  BY <2>1, <3>4 DEF Promise!Next
  <2> QED  BY <2>3, <2>8, <2>9
<1> QED  BY <1>2, <1>3

\* A call that passes its fence reserves its effect.
LEMMA PassRefines ==
  ASSUME IInv, ChainInv, ~OutOfProcess, IInv', NEW c \in calls, Passes(c),
         status' = status, request' = request
  PROVE  Promise!Next
<1> PICK t \in Turns, k \in Keys : t = c.turn /\ k = c.key
  BY DEF IInv, Shape, Calls
<1> DEFINE r == request[t]
<1>1. /\ status[t] = "running" /\ r \in Turns /\ ran' = ran
      /\ effect[t][k] = "none" /\ effect'[t][k] # "none"
      /\ \A u \in Turns, j \in Keys : <<u, j>> # <<t, k>> => effect'[u][j] = effect[u][j]
  BY DEF Passes, Holds, IInv, Shape
<1>2. Sent(t) /\ Alone(t)
  BY <1>1, BusyIsAlone DEF Active
<1>3. \A u \in Turns : Sent(u)' <=> Sent(u)
  BY DEF Sent
<1>4. /\ Says(t) /\ Says(t)'
      /\ \A q \in Turns \ {r} :
           /\ phaseBar'[q] = phaseBar[q] /\ reservedBar'[q] = reservedBar[q]
           /\ actedBar'[q] = actedBar[q]
  BY <1>1, <1>2, <1>3, OneTurn
<1>5. phaseBar[r] = "working" /\ phaseBar'[r] = phaseBar[r] /\ actedBar'[r] = actedBar[r]
  <2>1. phaseBar[r] = "working"
    BY <1>1, <1>4 DEF Says, Outcome, Active
  <2>2. phaseBar'[r] = phaseBar[r]
    BY <1>4 DEF Says, Outcome
  <2>3. actedBar'[r] = actedBar[r]
    BY <1>1, <1>4 DEF Says
  <2> QED  BY <2>1, <2>2, <2>3
<1>6. k \notin reservedBar[r] /\ reservedBar'[r] = reservedBar[r] \cup {k}
  <2>1. reservedBar[r] = {j \in Keys : effect[t][j] # "none"}
    BY <1>4 DEF Says
  <2>2. reservedBar'[r] = {j \in Keys : effect'[t][j] # "none"}
    BY <1>4 DEF Says
  <2> QED  BY <1>1, <2>1, <2>2
<1>7. /\ UNCHANGED <<phaseBar, actedBar>>
      /\ reservedBar' = [reservedBar EXCEPT ![r] = @ \cup {k}]
  <2>1. UNCHANGED <<phaseBar, actedBar>>
    BY <1>1, <1>4, <1>5, OneRequest
  <2>2. reservedBar' = [reservedBar EXCEPT ![r] = reservedBar'[r]]
    BY <1>1, <1>4, OneRequest
  <2> QED  BY <1>6, <2>1, <2>2
<1>8. Promise!Reserve(r, k)
  BY <1>5, <1>6, <1>7 DEF Promise!Reserve
<1> QED  BY <1>1, <1>8 DEF Promise!Next

\* A granted call that runs carries its effect out, for the first time.
LEMMA ActRefines ==
  ASSUME IInv, ChainInv, ~OutOfProcess, IInv', NEW c \in calls, Acts(c),
         status' = status, request' = request
  PROVE  Promise!Next \/ UNCHANGED <<phaseBar, reservedBar, actedBar>>
<1> PICK t \in Turns, k \in Keys : t = c.turn /\ k = c.key
  BY DEF IInv, Shape, Calls
<1> DEFINE r == request[t]
<1>1. /\ effect' = effect /\ effect[t][k] # "none" /\ ran[t][k] = 0 /\ r \in Turns
      /\ \A u \in Turns, j \in Keys :
           ran'[u][j] = ran[u][j] \/ (u = t /\ j = k /\ ran'[u][j] = ran[u][j] + 1)
  BY DEF Acts, IInv, GrantedOnce, Shape
<1>2. Sent(t) /\ Alone(t)
  <2>1. HasEffects(t)
    BY <1>1 DEF HasEffects
  <2> QED  BY <2>1, BusyIsAlone
<1>3. \A u \in Turns : Sent(u)' <=> Sent(u)
  BY DEF Sent
<1>4. \A u \in Turns \ {t} : ran'[u] = ran[u]
  <2> SUFFICES ASSUME NEW u \in Turns \ {t} PROVE ran'[u] = ran[u]
    OBVIOUS
  <2>1. ran[u] \in [Keys -> Nat] /\ ran'[u] \in [Keys -> Nat]
    BY DEF IInv, Shape
  <2>2. \A j \in Keys : ran'[u][j] = ran[u][j]
    BY <1>1
  <2> QED  BY <2>1, <2>2
<1>5. /\ Says(t) /\ Says(t)'
      /\ \A q \in Turns \ {r} :
           /\ phaseBar'[q] = phaseBar[q] /\ reservedBar'[q] = reservedBar[q]
           /\ actedBar'[q] = actedBar[q]
  BY <1>1, <1>2, <1>3, <1>4, OneTurn
<1>6. phaseBar'[r] = phaseBar[r] /\ reservedBar'[r] = reservedBar[r]
  <2>1. phaseBar'[r] = phaseBar[r]
    BY <1>5 DEF Says, Outcome
  <2>2. reservedBar'[r] = reservedBar[r]
    BY <1>1, <1>5 DEF Says
  <2> QED  BY <2>1, <2>2
<1>7. UNCHANGED <<phaseBar, reservedBar>>
  BY <1>1, <1>5, <1>6, OneRequest
<1>8. /\ actedBar[r] = [j \in Keys |-> {t} \X (1 .. ran[t][j])]
      /\ actedBar'[r] = [j \in Keys |-> {t} \X (1 .. ran'[t][j])]
  BY <1>5 DEF Says
<1>9. CASE ran'[t][k] = ran[t][k]
  <2>1. \A j \in Keys : ran'[t][j] = ran[t][j]
    BY <1>1, <1>9
  <2>2. actedBar'[r] = actedBar[r]
    BY <1>8, <2>1
  <2> QED  BY <1>1, <1>5, <1>7, <2>2, OneRequest
<1>10. CASE ran'[t][k] = 1
  <2> DEFINE o == <<t, 1>>
  <2>1. o \in Turns \X {1}
    OBVIOUS
  <2>2. \A j \in Keys \ {k} : ran'[t][j] = ran[t][j]
    BY <1>1
  <2>3. {t} \X (1 .. ran[t][k]) = {} /\ {t} \X (1 .. ran'[t][k]) = {o}
    BY <1>1, <1>10
  <2>4. actedBar[r][k] = {}
    BY <1>8, <2>3
  <2>5. actedBar'[r] = [actedBar[r] EXCEPT ![k] = {o}]
    <3> DEFINE A == actedBar[r]
               B == actedBar'[r]
    <3>1. A = [j \in Keys |-> A[j]] /\ B = [j \in Keys |-> B[j]]
      BY <1>8
    <3>2. \A j \in Keys \ {k} : B[j] = A[j]
      BY <1>8, <2>2
    <3>3. B[k] = {o}
      BY <1>8, <2>3
    <3> HIDE DEF A, B, o
    <3>4. B = [A EXCEPT ![k] = {o}]
      BY <3>1, <3>2, <3>3
    <3> QED  BY <3>4 DEF A, B
  <2>6. actedBar' = [actedBar EXCEPT ![r] = actedBar'[r]]
    BY <1>1, <1>5, OneRequest
  <2>7. actedBar' = [actedBar EXCEPT ![r] = [@ EXCEPT ![k] = {o}]]
    BY <2>5, <2>6
  <2>8. k \in reservedBar[r]
    BY <1>1, <1>5 DEF Says
  <2>9. Promise!Act(r, k)
    BY <1>7, <2>1, <2>4, <2>7, <2>8 DEF Promise!Act
  <2> QED  BY <1>1, <2>9 DEF Promise!Next
<1> QED  BY <1>1, <1>9, <1>10

\* Every step of a tool call reserves, acts, or is nothing to the promise.
LEMMA CallRefines ==
  ASSUME IInv, ChainInv, ~OutOfProcess, IInv', NEW c \in calls, CallStep(c)
  PROVE  Promise!Next \/ UNCHANGED <<phaseBar, reservedBar, actedBar>>
<1>1. status' = status /\ request' = request
  BY DEF CallStep, Begin, Run, SaveReceipt
<1>2. CASE Ends(c)
  <2>1. \A q \in Turns : SameChain(q)
    BY <1>1 DEF SameChain, Sent
  <2> QED  BY <1>1, <1>2, <2>1, SameStutters DEF Ends
<1> QED  BY <1>1, <1>2, PassRefines, ActRefines, CallsProgress DEF IInv

\* Claiming a turn gives up the requests that were lost to a login or a lease.
LEMMA ClaimRefines ==
  ASSUME IInv, ChainInv, ~OutOfProcess, IInv', Next, NEW w \in Workers, ClaimTurn(w)
  PROVE  Promise!Next
<1> PICK t \in Turns : t = worker[w].turn
  BY DEF ClaimTurn, IInv, Busy
<1> DEFINE lost == LoggedOut \cup (IF Interrupted(t) THEN {t} ELSE {})
           R == {request[u] : u \in lost}
<1>1. /\ request' = request /\ effect' = effect /\ ran' = ran
      /\ \A u \in Turns : status'[u] = IF u \in lost THEN "failed"
           ELSE IF u = t /\ Claimable(t) THEN "running" ELSE status[u]
  BY DEF ClaimTurn
<1>2. lost \subseteq Turns /\ \A u \in lost : status[u] \in Active
  BY DEF LoggedOut, Interrupted, Active
<1>3. \A u \in Turns : Claimable(t) /\ u = t => status[u] = "queued"
  BY DEF Claimable
<1>4. R \in SUBSET Turns
  BY <1>2 DEF IInv, Shape
<1>5. \A u \in Turns : request[u] \in Turns
  BY DEF IInv, Shape
<1> HIDE DEF lost
<1>6. \A u \in Turns : Sent(u)' <=> Sent(u)
  BY <1>1, <1>2, <1>3 DEF Sent, Active
<1>7. \A q \in Turns : SameChain(q)
  BY <1>1, <1>6 DEF SameChain
<1>8. \A q \in Turns : reservedBar'[q] = reservedBar[q] /\ actedBar'[q] = actedBar[q]
  <2>1. \A q \in Turns : Chain(q) \subseteq Turns
    BY DEF Chain
  <2> QED  BY <1>1, <1>7, <2>1, SameSays
<1>9. ASSUME NEW q \in R
      PROVE  phaseBar[q] = "working" /\ phaseBar'[q] = "failed"
  <2> PICK u \in lost : q = request[u]
    OBVIOUS
  <2>1. u \in Turns /\ status[u] \in Active /\ status'[u] = "failed" /\ q \in Turns
    BY <1>1, <1>2, <1>5
  <2>2. Sent(u) /\ Alone(u)
    BY <2>1, BusyIsAlone
  <2>3. Alone(u)'
    <3> SUFFICES ASSUME NEW v \in Turns, v # u, Sent(v)', request'[v] = request'[u]
                 PROVE  DidNothing(v)'
      BY DEF Alone
    <3>1. DidNothing(v)
      BY <1>1, <1>6, <2>2 DEF Alone
    <3>2. status'[v] = "failed"
      BY <1>1, <1>3, <3>1 DEF DidNothing
    <3> QED  BY <1>1, <3>1, <3>2 DEF DidNothing
  <2>4. Says(u)
    BY <2>1, <2>2, AloneSays DEF IInv
  <2>5. Says(u)'
    BY <1>6, <2>1, <2>2, <2>3, AloneSaysNext DEF IInv
  <2>6. phaseBar[q] = "working"
    BY <2>1, <2>4 DEF Says, Outcome
  <2>7. phaseBar'[q] = "failed"
    BY <1>1, <2>1, <2>5 DEF Says, Outcome, Active
  <2> QED  BY <2>6, <2>7
<1>10. ASSUME NEW q \in Turns \ R
       PROVE  phaseBar'[q] = phaseBar[q]
  <2>1. Chain(q)' = Chain(q)
    BY <1>7, SameSays
  <2>2. ASSUME NEW u \in Chain(q)
        PROVE  /\ status'[u] \in Active <=> status[u] \in Active
               /\ status'[u] = "completed" <=> status[u] = "completed"
    <3>1. u \in Turns /\ u \notin lost
      BY DEF Chain
    <3> QED  BY <1>1, <1>3, <3>1 DEF Active
  <2> QED  BY <2>1, <2>2, PhaseIs
<1>11. phaseBar' = [q \in Turns |-> IF q \in R THEN "failed" ELSE phaseBar[q]]
  <2> DEFINE g == phaseBar'
  <2>1. g = [q \in Turns |-> g[q]]
    BY BarsAreFunctions
  <2>2. \A q \in Turns : g[q] = IF q \in R THEN "failed" ELSE phaseBar[q]
    BY <1>9, <1>10
  <2> HIDE DEF g, R
  <2>3. g = [q \in Turns |-> IF q \in R THEN "failed" ELSE phaseBar[q]]
    BY <2>1, <2>2
  <2> QED  BY <2>3 DEF g
<1>12. UNCHANGED <<reservedBar, actedBar>>
  BY <1>8, OneRequest
<1>13. Promise!GiveUp(R)
  <2> HIDE DEF R
  <2> QED  BY <1>9, <1>11, <1>12 DEF Promise!GiveUp
<1> QED  BY <1>4, <1>13 DEF Promise!Next

\* Every step keeps the promise or is nothing to it.
LEMMA NextRefines ==
  ASSUME IInv, ChainInv, ~OutOfProcess, IInv', ChainInv', Next
  PROVE  Promise!Next \/ UNCHANGED <<phaseBar, reservedBar, actedBar>>
<1>1. CASE \E t \in Turns, s \in Sessions, p \in {0} \cup Turns : Submit(t, s, p)
  BY <1>1, SubmitRefines
<1>2. CASE \E c \in calls : CallStep(c)
  BY <1>2, CallRefines
<1>3. CASE \E w \in Workers : ClaimTurn(w) \/ CompleteTurn(w) \/ FailTurn(w)
  BY <1>3, ClaimRefines, SettleRefines
<1>4. CASE /\ ~ \E t \in Turns, s \in Sessions, p \in {0} \cup Turns : Submit(t, s, p)
           /\ ~ \E c \in calls : CallStep(c)
           /\ ~ \E w \in Workers : ClaimTurn(w) \/ CompleteTurn(w) \/ FailTurn(w)
  <2>1. UNCHANGED <<effect, ran>>
    BY <1>4, EffectFrame
  <2>2. UNCHANGED status
    BY <1>4, TurnFrame
  <2>3. UNCHANGED request
    BY <1>4, RequestFrame DEF IInv
  <2>4. \A q \in Turns : SameChain(q)
    BY <2>2, <2>3 DEF SameChain, Sent
  <2> QED  BY <2>1, <2>2, <2>4, SameStutters
<1> QED  BY <1>1, <1>2, <1>3, <1>4

\* Nothing is promised before anything was sent.
LEMMA InitRefines ==
  ASSUME Init
  PROVE  Promise!Init /\ ChainInv
<1>1. /\ \A u \in Turns : ~Sent(u) /\ request[u] = u /\ attemptOf[u] = 0
      /\ \A u \in Turns : ~HasEffects(u)
  BY DEF Init, Sent, HasEffects
<1>2. ChainInv
  BY <1>1 DEF ChainInv
<1>3. \A r \in Turns : Chain(r) = {}
  BY <1>1 DEF Chain, Sent
<1>4. \A r \in Turns : phaseBar[r] = "absent"
  BY <1>3, PhaseIs
<1>5. phaseBar = [r \in Turns |-> "absent"]
  BY <1>4, BarsAreFunctions
<1>6. reservedBar = [r \in Turns |-> {}]
  BY <1>3 DEF reservedBar
<1>7. actedBar = [r \in Turns |-> [k \in Keys |-> {}]]
  <2>1. \A k \in Keys : UNION {{t} \X (1 .. ran[t][k]) : t \in {}} = {}
    OBVIOUS
  <2> QED  BY <1>3, <2>1 DEF actedBar
<1> QED  BY <1>2, <1>5, <1>6, <1>7 DEF Promise!Init

\* Where tools run in the worker, durable turns keep the promise of RequestOnce,
\* whoever dies, throws, logs out or loses a lease: a request is answered once at
\* most, an effect is reserved before it happens and happens once at most over all
\* the attempts at its request, and only a request that reserved nothing is tried
\* again (submitDurableTurn, claimDurableTurn, failDurableTurn, executeDurableEffect).
THEOREM ImplementsPromise == ~OutOfProcess => (Spec => KeepsPromise)
<1> SUFFICES ASSUME ~OutOfProcess
             PROVE  Spec => KeepsPromise
  OBVIOUS
<1>1. Init => Promise!Init /\ ChainInv
  BY InitRefines
<1>2. IInv /\ IInv' /\ ChainInv /\ [Next]_vars => ChainInv'
  <2>1. ASSUME IInv, ChainInv, Next
        PROVE  ChainInv'
    BY <2>1, ChainKept DEF IInv
  <2>2. ASSUME ChainInv, UNCHANGED vars
        PROVE  ChainInv'
    BY <2>2 DEF vars, ChainInv, Sent, Retried, HasEffects
  <2> QED  BY <2>1, <2>2
<1>3. IInv /\ IInv' /\ ChainInv /\ ChainInv' /\ [Next]_vars => [Promise!Next]_(Promise!vars)
  <2>1. ASSUME IInv, IInv', ChainInv, ChainInv', Next
        PROVE  Promise!Next \/ UNCHANGED Promise!vars
    BY <2>1, NextRefines DEF Promise!vars
  <2>2. ASSUME UNCHANGED vars
        PROVE  UNCHANGED Promise!vars
    <3>1. /\ \A q \in Turns : SameChain(q)
          /\ status' = status /\ ran' = ran /\ effect' = effect
      BY <2>2 DEF vars, SameChain, Sent
    <3> QED  BY <3>1, SameStutters DEF Promise!vars
  <2> QED  BY <2>1, <2>2
<1> QED  BY <1>1, <1>2, <1>3, Invariance, PTL DEF Spec, KeepsPromise, Promise!Spec
=============================================================================
