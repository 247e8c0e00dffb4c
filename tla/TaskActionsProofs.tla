------------------------- MODULE TaskActionsProofs -------------------------
(***************************************************************************)
(* What holds of TaskActions for any number of tasks, approvals, payloads, *)
(* turns, owner requests, workers and worker deaths.                       *)
(***************************************************************************)
EXTENDS TaskActions, TLAPS

\* A process that has chosen its row really has one, and a request for approval
\* names the task it is about.
Bound ==
  /\ \A u \in Turns : turn[u].pc \notin {"new", "look", "create", "done"} =>
       turn[u].task \in Tasks
  /\ \A e \in Edits : edit[e].pc \notin {"new", "done"} => edit[e].task \in Tasks
  /\ \A e \in Edits : edit[e].pc \in {"write", "writeOnly"} => edit[e].to \in TaskStates
  /\ \A w \in Workers : worker[w].pc # "idle" => worker[w].task \in Tasks
  /\ \A a \in Approvals : approval[a].status # "absent" => approval[a].task \in Tasks

\* Approval a was requested, and for task t.
Requested(a, t) ==
  a \in Approvals /\ approval[a].status # "absent" /\ approval[a].task = t

\* Wherever an approval id is kept beside a task, it was requested for that task.
ApprovalsMatch ==
  /\ \A t \in Tasks : action[t].approval # None => Requested(action[t].approval, t)
  /\ \A u \in Turns : turn[u].pc \in {"awaitRead", "awaitWrite", "prepare"} =>
       Requested(turn[u].approval, turn[u].task)
  /\ \A w \in Workers :
       worker[w].pc \in {"claim", "check"} /\ worker[w].approval # None =>
         Requested(worker[w].approval, worker[w].task)

\* Whatever authorises a call, or a copy of it a worker took, pins a payload
\* somebody agreed to.
GrantsRecorded ==
  /\ \A a \in Approvals : approval[a].status = "approved" =>
       <<approval[a].task, approval[a].hash>> \in granted
  /\ \A t \in Tasks : action[t].kind = "user_policy" =>
       action[t].status # "collecting" /\ <<t, action[t].hash>> \in granted
  /\ \A w \in Workers :
       worker[w].pc \in {"claim", "check"} /\ worker[w].kind = "user_policy" =>
         <<worker[w].task, worker[w].hash>> \in granted
  /\ \A w \in Workers : worker[w].pc \in {"mark", "call"} /\ worker[w].kind # "none" =>
       <<worker[w].task, worker[w].payload>> \in granted

InFlight == {"check", "mark", "call"}

\* Claims never outnumber the writes that made the task ready, and no two
\* claims, carried out or still under way, are numbered alike.
ClaimsCounted ==
  /\ \A t \in Tasks : /\ claimed[t] <= readied[t]
                      /\ taskState[t] = "ready" => claimed[t] < readied[t]
  /\ \A w \in Workers : worker[w].pc \in InFlight =>
       worker[w].attempt <= claimed[worker[w].task]
  /\ \A w, v \in Workers :
       /\ worker[w].pc \in InFlight /\ worker[v].pc \in InFlight
       /\ worker[w].task = worker[v].task /\ worker[w].attempt = worker[v].attempt
       => w = v
  /\ \A w \in Workers, x \in sent : worker[w].pc \in InFlight =>
       ~ (x.task = worker[w].task /\ x.attempt = worker[w].attempt)
  /\ \A x \in sent : x.task \in Tasks /\ x.attempt <= claimed[x.task]

\* A worker that is about to report success has called the provider.
ReportsAreTrue ==
  \A w \in Workers : worker[w].pc \in {"confirmRead", "confirmWrite", "settleSucceeded"} =>
    \E x \in sent : x.task = worker[w].task

IInv ==
  /\ TypeOK /\ Bound
  /\ ApprovalsMatch /\ GrantsRecorded /\ ExactConsent
  /\ ClaimsCounted /\ OneCallPerReadyTask
  /\ ReportsAreTrue /\ SucceededWasSent

\* The elementary updates of the actions keep the shape of the state.
LEMMA GotoType ==
  ASSUME turn \in [Turns -> TurnStates], NEW u \in Turns, NEW pc \in TurnPcs, Goto(u, pc)
  PROVE  turn' \in [Turns -> TurnStates]
  BY DEF Goto, TurnStates, NewTurn, OrNone, TurnPcs

\* Setting the status of an action row keeps the rows well formed.
LEMMA SetActionType ==
  ASSUME action \in [Tasks -> ActionRows], NEW t, NEW s \in ActionStatus, SetAction(t, s)
  PROVE  action' \in [Tasks -> ActionRows]
  BY DEF SetAction, ActionRows

\* Setting the state of a task keeps the task rows well formed.
LEMMA SetStateType ==
  ASSUME taskState \in [Tasks -> TaskStates \cup {"absent"}], readied \in [Tasks -> Nat],
         NEW t \in Tasks, NEW s \in TaskStates, SetState(t, s)
  PROVE  /\ taskState' \in [Tasks -> TaskStates \cup {"absent"}]
         /\ readied' \in [Tasks -> Nat]
  BY DEF SetState

\* Moving a worker on keeps its record well formed.
LEMMA StepType ==
  ASSUME worker \in [Workers -> WorkerStates], NEW w \in Workers, NEW pc \in WorkerPcs,
         Step(w, pc)
  PROVE  worker' \in [Workers -> WorkerStates]
  BY DEF Step, WorkerStates

\* A worker that goes idle has a well-formed record.
LEMMA IdleType ==
  ASSUME worker \in [Workers -> WorkerStates], NEW w \in Workers, Idle(w)
  PROVE  worker' \in [Workers -> WorkerStates]
  BY DEF Idle, IdleWorker, WorkerStates, WorkerPcs, OrNone

\* Queueing a wake keeps the queue well formed.
LEMMA EnqueueType ==
  ASSUME wakes \in [Tasks -> Nat], NEW t \in Tasks, Enqueue(t)
  PROVE  wakes' \in [Tasks -> Nat]
  BY DEF Enqueue

\* Expiring due actions keeps all three tables well formed.
LEMMA ExpireType ==
  ASSUME TypeOK, NEW due, ExpireActionsAndCancel(due)
  PROVE  /\ action' \in [Tasks -> ActionRows]
         /\ approval' \in [Approvals -> ApprovalRows]
         /\ taskState' \in [Tasks -> TaskStates \cup {"absent"}]
<1>1. action' \in [Tasks -> ActionRows]
  BY DEF ExpireActionsAndCancel, TypeOK, ActionRows, ActionStatus
<1>2. approval' \in [Approvals -> ApprovalRows]
  BY DEF ExpireActionsAndCancel, TypeOK, ApprovalRows, ApprovalStatus
<1>3. taskState' \in [Tasks -> TaskStates \cup {"absent"}]
  BY DEF ExpireActionsAndCancel, TypeOK, TaskStates
<1> QED  BY <1>1, <1>2, <1>3

\* The initial rows and idle processes have the shape TypeOK gives them.
LEMMA InitTypeOK == Init => TypeOK
<1> SUFFICES ASSUME Init PROVE TypeOK  OBVIOUS
<1>1. action \in [Tasks -> ActionRows]
  BY DEF Init, ActionRow, ActionRows, OrNone, Kinds
<1>2. approval \in [Approvals -> ApprovalRows]
  BY DEF Init, ApprovalRows, OrNone
<1>3. turn \in [Turns -> TurnStates]
  BY DEF Init, NewTurn, TurnStates, TurnPcs, OrNone
<1>4. edit \in [Edits -> EditStates]
  BY DEF Init, NewEdit, EditStates, EditPcs, OrNone
<1>5. worker \in [Workers -> WorkerStates]
  BY DEF Init, IdleWorker, WorkerStates, WorkerPcs, OrNone
<1> QED  BY <1>1, <1>2, <1>3, <1>4, <1>5 DEF Init, TypeOK, OrNone

\* Every step of a draft tool call keeps the shape of the state.
LEMMA TurnTypeOK ==
  ASSUME TypeOK, Bound, NEW u \in Turns, TurnStep(u) PROVE TypeOK'
<1> USE DEF rows, history, othersOfTurn, TypeOK
<1>1. CASE FindDraft(u)
  <2>1. turn' \in [Turns -> TurnStates]
    <3>1. ASSUME NEW t \in Tasks, NEW pc \in {"merge", "drop"},
                 turn' = [turn EXCEPT ![u] = [@ EXCEPT !.pc = pc, !.task = t]]
          PROVE  turn' \in [Turns -> TurnStates]
      <4>1. pc \in TurnPcs /\ t \in OrNone(Tasks)
        BY DEF TurnPcs, OrNone
      <4> QED  BY <3>1, <4>1 DEF TurnStates
    <3> QED  BY <1>1, <3>1, GotoType DEF FindDraft, TurnPcs
  <2> QED  BY <1>1, <2>1 DEF FindDraft
<1>2. CASE DropDraft(u)
  BY <1>2, GotoType, SetActionType DEF DropDraft, TurnPcs, ActionStatus
<1>3. CASE DropRead(u)
  BY <1>3, GotoType DEF DropRead, TurnPcs
<1>4. CASE DropCheck(u)
  BY <1>4, GotoType DEF DropCheck, TurnPcs
<1>5. CASE DropWrite(u)
  BY <1>5, GotoType, SetStateType DEF DropWrite, TurnPcs, TaskStates, Bound
<1>6. CASE FindPrepared(u)
  <2>1. turn' \in [Turns -> TurnStates]
    <3>1. ASSUME NEW t \in Tasks,
                 turn' = [turn EXCEPT ![u] = [@ EXCEPT !.pc = "retire", !.task = t,
                   !.approval = action[t].approval, !.seen = taskState[t]]]
          PROVE  turn' \in [Turns -> TurnStates]
      <4>1. action[t].approval \in OrNone(Approvals) /\ taskState[t] \in TaskStates \cup {"absent"}
        BY DEF ActionRows
      <4>2. "retire" \in TurnPcs /\ t \in OrNone(Tasks)
        BY DEF TurnPcs, OrNone
      <4> QED  BY <3>1, <4>1, <4>2 DEF TurnStates
    <3> QED  BY <1>6, <3>1, GotoType DEF FindPrepared, TurnPcs
  <2> QED  BY <1>6, <2>1 DEF FindPrepared
<1>7. CASE RetireAction(u)
  BY <1>7, GotoType, SetActionType DEF RetireAction, TurnPcs, ActionStatus
<1>8. CASE RetireApproval(u)
  <2>1. approval' \in [Approvals -> ApprovalRows]
    BY <1>8 DEF RetireApproval, ApprovalRows, ApprovalStatus
  <2> QED  BY <1>8, <2>1, GotoType DEF RetireApproval, TurnPcs
<1>9. CASE RetireRead(u)
  BY <1>9, GotoType DEF RetireRead, TurnPcs
<1>10. CASE RetireWrite(u)
  BY <1>10, GotoType, SetStateType DEF RetireWrite, TurnPcs, TaskStates, Bound
<1>11. CASE CreateTask(u)
  <2>1. turn' \in [Turns -> TurnStates]
    <3>1. PICK t \in Tasks : turn' = [turn EXCEPT ![u] = [@ EXCEPT !.pc = "attach", !.task = t]]
      BY <1>11 DEF CreateTask
    <3>2. "attach" \in TurnPcs /\ t \in OrNone(Tasks)
      BY DEF TurnPcs, OrNone
    <3> QED  BY <3>1, <3>2 DEF TurnStates
  <2> QED  BY <1>11, <2>1, SetStateType DEF CreateTask, TaskStates
<1>12. CASE AttachAction(u)
  <2>1. action' \in [Tasks -> ActionRows]
    BY <1>12 DEF AttachAction, ActionRow, ActionRows, ActionStatus, OrNone, Kinds
  <2> QED  BY <1>12, <2>1, GotoType DEF AttachAction, TurnPcs
<1>13. CASE MergeSlots(u)
  <2>0. PICK p \in Payloads : /\ slots' = [slots EXCEPT ![turn[u].task] = p]
                              /\ \/ Goto(u, "done")
                                 \/ \E pc \in {"policy", "request"} :
                                      turn' = [turn EXCEPT ![u] = [@ EXCEPT !.pc = pc, !.payload = p,
                                                 !.seen = taskState[turn[u].task]]]
    BY <1>13 DEF MergeSlots
  <2>1. slots' \in [Tasks -> OrNone(Payloads)]
    BY <2>0 DEF OrNone
  <2>2. turn[u].task \in Tasks
    BY <1>13 DEF MergeSlots, Bound
  <2>4. turn \in [Turns -> TurnStates]
    OBVIOUS
  <2>3. turn' \in [Turns -> TurnStates]
    <3>1. ASSUME NEW pc \in {"policy", "request"},
                 turn' = [turn EXCEPT ![u] = [@ EXCEPT !.pc = pc, !.payload = p,
                            !.seen = taskState[turn[u].task]]]
          PROVE  turn' \in [Turns -> TurnStates]
      <4>1. pc \in TurnPcs /\ p \in OrNone(Payloads)
            /\ taskState[turn[u].task] \in TaskStates \cup {"absent"}
        BY <2>2 DEF TurnPcs, OrNone
      <4> HIDE DEF TypeOK
      <4> QED  BY <3>1, <4>1, <2>4 DEF TurnStates
    <3> QED  BY <2>0, <3>1, GotoType DEF TurnPcs
  <2> QED  BY <1>13, <2>1, <2>3 DEF MergeSlots
<1>14. CASE AuthorizeByPolicy(u)
  <2>1. turn[u].task \in Tasks
    BY <1>14 DEF AuthorizeByPolicy, Bound
  <2>2. action' \in [Tasks -> ActionRows]
    <3>1. "approved" \in ActionStatus \cup {"absent"} /\ "user_policy" \in Kinds
      BY DEF ActionStatus, Kinds
    <3>2. CASE action' = action  BY <3>2
    <3>3. CASE action' = [action EXCEPT ![turn[u].task] =
                 [@ EXCEPT !.status = "approved", !.kind = "user_policy",
                           !.hash = slots[turn[u].task]]]
      BY <2>1, <3>1, <3>3 DEF ActionRows
    <3> QED  BY <1>14, <3>2, <3>3 DEF AuthorizeByPolicy
  <2>3. granted' \in SUBSET (OrNone(Tasks) \X OrNone(Payloads))
    BY <1>14, <2>1 DEF AuthorizeByPolicy, OrNone
  <2> QED  BY <1>14, <2>1, <2>2, <2>3, GotoType, SetStateType, EnqueueType
           DEF AuthorizeByPolicy, TurnPcs, TaskStates
<1>15. CASE RequestApproval(u)
  <2>1. turn' \in [Turns -> TurnStates]
    <3>1. PICK a \in Approvals, pc \in {"awaitRead", "prepare"} :
            turn' = [turn EXCEPT ![u] = [@ EXCEPT !.approval = a, !.pc = pc]]
      BY <1>15 DEF RequestApproval
    <3>2. pc \in TurnPcs /\ a \in OrNone(Approvals)
      BY DEF TurnPcs, OrNone
    <3> QED  BY <3>1, <3>2 DEF TurnStates
  <2>2. approval' \in [Approvals -> ApprovalRows]
    BY <1>15 DEF RequestApproval, ApprovalRows, OrNone, TurnStates, ApprovalStatus
  <2> QED  BY <1>15, <2>1, <2>2 DEF RequestApproval
<1>16. CASE AwaitRead(u)
  BY <1>16, GotoType DEF AwaitRead, TurnPcs
<1>17. CASE AwaitWrite(u)
  BY <1>17, GotoType, SetStateType DEF AwaitWrite, TurnPcs, TaskStates, Bound
<1>18. CASE Prepare(u)
  <2>1. action' \in [Tasks -> ActionRows]
    <3>1. turn[u].approval \in OrNone(Approvals) /\ turn[u].payload \in OrNone(Payloads)
      BY DEF TurnStates
    <3>2. CASE action' = action  BY <3>2
    <3>3. CASE action' = [action EXCEPT ![turn[u].task] = [@ EXCEPT !.status = "prepared",
                 !.approval = turn[u].approval,
                 !.hash = turn[u].payload]]
      <4>1. "prepared" \in ActionStatus \cup {"absent"}
        BY DEF ActionStatus
      <4> QED  BY <3>1, <3>3, <4>1 DEF ActionRows
    <3> QED  BY <1>18, <3>2, <3>3 DEF Prepare
  <2> QED  BY <1>18, <2>1, GotoType DEF Prepare, TurnPcs
<1> QED
  BY <1>1, <1>2, <1>3, <1>4, <1>5, <1>6, <1>7, <1>8, <1>9, <1>10, <1>11, <1>12,
     <1>13, <1>14, <1>15, <1>16, <1>17, <1>18 DEF TurnStep

\* Decisions, requests of the owner and the expiry job keep it too.
LEMMA OwnerTypeOK ==
  ASSUME TypeOK, Bound, OwnerStep \/ ClockStep PROVE TypeOK'
<1> USE DEF rows, history, othersOfOwner, TypeOK
<1>1. ASSUME NEW e \in Edits, EditSlots(e) PROVE TypeOK'
  <2>1. edit' \in [Edits -> EditStates]
    <3>1. PICK t \in Existing, pc \in {"slots", "filled"} :
            edit' = [edit EXCEPT ![e] = [@ EXCEPT !.pc = pc, !.task = t]]
      BY <1>1 DEF EditSlots
    <3> QED  BY <3>1 DEF EditStates, EditPcs, OrNone, Existing
  <2>2. slots' \in [Tasks -> OrNone(Payloads)]
    BY <1>1 DEF EditSlots, OrNone
  <2> QED  BY <1>1, <2>1, <2>2 DEF EditSlots
<1>2. ASSUME NEW e \in Edits, EditCheck(e) PROVE TypeOK'
  <2>1. \A t, to : Legal(t, to) => to \in TaskStates
    BY DEF Legal, TaskStates, TRANSITIONS
  <2>2. edit' \in [Edits -> EditStates]
    BY <1>2, <2>1 DEF EditCheck, EditStates, EditPcs, OrNone, Existing
  <2> QED  BY <1>2, <2>2 DEF EditCheck
<1>3. ASSUME NEW e \in Edits, EditWrite(e) PROVE TypeOK'
  <2>1. edit' \in [Edits -> EditStates]
    BY <1>3 DEF EditWrite, DoneEdit, NewEdit, EditStates, EditPcs, OrNone
  <2>2. edit[e].task \in Tasks
    BY <1>3 DEF EditWrite, Bound
  <2>3. edit[e].to \in TaskStates
    BY <1>3 DEF EditWrite, Bound
  <2> QED  BY <1>3, <2>1, <2>2, <2>3, SetStateType DEF EditWrite
<1>4. ASSUME NEW e \in Edits, EditWake(e) PROVE TypeOK'
  <2>1. edit' \in [Edits -> EditStates]
    BY <1>4 DEF EditWake, DoneEdit, NewEdit, EditStates, EditPcs, OrNone
  <2> QED  BY <1>4, <2>1, EnqueueType DEF EditWake, Bound
<1>5. ASSUME NEW a \in Approvals, Lapse(a) PROVE TypeOK'
  BY <1>5 DEF Lapse
<1>6. ASSUME NEW a \in Approvals, NEW approve \in BOOLEAN, Decide(a, approve) PROVE TypeOK'
  <2>1. CASE \E due : ExpireActionsAndCancel(due) /\ UNCHANGED <<wakes, granted, readied>>
    BY <1>6, <2>1, ExpireType DEF Decide
  <2>2. CASE Actionable(a) /\ ~ \E due : ExpireActionsAndCancel(due) /\ UNCHANGED <<wakes, granted, readied>>
    <3> DEFINE t == approval[a].task
    <3>1. t \in Tasks /\ approval[a].hash \in OrNone(Payloads)
      BY <2>2 DEF Actionable, Bound, ApprovalRows
    <3>2. approval' \in [Approvals -> ApprovalRows]
      BY <1>6, <2>2 DEF Decide, ApprovalRows, ApprovalStatus
    <3>3. granted' \in SUBSET (OrNone(Tasks) \X OrNone(Payloads))
      BY <1>6, <2>2, <3>1 DEF Decide, OrNone
    <3> QED  BY <1>6, <2>2, <3>1, <3>2, <3>3, SetStateType, SetActionType, EnqueueType
             DEF Decide, TaskStates, ActionStatus
  <2> QED  BY <1>6, <2>1, <2>2 DEF Decide
<1>7. CASE ExpirePrepared
  BY <1>7, ExpireType DEF ExpirePrepared, ExpireActionsAndCancel
<1>8. CASE ExpireApprovals
  <2>1. approval' \in [Approvals -> ApprovalRows]
    BY <1>8 DEF ExpireApprovals, ApprovalRows, ApprovalStatus
  <2> QED  BY <1>8, <2>1 DEF ExpireApprovals
<1>9. CASE Reconcile
  <2>1. approval' \in [Approvals -> ApprovalRows]
    BY <1>9 DEF Reconcile, ApprovalRows, ApprovalStatus
  <2> QED  BY <1>9, <2>1 DEF Reconcile
<1> QED
  BY <1>1, <1>2, <1>3, <1>4, <1>5, <1>6, <1>7, <1>8, <1>9 DEF EditStep, OwnerStep, ClockStep

\* Every step of a worker, its death included, keeps it.
LEMMA WorkerTypeOK ==
  ASSUME TypeOK, Bound, NEW w \in Workers, WorkerStep(w) \/ WorkerDies(w)
  PROVE  TypeOK'
<1> USE DEF rows, history, othersOfWorker, TypeOK
<1>1. CASE TakeWake(w)
  <2>1. PICK t \in Tasks : /\ wakes[t] > 0
                           /\ wakes' = [wakes EXCEPT ![t] = @ - 1]
                           /\ worker' = [worker EXCEPT ![w] = [@ EXCEPT !.pc = "read", !.task = t]]
    BY <1>1 DEF TakeWake
  <2>2. wakes' \in [Tasks -> Nat]
    BY <2>1
  <2>3. worker' \in [Workers -> WorkerStates]
    <3>1. "read" \in WorkerPcs /\ t \in OrNone(Tasks)
      BY DEF WorkerPcs, OrNone
    <3> QED  BY <2>1, <3>1 DEF WorkerStates
  <2> QED  BY <1>1, <2>2, <2>3 DEF TakeWake
<1>2. CASE ReadTask(w)
  BY <1>2, StepType, IdleType DEF ReadTask, WorkerPcs
<1>3. CASE ReadAction(w)
  <2>1. worker[w].task \in Tasks
    BY <1>3 DEF ReadAction, Bound
  <2>2. PICK k \in Kinds \cup {"none"}, a \in OrNone(Approvals), h \in OrNone(Payloads) :
          worker' = [worker EXCEPT ![w] =
            [@ EXCEPT !.pc = "claim", !.kind = k, !.approval = a, !.hash = h]]
    BY <1>3, <2>1 DEF ReadAction, ActionRows
  <2>4. worker' \in [Workers -> WorkerStates]
    <3>1. "claim" \in WorkerPcs
      BY DEF WorkerPcs
    <3> QED  BY <2>2, <3>1 DEF WorkerStates
  <2> QED  BY <1>3, <2>4 DEF ReadAction
<1>4. CASE Claim(w)
  <2>1. worker[w].task \in Tasks
    BY <1>4 DEF Claim, Bound
  <2>2. CASE ~Claimable(worker[w].task)
    BY <1>4, <2>2, IdleType DEF Claim
  <2>3. CASE Claimable(worker[w].task)
    <3>1. taskState' \in [Tasks -> TaskStates \cup {"absent"}]
      BY <1>4, <2>3 DEF Claim, TaskStates
    <3>2. claimed' \in [Tasks -> Nat]
      BY <1>4, <2>1, <2>3 DEF Claim
    <3>3. PICK p \in OrNone(Payloads), n \in Nat, pc \in {"call", "check"} :
            worker' = [worker EXCEPT ![w] = [@ EXCEPT !.payload = p, !.attempt = n, !.pc = pc]]
      <4>1. /\ slots[worker[w].task] \in OrNone(Payloads)
            /\ claimed[worker[w].task] + 1 \in Nat
        BY <2>1
      <4> QED  BY <1>4, <2>3, <4>1 DEF Claim
    <3>4. worker' \in [Workers -> WorkerStates]
      <4>1. pc \in WorkerPcs
        BY DEF WorkerPcs
      <4> QED  BY <3>3, <4>1 DEF WorkerStates
    <3> QED  BY <1>4, <2>3, <3>1, <3>2, <3>4 DEF Claim
  <2> QED  BY <2>2, <2>3
<1>5. CASE CheckAuthorized(w)
  BY <1>5, StepType DEF CheckAuthorized, WorkerPcs
<1>6. CASE CheckRefused(w)
  <2>1. approval' \in [Approvals -> ApprovalRows]
    BY <1>6 DEF CheckRefused, ApprovalRows, ApprovalStatus
  <2>2. action' \in [Tasks -> ActionRows]
    BY <1>6, SetActionType DEF CheckRefused, ActionStatus
  <2> QED  BY <1>6, <2>1, <2>2, StepType DEF CheckRefused, WorkerPcs
<1>7. CASE MarkExecuting(w)
  BY <1>7, StepType, SetActionType DEF MarkExecuting, WorkerPcs, ActionStatus
<1>8. CASE CallProvider(w)
  <2>1. sent' \in SUBSET Calls
    BY <1>8 DEF CallProvider, Calls, WorkerStates
  <2> QED  BY <1>8, <2>1, StepType DEF CallProvider, WorkerPcs
<1>9. CASE ConfirmRead(w)
  BY <1>9, StepType DEF ConfirmRead, WorkerPcs
<1>10. CASE ConfirmWrite(w)
  BY <1>10, StepType, SetStateType DEF ConfirmWrite, WorkerPcs, TaskStates, Bound
<1>11. CASE FailRead(w)
  BY <1>11, StepType, IdleType, EnqueueType DEF FailRead, WorkerPcs, Bound
<1>12. CASE FailWrite(w)
  BY <1>12, StepType, SetStateType DEF FailWrite, WorkerPcs, TaskStates, Bound
<1>13. CASE Settle(w)
  BY <1>13, IdleType, SetActionType DEF Settle, ActionStatus
<1>14. CASE WorkerDies(w)
  BY <1>14, IdleType DEF WorkerDies
<1> QED
  BY <1>1, <1>2, <1>3, <1>4, <1>5, <1>6, <1>7, <1>8, <1>9, <1>10, <1>11, <1>12,
     <1>13, <1>14 DEF WorkerStep

----------------------------------------------------------------------------
(* What the steps change, as far as the invariant looks. *)

\* What Goto does to the record of a draft call, field by field.
LEMMA GotoEffect ==
  ASSUME turn \in [Turns -> TurnStates], NEW u \in Turns, NEW pc, Goto(u, pc)
  PROVE  /\ turn'[u].pc = pc
         /\ pc # "done" => /\ turn'[u].task = turn[u].task
                           /\ turn'[u].approval = turn[u].approval
         /\ \A v \in Turns : v # u => turn'[v] = turn[v]
  BY DEF Goto, TurnStates, NewTurn

\* What Step does to the record of a worker, field by field.
LEMMA StepEffect ==
  ASSUME worker \in [Workers -> WorkerStates], NEW w \in Workers, NEW pc, Step(w, pc)
  PROVE  /\ worker'[w].pc = pc
         /\ worker'[w].task = worker[w].task
         /\ worker'[w].attempt = worker[w].attempt
         /\ worker'[w].payload = worker[w].payload
         /\ worker'[w].kind = worker[w].kind
         /\ worker'[w].approval = worker[w].approval
         /\ worker'[w].hash = worker[w].hash
         /\ \A v \in Workers : v # w => worker'[v] = worker[v]
  BY DEF Step, WorkerStates

\* What Idle does to the record of a worker, field by field.
LEMMA IdleEffect ==
  ASSUME worker \in [Workers -> WorkerStates], NEW w \in Workers, Idle(w)
  PROVE  /\ worker'[w].pc = "idle"
         /\ worker'[w].kind = "none"
         /\ \A v \in Workers : v # w => worker'[v] = worker[v]
  BY DEF Idle, IdleWorker

\* A request keeps its task and its payload once it is made, it becomes
\* approved only together with a grant, and no grant is taken back.
RequestsKept ==
  /\ granted \subseteq granted'
  /\ \A a, t : Requested(a, t) => Requested(a, t)'
  /\ \A a \in Approvals : approval'[a].status = "approved" =>
       approval'[a] = approval[a] \/ <<approval'[a].task, approval'[a].hash>> \in granted'
  /\ \A a \in Approvals : approval'[a].status # "absent" => approval'[a].task \in Tasks

\* An unchanged approvals table keeps every request.
LEMMA SameApproval ==
  ASSUME Bound, approval' = approval, granted \subseteq granted' PROVE RequestsKept
  BY DEF RequestsKept, Requested, Bound

\* Expiring requests keeps every request.
LEMMA ExpiredApproval ==
  ASSUME Bound, approval \in [Approvals -> ApprovalRows], granted \subseteq granted',
         approval' \in [Approvals -> ApprovalRows],
         \A a \in Approvals :
           \/ approval'[a] = approval[a]
           \/ /\ approval[a].status # "absent"
              /\ approval'[a] = [approval[a] EXCEPT !.status = "expired"]
  PROVE  RequestsKept
  BY DEF RequestsKept, Requested, ApprovalRows, Bound

\* No step of a draft call drops a request or moves it to another task.
LEMMA TurnRequestsKept ==
  ASSUME TypeOK, Bound, NEW u \in Turns, TurnStep(u) PROVE RequestsKept
<1> USE DEF rows, history, TypeOK
<1>1. CASE RetireApproval(u)
  BY <1>1, ExpiredApproval, TurnTypeOK DEF RetireApproval
<1>2. CASE RequestApproval(u)
  <2>1. turn[u].task \in Tasks
    BY <1>2 DEF RequestApproval, Bound
  <2>2. PICK a \in Approvals :
          \/ approval' = approval
          \/ /\ approval[a].status = "absent"
             /\ approval' = [approval EXCEPT ![a] =
                  [status |-> "pending", task |-> turn[u].task, hash |-> turn[u].payload]]
    BY <1>2 DEF RequestApproval
  <2>3. granted' = granted
    BY <1>2 DEF RequestApproval
  <2> QED  BY <2>1, <2>2, <2>3 DEF RequestsKept, Requested, Bound
<1>3. CASE ~ (RetireApproval(u) \/ RequestApproval(u))
  <2>1. approval' = approval /\ granted \subseteq granted'
    BY <1>3 DEF TurnStep, FindDraft, DropDraft, DropRead, DropCheck, DropWrite, FindPrepared,
         RetireAction, RetireRead, RetireWrite, CreateTask, AttachAction, MergeSlots,
         AuthorizeByPolicy, AwaitRead, AwaitWrite, Prepare
  <2> QED  BY <2>1, SameApproval
<1> QED  BY <1>1, <1>2, <1>3

\* Nor does a decision, a request of the owner or an expiry.
LEMMA OwnerRequestsKept ==
  ASSUME TypeOK, Bound, OwnerStep \/ ClockStep PROVE RequestsKept
<1> USE DEF rows, history, TypeOK
<1>1. approval' \in [Approvals -> ApprovalRows]
  BY OwnerTypeOK
<1>2. ASSUME NEW e \in Edits, EditStep(e) PROVE RequestsKept
  BY <1>2, SameApproval DEF EditStep, EditSlots, EditCheck, EditWrite, EditWake
<1>3. ASSUME NEW a \in Approvals, Lapse(a) PROVE RequestsKept
  BY <1>3, SameApproval DEF Lapse
<1>4. ASSUME NEW due, ExpireActionsAndCancel(due), granted' = granted PROVE RequestsKept
  BY <1>1, <1>4, ExpiredApproval DEF ExpireActionsAndCancel
<1>5. CASE ExpireApprovals
  BY <1>1, <1>5, ExpiredApproval DEF ExpireApprovals
<1>6. CASE Reconcile
  BY <1>1, <1>6, ExpiredApproval DEF Reconcile, Stale
<1>7. ASSUME NEW a \in Approvals, NEW approve \in BOOLEAN, Decide(a, approve)
      PROVE  RequestsKept
  <2>1. CASE \E due : ExpireActionsAndCancel(due) /\ UNCHANGED <<wakes, granted, readied>>
    BY <2>1, <1>4
  <2>2. CASE ~ \E due : ExpireActionsAndCancel(due) /\ UNCHANGED <<wakes, granted, readied>>
    <3>1. /\ approval[a].status = "pending"
          /\ approval' = [approval EXCEPT ![a].status = IF approve THEN "approved" ELSE "denied"]
          /\ granted' = IF approve THEN granted \cup {<<approval[a].task, approval[a].hash>>}
                        ELSE granted
      BY <1>7, <2>2 DEF Decide, Actionable
    <3> QED  BY <3>1, <1>7 DEF RequestsKept, Requested, ApprovalRows, Bound
  <2> QED  BY <2>1, <2>2
<1> QED
  BY <1>2, <1>3, <1>4, <1>5, <1>6, <1>7 DEF OwnerStep, ClockStep, ExpirePrepared

\* Nor does a worker.
LEMMA WorkerRequestsKept ==
  ASSUME TypeOK, Bound, NEW w \in Workers, WorkerStep(w) \/ WorkerDies(w) PROVE RequestsKept
<1> USE DEF rows, history, TypeOK
<1>1. CASE CheckRefused(w)
  BY <1>1, ExpiredApproval, WorkerTypeOK DEF CheckRefused
<1>2. CASE ~ CheckRefused(w)
  <2>1. approval' = approval /\ granted' = granted
    BY <1>2 DEF WorkerStep, WorkerDies, TakeWake, ReadTask, ReadAction, Claim, CheckAuthorized,
         MarkExecuting, CallProvider, ConfirmRead, ConfirmWrite, FailRead, FailWrite, Settle
  <2> QED  BY <2>1, SameApproval
<1> QED  BY <1>1, <1>2

\* Every write that makes a task ready is counted.
ReadyCounted ==
  \A t \in Tasks : /\ readied[t] <= readied'[t]
                   /\ taskState'[t] = "ready" =>
                        taskState[t] = "ready" \/ readied[t] < readied'[t]

\* Without a write to tasks.state the count of ready writes stays.
LEMMA SameState ==
  ASSUME TypeOK, UNCHANGED <<taskState, readied>> PROVE ReadyCounted
  BY DEF ReadyCounted, TypeOK

\* Every write that makes a task ready is counted.
LEMMA SetStateCounted ==
  ASSUME TypeOK, NEW t \in Tasks, NEW s, SetState(t, s) PROVE ReadyCounted
  BY DEF ReadyCounted, SetState, TypeOK

\* What an action row may become in a step that reports no outcome.
RowKept(t) ==
  /\ action'[t].kind = action[t].kind
  /\ action'[t].approval = action[t].approval
  /\ action'[t].hash = action[t].hash
  /\ action'[t].status = action[t].status \/ action'[t].status \notin {"collecting", "succeeded"}

\* ... and what the steps that prepare, authorise or settle an action make of it.
RowPrepared(t, u) ==
  /\ action[t].status = "collecting" /\ action'[t].status = "prepared"
  /\ action'[t].kind = action[t].kind
  /\ action'[t].approval = turn[u].approval

RowAuthorized(t) ==
  /\ action'[t].status = "approved"
  /\ action'[t].approval = action[t].approval
  /\ <<t, action'[t].hash>> \in granted'

RowSucceeded(t) ==
  /\ action'[t].status = "succeeded"
  /\ action'[t].kind = action[t].kind
  /\ action'[t].approval = action[t].approval
  /\ action'[t].hash = action[t].hash

Asking == {"awaitRead", "awaitWrite", "prepare"}

TurnEffect(u) ==
  /\ UNCHANGED <<edit, worker, crashes, claimed, sent>>
  /\ \A v \in Turns : v # u => turn'[v] = turn[v]
  /\ turn'[u].pc \notin {"new", "look", "create", "done"} => turn'[u].task \in Tasks
  /\ turn'[u].pc \in Asking =>
       \/ /\ turn[u].pc \in Asking
          /\ turn'[u].task = turn[u].task
          /\ turn'[u].approval = turn[u].approval
       \/ Requested(turn[u].approval, turn[u].task)'
  /\ \A t \in Tasks :
       \/ RowKept(t)
       \/ action'[t] = ActionRow("collecting")
       \/ turn[u].pc = "prepare" /\ turn[u].task = t /\ RowPrepared(t, u)
       \/ RowAuthorized(t)

\* What the steps of a draft call leave alone, column by column.
LEMMA TurnEffects ==
  ASSUME TypeOK, Bound, NEW u \in Turns, TurnStep(u) PROVE TurnEffect(u)
<1> USE DEF rows, history, othersOfTurn, TypeOK, TurnEffect, Asking
<1>0. UNCHANGED action => \A t \in Tasks : RowKept(t)
  BY DEF RowKept
<1>00. ASSUME NEW s, SetAction(turn[u].task, s), s \notin {"collecting", "succeeded"}
       PROVE  \A t \in Tasks : RowKept(t)
  BY <1>00 DEF RowKept, SetAction, ActionRows
<1>1. CASE FindDraft(u)
  <2>1. CASE Goto(u, "look")
    BY <1>0, <1>1, <2>1, GotoEffect DEF FindDraft
  <2>2. ASSUME NEW t \in Tasks, NEW pc \in {"merge", "drop"},
               turn' = [turn EXCEPT ![u] = [@ EXCEPT !.pc = pc, !.task = t]]
        PROVE  TurnEffect(u)
    <3>1. turn'[u].pc = pc /\ turn'[u].task = t /\ \A v \in Turns : v # u => turn'[v] = turn[v]
      BY <2>2 DEF TurnStates
    <3> QED  BY <1>0, <1>1, <3>1 DEF FindDraft
  <2> QED  BY <1>1, <2>1, <2>2 DEF FindDraft
<1>2. CASE DropDraft(u)
  <2>1. \A t \in Tasks : RowKept(t)
    BY <1>0, <1>00, <1>2 DEF DropDraft
  <2> QED  BY <1>2, <2>1, GotoEffect DEF DropDraft, Bound
<1>3. CASE DropRead(u)
  BY <1>0, <1>3, GotoEffect DEF DropRead, Bound
<1>4. CASE DropCheck(u)
  BY <1>0, <1>4, GotoEffect DEF DropCheck, Bound
<1>5. CASE DropWrite(u)
  BY <1>0, <1>5, GotoEffect DEF DropWrite, Bound
<1>6. CASE FindPrepared(u)
  <2>1. ASSUME NEW pc \in {"done", "create"}, Goto(u, pc) PROVE TurnEffect(u)
    BY <1>0, <1>6, <2>1, GotoEffect DEF FindPrepared
  <2>2. ASSUME NEW t \in Tasks,
               turn' = [turn EXCEPT ![u] = [@ EXCEPT !.pc = "retire", !.task = t,
                          !.approval = action[t].approval, !.seen = taskState[t]]]
        PROVE  TurnEffect(u)
    <3>1. turn'[u].pc = "retire" /\ turn'[u].task = t
          /\ \A v \in Turns : v # u => turn'[v] = turn[v]
      BY <2>2 DEF TurnStates
    <3> QED  BY <1>0, <1>6, <3>1 DEF FindPrepared
  <2> QED  BY <1>6, <2>1, <2>2 DEF FindPrepared
<1>7. CASE RetireAction(u)
  <2>1. \A t \in Tasks : RowKept(t)
    BY <1>0, <1>00, <1>7 DEF RetireAction
  <2> QED  BY <1>7, <2>1, GotoEffect DEF RetireAction, Bound
<1>8. CASE RetireApproval(u)
  BY <1>0, <1>8, GotoEffect DEF RetireApproval, Bound
<1>9. CASE RetireRead(u)
  BY <1>0, <1>9, GotoEffect DEF RetireRead, Bound
<1>10. CASE RetireWrite(u)
  BY <1>0, <1>10, GotoEffect DEF RetireWrite, Bound
<1>11. CASE CreateTask(u)
  <2>1. PICK t \in Tasks : turn' = [turn EXCEPT ![u] = [@ EXCEPT !.pc = "attach", !.task = t]]
    BY <1>11 DEF CreateTask
  <2>2. turn'[u].pc = "attach" /\ turn'[u].task = t
        /\ \A v \in Turns : v # u => turn'[v] = turn[v]
    BY <2>1 DEF TurnStates
  <2> QED  BY <1>0, <1>11, <2>2 DEF CreateTask
<1>12. CASE AttachAction(u)
  <2>1. \A t \in Tasks : RowKept(t) \/ action'[t] = ActionRow("collecting")
    BY <1>0, <1>12 DEF AttachAction, RowKept
  <2> QED  BY <1>12, <2>1, GotoEffect DEF AttachAction, Bound
<1>13. CASE MergeSlots(u)
  <2>1. CASE Goto(u, "done")
    BY <1>0, <1>13, <2>1, GotoEffect DEF MergeSlots
  <2>2. ASSUME NEW p \in Payloads, NEW pc \in {"policy", "request"},
               turn' = [turn EXCEPT ![u] =
                 [@ EXCEPT !.pc = pc, !.payload = p, !.seen = taskState[turn[u].task]]]
        PROVE  TurnEffect(u)
    <3>1. turn'[u].pc = pc /\ turn'[u].task = turn[u].task
          /\ \A v \in Turns : v # u => turn'[v] = turn[v]
      BY <2>2 DEF TurnStates
    <3> QED  BY <1>0, <1>13, <3>1 DEF MergeSlots, Bound
  <2> QED  BY <1>13, <2>1, <2>2 DEF MergeSlots
<1>14. CASE AuthorizeByPolicy(u)
  <2>1. CASE UNCHANGED action
    BY <1>0, <1>14, <2>1, GotoEffect DEF AuthorizeByPolicy
  <2>2. CASE /\ action' = [action EXCEPT ![turn[u].task] =
                  [@ EXCEPT !.status = "approved", !.kind = "user_policy",
                            !.hash = slots[turn[u].task]]]
             /\ granted' = granted \cup {<<turn[u].task, slots[turn[u].task]>>}
    <3>1. \A t \in Tasks : RowKept(t) \/ RowAuthorized(t)
      BY <2>2 DEF RowKept, RowAuthorized, ActionRows
    <3> QED  BY <1>14, <3>1, GotoEffect DEF AuthorizeByPolicy
  <2> QED  BY <1>14, <2>1, <2>2 DEF AuthorizeByPolicy
<1>15. CASE RequestApproval(u)
  <2>1. PICK a \in Approvals :
          /\ Requested(a, turn[u].task)'
          /\ turn'[u].approval = a
          /\ turn'[u].task = turn[u].task
    BY <1>15 DEF RequestApproval, Requested, TurnStates, ApprovalRows
  <2>2. \A v \in Turns : v # u => turn'[v] = turn[v]
    BY <1>15 DEF RequestApproval
  <2> QED  BY <1>0, <1>15, <2>1, <2>2 DEF RequestApproval, Bound
<1>16. CASE AwaitRead(u)
  BY <1>0, <1>16, GotoEffect DEF AwaitRead, Bound
<1>17. CASE AwaitWrite(u)
  BY <1>0, <1>17, GotoEffect DEF AwaitWrite, Bound
<1>18. CASE Prepare(u)
  <2>1. \A t \in Tasks : RowKept(t) \/ (turn[u].task = t /\ RowPrepared(t, u))
    <3>1. CASE UNCHANGED action  BY <1>0, <3>1
    <3>2. ASSUME NEW t \in Tasks, action[turn[u].task].status = "collecting",
                 action' = [action EXCEPT ![turn[u].task] =
                   [@ EXCEPT !.status = "prepared", !.approval = turn[u].approval,
                             !.hash = turn[u].payload]]
          PROVE  RowKept(t) \/ (turn[u].task = t /\ RowPrepared(t, u))
      <4>1. CASE t # turn[u].task  BY <3>2, <4>1 DEF RowKept
      <4>2. CASE t = turn[u].task
        <5>1. action[t] \in ActionRows  OBVIOUS
        <5>2. action'[t] = [action[t] EXCEPT !.status = "prepared",
                              !.approval = turn[u].approval, !.hash = turn[u].payload]
          BY <3>2, <4>2
        <5> QED  BY <3>2, <4>2, <5>1, <5>2 DEF RowPrepared, ActionRows
      <4> QED  BY <4>1, <4>2
    <3> QED  BY <1>18, <3>1, <3>2 DEF Prepare
  <2> QED  BY <1>18, <2>1, GotoEffect DEF Prepare
<1> QED
  BY <1>1, <1>2, <1>3, <1>4, <1>5, <1>6, <1>7, <1>8, <1>9, <1>10, <1>11, <1>12,
     <1>13, <1>14, <1>15, <1>16, <1>17, <1>18 DEF TurnStep

\* What a decision, a request of the owner, or the clock changes.
OwnerEffect ==
  /\ UNCHANGED <<turn, worker, crashes, claimed, sent>>
  /\ \A e \in Edits : edit'[e].pc \notin {"new", "done"} => edit'[e].task \in Tasks
  /\ \A e \in Edits : edit'[e].pc \in {"write", "writeOnly"} => edit'[e].to \in TaskStates
  /\ \A t \in Tasks : RowKept(t)
  /\ ReadyCounted

\* What decisions, requests of the owner and expiries leave alone.
LEMMA OwnerEffects ==
  ASSUME TypeOK, Bound, OwnerStep \/ ClockStep PROVE OwnerEffect
<1> USE DEF rows, history, othersOfOwner, OwnerEffect
<1>0. UNCHANGED action => \A t \in Tasks : RowKept(t)
  BY DEF RowKept
<1>00. UNCHANGED edit =>
         /\ \A e \in Edits : edit'[e].pc \notin {"new", "done"} => edit'[e].task \in Tasks
         /\ \A e \in Edits : edit'[e].pc \in {"write", "writeOnly"} => edit'[e].to \in TaskStates
  BY DEF Bound
<1>1. ASSUME NEW e \in Edits, EditSlots(e) PROVE OwnerEffect
  <2>1. PICK t \in Tasks, pc \in {"slots", "filled"} :
          edit' = [edit EXCEPT ![e] = [@ EXCEPT !.pc = pc, !.task = t]]
    BY <1>1 DEF EditSlots, Existing
  <2>2. edit'[e].pc = pc /\ edit'[e].task = t /\ \A f \in Edits : f # e => edit'[f] = edit[f]
    BY <2>1 DEF TypeOK, EditStates
  <2> QED  BY <1>0, <1>1, <2>2, SameState DEF EditSlots, Bound
<1>2. ASSUME NEW e \in Edits, EditCheck(e) PROVE OwnerEffect
  <2>1. \A t, to : Legal(t, to) => to \in TaskStates
    BY DEF Legal, TaskStates, TRANSITIONS
  <2>2. PICK t \in Tasks, to \in TaskStates, pc \in {"write", "writeOnly"} :
          edit' = [edit EXCEPT ![e] = [pc |-> pc, task |-> t, to |-> to]]
    BY <1>2, <2>1 DEF EditCheck, Existing
  <2> QED  BY <1>0, <1>2, <2>2, SameState DEF EditCheck, Bound, TypeOK
<1>3. ASSUME NEW e \in Edits, EditWrite(e) PROVE OwnerEffect
  <2>1. edit[e].task \in Tasks
    BY <1>3 DEF EditWrite, Bound
  <2>2. ReadyCounted
    BY <1>3, <2>1, SetStateCounted DEF EditWrite
  <2>3. /\ edit'[e].pc \in {"wake", "done"}
        /\ edit'[e].pc = "wake" => edit'[e].task = edit[e].task
        /\ \A f \in Edits : f # e => edit'[f] = edit[f]
    BY <1>3 DEF EditWrite, DoneEdit, NewEdit, TypeOK, EditStates
  <2> QED  BY <1>0, <1>3, <2>1, <2>2, <2>3 DEF EditWrite, Bound
<1>4. ASSUME NEW e \in Edits, EditWake(e) PROVE OwnerEffect
  <2>1. edit'[e].pc = "done" /\ \A f \in Edits : f # e => edit'[f] = edit[f]
    BY <1>4 DEF EditWake, DoneEdit, NewEdit, TypeOK, EditStates
  <2> QED  BY <1>0, <1>4, <2>1, SameState DEF EditWake, Bound
<1>5. ASSUME NEW a \in Approvals, Lapse(a) PROVE OwnerEffect
  BY <1>0, <1>00, <1>5, SameState DEF Lapse
<1>6. ASSUME NEW due, ExpireActionsAndCancel(due), readied' = readied
      PROVE  (\A t \in Tasks : RowKept(t)) /\ ReadyCounted
  <2>1. \A t \in Tasks : RowKept(t)
    BY <1>6 DEF ExpireActionsAndCancel, RowKept, TypeOK, ActionRows
  <2>2. ReadyCounted
    BY <1>6 DEF ExpireActionsAndCancel, ReadyCounted, TypeOK
  <2> QED  BY <2>1, <2>2
<1>7. CASE ExpirePrepared
  BY <1>00, <1>6, <1>7 DEF ExpirePrepared
<1>8. CASE ExpireApprovals
  BY <1>0, <1>00, <1>8, SameState DEF ExpireApprovals
<1>9. CASE Reconcile
  BY <1>0, <1>00, <1>9, SameState DEF Reconcile
<1>10. ASSUME NEW a \in Approvals, NEW approve \in BOOLEAN, Decide(a, approve)
       PROVE  OwnerEffect
  <2>1. UNCHANGED <<edit, turn, worker, crashes, claimed, sent>>
    BY <1>10 DEF Decide
  <2>2. CASE \E due : ExpireActionsAndCancel(due) /\ UNCHANGED <<wakes, granted, readied>>
    BY <1>00, <1>6, <2>1, <2>2
  <2>3. CASE ~ \E due : ExpireActionsAndCancel(due) /\ UNCHANGED <<wakes, granted, readied>>
    <3>1. approval[a].task \in Tasks
      BY <1>10 DEF Decide, Bound
    <3>2. \E s \in {"approved", "denied"} : SetAction(approval[a].task, s)
      BY <1>10, <2>3 DEF Decide
    <3>3. \E s : SetState(approval[a].task, s)
      BY <1>10, <2>3 DEF Decide
    <3>4. \A t \in Tasks : RowKept(t)
      BY <3>1, <3>2 DEF SetAction, RowKept, TypeOK, ActionRows
    <3>5. ReadyCounted
      BY <3>1, <3>3, SetStateCounted
    <3> QED  BY <1>00, <2>1, <3>4, <3>5
  <2> QED  BY <2>2, <2>3
<1> QED
  BY <1>1, <1>2, <1>3, <1>4, <1>5, <1>7, <1>8, <1>9, <1>10
  DEF EditStep, OwnerStep, ClockStep

\* A draft call counts every write that makes a task ready.
LEMMA TurnReadyCounted ==
  ASSUME TypeOK, Bound, NEW u \in Turns, TurnStep(u) PROVE ReadyCounted
<1> USE DEF rows, history
<1>1. CASE DropWrite(u)
  BY <1>1, SetStateCounted DEF DropWrite, Bound
<1>2. CASE RetireWrite(u)
  BY <1>2, SetStateCounted DEF RetireWrite, Bound
<1>3. CASE CreateTask(u)
  BY <1>3, SetStateCounted DEF CreateTask
<1>4. CASE AuthorizeByPolicy(u)
  BY <1>4, SetStateCounted, SameState DEF AuthorizeByPolicy, Bound
<1>5. CASE AwaitWrite(u)
  BY <1>5, SetStateCounted DEF AwaitWrite, Bound
<1>6. CASE ~ (DropWrite(u) \/ RetireWrite(u) \/ CreateTask(u) \/ AuthorizeByPolicy(u) \/ AwaitWrite(u))
  <2>1. UNCHANGED <<taskState, readied>>
    BY <1>6 DEF TurnStep, FindDraft, DropDraft, DropRead, DropCheck, FindPrepared, RetireAction,
         RetireApproval, RetireRead, AttachAction, MergeSlots, RequestApproval, AwaitRead, Prepare
  <2> QED  BY <2>1, SameState
<1> QED  BY <1>1, <1>2, <1>3, <1>4, <1>5, <1>6

\* What a step of a worker, or its death, changes.
Reporting == {"confirmRead", "confirmWrite", "settleSucceeded"}

WorkerEffect(w) ==
  /\ UNCHANGED <<turn, edit>>
  /\ \A v \in Workers : v # w => worker'[v] = worker[v]
  /\ worker'[w].pc # "idle" => worker'[w].task \in Tasks
  /\ \A t \in Tasks :
       \/ RowKept(t)
       \/ worker[w].pc = "settleSucceeded" /\ worker[w].task = t /\ RowSucceeded(t)
  /\ ReadyCounted

\* What the steps of a worker leave alone, column by column.
LEMMA WorkerEffects ==
  ASSUME TypeOK, Bound, NEW w \in Workers, WorkerStep(w) \/ WorkerDies(w)
  PROVE  WorkerEffect(w)
<1> USE DEF rows, history, othersOfWorker, WorkerEffect
<1>0. UNCHANGED action => \A t \in Tasks : RowKept(t)
  BY DEF RowKept
<1>00. ASSUME NEW s, SetAction(worker[w].task, s), s \notin {"collecting", "succeeded"}
       PROVE  \A t \in Tasks : RowKept(t)
  BY <1>00 DEF RowKept, SetAction, TypeOK, ActionRows
<1>1. worker \in [Workers -> WorkerStates]
  BY DEF TypeOK
<1>2. worker[w].pc # "idle" => worker[w].task \in Tasks
  BY DEF Bound
<1>3. CASE TakeWake(w)
  <2>1. PICK t \in Tasks : worker' = [worker EXCEPT ![w] = [@ EXCEPT !.pc = "read", !.task = t]]
    BY <1>3 DEF TakeWake
  <2>2. worker'[w].task = t /\ \A v \in Workers : v # w => worker'[v] = worker[v]
    BY <1>1, <2>1 DEF WorkerStates
  <2> QED  BY <1>0, <1>3, <2>2, SameState DEF TakeWake
<1>4. CASE ReadTask(w)
  BY <1>0, <1>1, <1>2, <1>4, StepEffect, IdleEffect, SameState DEF ReadTask
<1>5. CASE ReadAction(w)
  <2>1. worker'[w].task = worker[w].task /\ \A v \in Workers : v # w => worker'[v] = worker[v]
    BY <1>1, <1>5 DEF ReadAction, WorkerStates
  <2> QED  BY <1>0, <1>2, <1>5, <2>1, SameState DEF ReadAction
<1>6. CASE Claim(w)
  <2>1. ReadyCounted
    BY <1>2, <1>6 DEF Claim, ReadyCounted, TypeOK
  <2>2. /\ \A v \in Workers : v # w => worker'[v] = worker[v]
        /\ worker'[w].pc # "idle" => worker'[w].task = worker[w].task
    BY <1>1, <1>6, IdleEffect DEF Claim, WorkerStates
  <2> QED  BY <1>0, <1>2, <1>6, <2>1, <2>2 DEF Claim
<1>7. CASE CheckAuthorized(w)
  BY <1>0, <1>1, <1>2, <1>7, StepEffect, SameState DEF CheckAuthorized
<1>8. CASE CheckRefused(w)
  <2>1. \A t \in Tasks : RowKept(t)
    BY <1>0, <1>00, <1>8 DEF CheckRefused
  <2> QED  BY <1>1, <1>2, <1>8, <2>1, StepEffect, SameState DEF CheckRefused
<1>9. CASE MarkExecuting(w)
  <2>1. \A t \in Tasks : RowKept(t)
    BY <1>0, <1>00, <1>9 DEF MarkExecuting
  <2> QED  BY <1>1, <1>2, <1>9, <2>1, StepEffect, SameState DEF MarkExecuting
<1>10. CASE CallProvider(w)
  <2>1. \E pc \in WorkerPcs : Step(w, pc)
    BY <1>10 DEF CallProvider, WorkerPcs
  <2> QED  BY <1>0, <1>1, <1>2, <1>10, <2>1, StepEffect, SameState DEF CallProvider
<1>11. CASE ConfirmRead(w)
  BY <1>0, <1>1, <1>2, <1>11, StepEffect, SameState DEF ConfirmRead
<1>12. CASE ConfirmWrite(w)
  BY <1>0, <1>1, <1>2, <1>12, StepEffect, SetStateCounted DEF ConfirmWrite
<1>13. CASE FailRead(w)
  BY <1>0, <1>1, <1>2, <1>13, StepEffect, IdleEffect, SameState DEF FailRead
<1>14. CASE FailWrite(w)
  BY <1>0, <1>1, <1>2, <1>14, StepEffect, SetStateCounted DEF FailWrite
<1>15. CASE Settle(w)
  <2>1. \A t \in Tasks :
          \/ RowKept(t)
          \/ worker[w].pc = "settleSucceeded" /\ worker[w].task = t /\ RowSucceeded(t)
    <3>1. CASE UNCHANGED action  BY <1>0, <3>1
    <3>2. CASE SetAction(worker[w].task, "failed")  BY <1>00, <3>2
    <3>3. CASE worker[w].pc = "settleSucceeded" /\ SetAction(worker[w].task, "succeeded")
      BY <3>3 DEF SetAction, RowKept, RowSucceeded, TypeOK, ActionRows
    <3> QED  BY <1>15, <3>1, <3>2, <3>3 DEF Settle
  <2> QED  BY <1>1, <1>15, <2>1, IdleEffect, SameState DEF Settle
<1>16. CASE WorkerDies(w)
  BY <1>0, <1>1, <1>16, IdleEffect, SameState DEF WorkerDies
<1> QED
  BY <1>3, <1>4, <1>5, <1>6, <1>7, <1>8, <1>9, <1>10, <1>11, <1>12, <1>13, <1>14,
     <1>15, <1>16 DEF WorkerStep

\* A claim takes the next number, and only from a ready task.
LEMMA ClaimEffect ==
  ASSUME TypeOK, NEW w \in Workers, Claim(w), Claimable(worker[w].task)
  PROVE  /\ worker'[w].pc = IF worker[w].kind = "none" THEN "call" ELSE "check"
         /\ worker'[w].payload = slots[worker[w].task]
         /\ worker'[w].attempt = claimed[worker[w].task] + 1
         /\ worker'[w].task = worker[w].task
         /\ worker'[w].kind = worker[w].kind
         /\ worker'[w].approval = worker[w].approval
         /\ worker'[w].hash = worker[w].hash
<1> DEFINE pc == IF worker[w].kind = "none" THEN "call" ELSE "check"
           r == [worker[w] EXCEPT !.payload = slots[worker[w].task],
                   !.attempt = claimed[worker[w].task] + 1, !.pc = pc]
<1>1. worker'[w] = r
  BY DEF Claim, TypeOK
<1>2. worker[w] \in WorkerStates
  BY DEF TypeOK
<1> HIDE DEF pc
<1>3. /\ r.pc = pc /\ r.payload = slots[worker[w].task]
      /\ r.attempt = claimed[worker[w].task] + 1
      /\ r.task = worker[w].task /\ r.kind = worker[w].kind
      /\ r.approval = worker[w].approval /\ r.hash = worker[w].hash
  BY <1>2 DEF WorkerStates
<1> QED  BY <1>1, <1>3 DEF pc

\* A worker copies the action row as it stands.
LEMMA ReadActionEffect ==
  ASSUME TypeOK, NEW w \in Workers, ReadAction(w)
  PROVE  LET t == worker[w].task IN
         /\ worker'[w].task = t
         /\ worker'[w].kind = IF action[t].status = "absent" THEN "none" ELSE action[t].kind
         /\ worker'[w].approval = action[t].approval
         /\ worker'[w].hash = action[t].hash
<1> DEFINE t == worker[w].task
           k == IF action[t].status = "absent" THEN "none" ELSE action[t].kind
           r == [worker[w] EXCEPT !.pc = "claim", !.kind = k,
                   !.approval = action[t].approval, !.hash = action[t].hash]
<1>1. worker'[w] = r
  BY DEF ReadAction, TypeOK
<1>2. worker[w] \in WorkerStates
  BY DEF TypeOK
<1> HIDE DEF k
<1>3. /\ r.task = t /\ r.kind = k
      /\ r.approval = action[t].approval /\ r.hash = action[t].hash
  BY <1>2 DEF WorkerStates
<1> QED  BY <1>1, <1>3 DEF k

\* Where a worker stands after a step decides what the invariant asks of it.
LEMMA WorkerMoves ==
  ASSUME TypeOK, NEW w \in Workers, WorkerStep(w) \/ WorkerDies(w)
  PROVE  /\ worker'[w].pc = "claim" => ReadAction(w)
         /\ worker'[w].pc = "check" => Claim(w)
         /\ worker'[w].pc = "mark" => CheckAuthorized(w)
         /\ worker'[w].pc = "call" => Claim(w) \/ MarkExecuting(w)
         /\ worker'[w].pc \in Reporting =>
              CallProvider(w) \/ ConfirmRead(w) \/ ConfirmWrite(w)
<1>1. worker \in [Workers -> WorkerStates]
  BY DEF TypeOK
<1>2. TakeWake(w) => worker'[w].pc = "read"
  BY <1>1 DEF TakeWake, WorkerStates
<1>3. ReadAction(w) => worker'[w].pc = "claim"
  BY <1>1 DEF ReadAction, WorkerStates
<1>4. Claim(w) => worker'[w].pc \in {"idle", "check", "call"}
  BY <1>1, IdleEffect, ClaimEffect DEF Claim
<1>5. ReadTask(w) => worker'[w].pc \in {"idle", "readAction"}
  BY <1>1, StepEffect, IdleEffect DEF ReadTask
<1>6. CheckAuthorized(w) => worker'[w].pc = "mark"
  BY <1>1, StepEffect DEF CheckAuthorized
<1>7. CheckRefused(w) => worker'[w].pc = "failRead"
  BY <1>1, StepEffect DEF CheckRefused
<1>8. MarkExecuting(w) => worker'[w].pc = "call"
  BY <1>1, StepEffect DEF MarkExecuting
<1>9. CallProvider(w) => worker'[w].pc \in {"confirmRead", "failRead"}
  BY <1>1, StepEffect DEF CallProvider
<1>10. ConfirmRead(w) => worker'[w].pc \in {"confirmWrite", "failRead"}
  BY <1>1, StepEffect DEF ConfirmRead
<1>11. ConfirmWrite(w) => worker'[w].pc = "settleSucceeded"
  BY <1>1, StepEffect DEF ConfirmWrite
<1>12. FailRead(w) => worker'[w].pc \in {"idle", "failWrite"}
  BY <1>1, StepEffect, IdleEffect DEF FailRead
<1>13. FailWrite(w) => worker'[w].pc = "settleFailed"
  BY <1>1, StepEffect DEF FailWrite
<1>14. Settle(w) \/ WorkerDies(w) => worker'[w].pc = "idle"
  BY <1>1, IdleEffect DEF Settle, WorkerDies
<1> QED
  BY <1>2, <1>3, <1>4, <1>5, <1>6, <1>7, <1>8, <1>9, <1>10, <1>11, <1>12, <1>13, <1>14
  DEF WorkerStep, Reporting

----------------------------------------------------------------------------
(* The invariant is kept, part by part. *)

\* Every step keeps the processes bound to rows that exist.
LEMMA BoundKept ==
  ASSUME TypeOK, Bound, Next PROVE Bound'
<1>1. ASSUME NEW u \in Turns, TurnStep(u) PROVE Bound'
  BY <1>1, TurnEffects, TurnRequestsKept DEF TurnEffect, Bound, RequestsKept
<1>2. ASSUME OwnerStep \/ ClockStep PROVE Bound'
  BY <1>2, OwnerEffects, OwnerRequestsKept DEF OwnerEffect, Bound, RequestsKept
<1>3. ASSUME NEW w \in Workers, WorkerStep(w) \/ WorkerDies(w) PROVE Bound'
  BY <1>3, WorkerEffects, WorkerRequestsKept DEF WorkerEffect, Bound, RequestsKept
<1> QED  BY <1>1, <1>2, <1>3 DEF Next

\* Every step keeps each approval id beside the task it was asked for.
LEMMA ApprovalsMatchKept ==
  ASSUME TypeOK, Bound, ApprovalsMatch, Next PROVE ApprovalsMatch'
<1>1. ASSUME NEW u \in Turns, TurnStep(u) PROVE ApprovalsMatch'
  <2>1. TurnEffect(u) /\ RequestsKept
    BY <1>1, TurnEffects, TurnRequestsKept
  <2>2. ASSUME NEW t \in Tasks, action'[t].approval # None
        PROVE  Requested(action[t].approval, t)'
    <3>2. \/ action'[t].approval = action[t].approval
          \/ /\ turn[u].pc = "prepare" /\ turn[u].task = t
             /\ action'[t].approval = turn[u].approval
      <4>1. ActionRow("collecting").approval = None
        BY DEF ActionRow
      <4>2. \/ RowKept(t) \/ action'[t] = ActionRow("collecting") \/ RowAuthorized(t)
            \/ turn[u].pc = "prepare" /\ turn[u].task = t /\ RowPrepared(t, u)
        BY <2>1 DEF TurnEffect
      <4> QED  BY <2>2, <4>1, <4>2 DEF RowKept, RowPrepared, RowAuthorized
    <3> QED  BY <2>1, <2>2, <3>2 DEF ApprovalsMatch, RequestsKept, Requested
  <2>3. ASSUME NEW v \in Turns, turn'[v].pc \in Asking
        PROVE  Requested(turn[v].approval, turn[v].task)'
    <3>1. \/ /\ turn[v].pc \in Asking
             /\ turn'[v].approval = turn[v].approval /\ turn'[v].task = turn[v].task
          \/ Requested(turn[u].approval, turn[u].task)' /\ v = u
      BY <2>1, <2>3 DEF TurnEffect
    <3>2. CASE /\ turn[v].pc \in Asking
               /\ turn'[v].approval = turn[v].approval /\ turn'[v].task = turn[v].task
      BY <2>1, <3>2 DEF ApprovalsMatch, RequestsKept, Asking, Requested
    <3> QED  BY <3>1, <3>2
  <2>4. ASSUME NEW w \in Workers, worker'[w].pc \in {"claim", "check"},
               worker'[w].approval # None
        PROVE  Requested(worker[w].approval, worker[w].task)'
    <3>1. worker' = worker
      BY <2>1 DEF TurnEffect
    <3>2. Requested(worker[w].approval, worker[w].task)
      BY <2>4, <3>1 DEF ApprovalsMatch
    <3> QED  BY <2>1, <3>1, <3>2 DEF RequestsKept, Requested
  <2> QED  BY <2>2, <2>3, <2>4 DEF ApprovalsMatch, Asking
<1>2. ASSUME OwnerStep \/ ClockStep PROVE ApprovalsMatch'
  BY <1>2, OwnerEffects, OwnerRequestsKept
  DEF OwnerEffect, RowKept, ApprovalsMatch, RequestsKept, Requested
<1>3. ASSUME NEW w \in Workers, WorkerStep(w) \/ WorkerDies(w) PROVE ApprovalsMatch'
  <2>1. WorkerEffect(w) /\ RequestsKept
    BY <1>3, WorkerEffects, WorkerRequestsKept
  <2>2. ASSUME NEW t \in Tasks, action'[t].approval # None
        PROVE  Requested(action[t].approval, t)'
    <3>1. action'[t].approval = action[t].approval
      BY <2>1 DEF WorkerEffect, RowKept, RowSucceeded
    <3> QED  BY <2>1, <2>2, <3>1 DEF ApprovalsMatch, RequestsKept, Requested
  <2>3. \A u \in Turns : turn'[u].pc \in Asking => Requested(turn[u].approval, turn[u].task)'
    BY <2>1 DEF WorkerEffect, ApprovalsMatch, RequestsKept, Requested, Asking
  <2>4. ASSUME NEW v \in Workers, worker'[v].pc \in {"claim", "check"},
               worker'[v].approval # None
        PROVE  Requested(worker[v].approval, worker[v].task)'
    <3>1. CASE v # w
      BY <2>1, <2>4, <3>1 DEF WorkerEffect, ApprovalsMatch, RequestsKept, Requested
    <3>2. CASE v = w /\ worker'[w].pc = "claim"
      <4> DEFINE t == worker[w].task
      <4>1. ReadAction(w)
        BY <1>3, <3>2, WorkerMoves
      <4>2. t \in Tasks
        BY <4>1 DEF ReadAction, Bound
      <4>3. worker'[w].task = t /\ worker'[w].approval = action[t].approval
        BY <4>1, ReadActionEffect
      <4>4. Requested(action[t].approval, t)
        BY <2>4, <3>2, <4>2, <4>3 DEF ApprovalsMatch
      <4> QED  BY <2>1, <3>2, <4>3, <4>4 DEF RequestsKept, Requested
    <3>3. CASE v = w /\ worker'[w].pc = "check"
      <4>1. Claim(w)
        BY <1>3, <3>3, WorkerMoves
      <4>2. Claimable(worker[w].task)
        BY <3>3, <4>1, IdleEffect DEF Claim, TypeOK
      <4>3. worker[w].pc = "claim"
        BY <4>1 DEF Claim
      <4> QED  BY <2>1, <2>4, <3>3, <4>1, <4>2, <4>3, ClaimEffect
               DEF ApprovalsMatch, RequestsKept, Requested
    <3> QED  BY <2>4, <3>1, <3>2, <3>3
  <2> QED  BY <2>2, <2>3, <2>4 DEF ApprovalsMatch, Asking
<1> QED  BY <1>1, <1>2, <1>3 DEF Next

\* Every step keeps each authorisation backed by a recorded grant.
LEMMA GrantsRecordedKept ==
  ASSUME TypeOK, Bound, ApprovalsMatch, GrantsRecorded, Next PROVE GrantsRecorded'
<1>1. ASSUME RequestsKept, NEW a \in Approvals, approval'[a].status = "approved"
      PROVE  <<approval'[a].task, approval'[a].hash>> \in granted'
  BY <1>1 DEF GrantsRecorded, RequestsKept
<1>2. ASSUME RequestsKept, NEW t \in Tasks, RowKept(t), action'[t].kind = "user_policy"
      PROVE  action'[t].status # "collecting" /\ <<t, action'[t].hash>> \in granted'
  BY <1>2 DEF GrantsRecorded, RequestsKept, RowKept
<1>3. ASSUME RequestsKept, worker' = worker, NEW w \in Workers
      PROVE  /\ worker'[w].pc \in {"claim", "check"} /\ worker'[w].kind = "user_policy" =>
                  <<worker'[w].task, worker'[w].hash>> \in granted'
             /\ worker'[w].pc \in {"mark", "call"} /\ worker'[w].kind # "none" =>
                  <<worker'[w].task, worker'[w].payload>> \in granted'
  BY <1>3 DEF GrantsRecorded, RequestsKept
<1>4. ASSUME NEW u \in Turns, TurnStep(u) PROVE GrantsRecorded'
  <2>1. TurnEffect(u) /\ RequestsKept /\ worker' = worker
    BY <1>4, TurnEffects, TurnRequestsKept DEF TurnEffect
  <2>2. ASSUME NEW t \in Tasks, action'[t].kind = "user_policy"
        PROVE  action'[t].status # "collecting" /\ <<t, action'[t].hash>> \in granted'
    <3>1. ActionRow("collecting").kind # "user_policy"
      BY DEF ActionRow
    <3>2. \/ RowKept(t) \/ action'[t] = ActionRow("collecting") \/ RowAuthorized(t)
          \/ RowPrepared(t, u)
      BY <2>1 DEF TurnEffect
    <3>3. CASE RowKept(t)  BY <1>2, <2>1, <2>2, <3>3
    <3>4. CASE RowAuthorized(t)  BY <3>4 DEF RowAuthorized
    <3>5. CASE RowPrepared(t, u)  BY <2>2, <3>5 DEF RowPrepared, GrantsRecorded
    <3> QED  BY <2>2, <3>1, <3>2, <3>3, <3>4, <3>5
  <2> QED  BY <1>1, <1>3, <2>1, <2>2 DEF GrantsRecorded
<1>5. ASSUME OwnerStep \/ ClockStep PROVE GrantsRecorded'
  <2>1. RequestsKept /\ worker' = worker /\ \A t \in Tasks : RowKept(t)
    BY <1>5, OwnerEffects, OwnerRequestsKept DEF OwnerEffect
  <2> QED  BY <1>1, <1>2, <1>3, <2>1 DEF GrantsRecorded
<1>6. ASSUME NEW w \in Workers, WorkerStep(w) \/ WorkerDies(w) PROVE GrantsRecorded'
  <2>1. WorkerEffect(w) /\ RequestsKept
    BY <1>6, WorkerEffects, WorkerRequestsKept
  <2>2. ASSUME NEW t \in Tasks, action'[t].kind = "user_policy"
        PROVE  action'[t].status # "collecting" /\ <<t, action'[t].hash>> \in granted'
    BY <1>2, <2>1, <2>2 DEF WorkerEffect, RowSucceeded, GrantsRecorded, RequestsKept
  <2>3. ASSUME NEW v \in Workers, v # w
        PROVE  /\ worker'[v].pc \in {"claim", "check"} /\ worker'[v].kind = "user_policy" =>
                    <<worker'[v].task, worker'[v].hash>> \in granted'
               /\ worker'[v].pc \in {"mark", "call"} /\ worker'[v].kind # "none" =>
                    <<worker'[v].task, worker'[v].payload>> \in granted'
    BY <2>1, <2>3 DEF WorkerEffect, GrantsRecorded, RequestsKept
  <2>4. ASSUME worker'[w].pc \in {"claim", "check"}, worker'[w].kind = "user_policy"
        PROVE  <<worker'[w].task, worker'[w].hash>> \in granted'
    <3>1. CASE ReadAction(w)
      <4>1. worker[w].task \in Tasks
        BY <3>1 DEF ReadAction, Bound
      <4> QED  BY <2>1, <2>4, <3>1, <4>1, ReadActionEffect DEF GrantsRecorded, RequestsKept
    <3>2. CASE Claim(w)
      <4>1. worker[w].pc = "claim"
        BY <3>2 DEF Claim
      <4>2. Claimable(worker[w].task)
        BY <2>4, <3>2, IdleEffect DEF Claim, TypeOK
      <4> QED  BY <2>1, <2>4, <3>2, <4>1, <4>2, ClaimEffect DEF GrantsRecorded, RequestsKept
    <3> QED  BY <1>6, <2>4, <3>1, <3>2, WorkerMoves
  <2>5. ASSUME worker'[w].pc \in {"mark", "call"}, worker'[w].kind # "none"
        PROVE  <<worker'[w].task, worker'[w].payload>> \in granted'
    <3>1. CASE CheckAuthorized(w)
      <4>1. /\ worker'[w].task = worker[w].task
            /\ worker'[w].payload = worker[w].payload
        BY <3>1, StepEffect DEF CheckAuthorized, TypeOK
      <4>2. worker[w].pc = "check"
        BY <3>1 DEF CheckAuthorized
      <4>3. <<worker[w].task, worker[w].payload>> \in granted
        <5>1. CASE worker[w].kind = "user_policy" /\ worker[w].hash = worker[w].payload
          BY <4>2, <5>1 DEF GrantsRecorded
        <5>2. CASE /\ worker[w].kind = "approval" /\ worker[w].approval # None
                   /\ approval[worker[w].approval].status = "approved"
                   /\ approval[worker[w].approval].hash = worker[w].payload
          <6>1. Requested(worker[w].approval, worker[w].task)
            BY <4>2, <5>2 DEF ApprovalsMatch
          <6> QED  BY <5>2, <6>1 DEF GrantsRecorded, Requested
        <5> QED  BY <3>1, <5>1, <5>2 DEF CheckAuthorized, Usable
      <4> QED  BY <2>1, <4>1, <4>3 DEF RequestsKept
    <3>2. CASE MarkExecuting(w)
      <4>1. /\ worker[w].pc = "mark" /\ worker'[w].task = worker[w].task
            /\ worker'[w].payload = worker[w].payload /\ worker'[w].kind = worker[w].kind
        BY <3>2, StepEffect DEF MarkExecuting, TypeOK
      <4> QED  BY <2>1, <2>5, <4>1 DEF GrantsRecorded, RequestsKept
    <3>3. CASE Claim(w)
      <4>1. CASE Claimable(worker[w].task)
        BY <2>5, <3>3, <4>1, ClaimEffect
      <4>2. CASE ~ Claimable(worker[w].task)
        BY <2>5, <3>3, <4>2, IdleEffect DEF Claim, TypeOK
      <4> QED  BY <4>1, <4>2
    <3> QED  BY <1>6, <2>5, <3>1, <3>2, <3>3, WorkerMoves
  <2> QED  BY <1>1, <2>1, <2>2, <2>3, <2>4, <2>5 DEF GrantsRecorded
<1> QED  BY <1>4, <1>5, <1>6 DEF Next

\* A provider is only ever called by CallProvider.
LEMMA OnlyCallsSend ==
  ASSUME TypeOK, Bound, Next
  PROVE  \/ sent' = sent
         \/ \E w \in Workers : CallProvider(w) /\ sent' = sent \cup
              {[task |-> worker[w].task, attempt |-> worker[w].attempt,
                payload |-> worker[w].payload, kind |-> worker[w].kind,
                approval |-> worker[w].approval]}
<1>1. ASSUME NEW u \in Turns, TurnStep(u) PROVE sent' = sent
  BY <1>1, TurnEffects DEF TurnEffect
<1>2. ASSUME OwnerStep \/ ClockStep PROVE sent' = sent
  BY <1>2, OwnerEffects DEF OwnerEffect
<1>3. ASSUME NEW w \in Workers, WorkerStep(w) \/ WorkerDies(w), ~ CallProvider(w)
      PROVE  sent' = sent
  BY <1>3 DEF WorkerStep, WorkerDies, TakeWake, ReadTask, ReadAction, Claim, CheckAuthorized,
       CheckRefused, MarkExecuting, ConfirmRead, ConfirmWrite, FailRead, FailWrite, Settle, history
<1>4. ASSUME NEW w \in Workers, CallProvider(w)
      PROVE  \/ sent' = sent
             \/ sent' = sent \cup
                  {[task |-> worker[w].task, attempt |-> worker[w].attempt,
                    payload |-> worker[w].payload, kind |-> worker[w].kind,
                    approval |-> worker[w].approval]}
  BY <1>4 DEF CallProvider
<1> QED  BY <1>1, <1>2, <1>3, <1>4 DEF Next

\* Every step keeps what was sent within what was granted.
LEMMA ExactConsentKept ==
  ASSUME TypeOK, Bound, ApprovalsMatch, GrantsRecorded, ExactConsent, Next PROVE ExactConsent'
<1>1. granted \subseteq granted'
  BY TurnRequestsKept, OwnerRequestsKept, WorkerRequestsKept DEF Next, RequestsKept
<1>2. CASE sent' = sent
  BY <1>1, <1>2 DEF ExactConsent
<1>3. ASSUME NEW w \in Workers, CallProvider(w),
             sent' = sent \cup
              {[task |-> worker[w].task, attempt |-> worker[w].attempt,
                payload |-> worker[w].payload, kind |-> worker[w].kind,
                approval |-> worker[w].approval]}
      PROVE  ExactConsent'
  <2>1. worker[w].kind # "none" => <<worker[w].task, worker[w].payload>> \in granted
    BY <1>3 DEF CallProvider, GrantsRecorded
  <2> QED  BY <1>1, <1>3, <2>1 DEF ExactConsent
<1> QED  BY <1>2, <1>3, OnlyCallsSend

\* Only a claim raises the number of claims, and only the claiming worker comes
\* into flight by it.
LEMMA ClaimsCountedKept ==
  ASSUME TypeOK, Bound, ClaimsCounted, Next PROVE ClaimsCounted'
<1>1. ASSUME ReadyCounted, claimed' = claimed, sent' = sent,
             \A v \in Workers : worker'[v].pc \in InFlight =>
               /\ worker[v].pc \in InFlight
               /\ worker'[v].task = worker[v].task
               /\ worker'[v].attempt = worker[v].attempt
      PROVE  ClaimsCounted'
  <2>1. ASSUME NEW t \in Tasks
        PROVE  /\ claimed'[t] <= readied'[t]
               /\ taskState'[t] = "ready" => claimed'[t] < readied'[t]
    <3>0. TypeOK'
      BY TurnTypeOK, OwnerTypeOK, WorkerTypeOK DEF Next
    <3>1. claimed[t] \in Nat /\ readied[t] \in Nat /\ readied'[t] \in Nat
      BY <3>0 DEF TypeOK
    <3> QED  BY <1>1, <3>1 DEF ClaimsCounted, ReadyCounted
  <2>2. ASSUME NEW v \in Workers, worker'[v].pc \in InFlight
        PROVE  worker'[v].attempt <= claimed'[worker'[v].task]
    BY <1>1, <2>2 DEF ClaimsCounted
  <2>3. \A w, v \in Workers :
          /\ worker'[w].pc \in InFlight /\ worker'[v].pc \in InFlight
          /\ worker'[w].task = worker'[v].task /\ worker'[w].attempt = worker'[v].attempt
          => w = v
    BY <1>1 DEF ClaimsCounted
  <2>4. \A w \in Workers, x \in sent' : worker'[w].pc \in InFlight =>
          ~ (x.task = worker'[w].task /\ x.attempt = worker'[w].attempt)
    BY <1>1 DEF ClaimsCounted
  <2>5. \A x \in sent' : x.task \in Tasks /\ x.attempt <= claimed'[x.task]
    BY <1>1 DEF ClaimsCounted
  <2> QED  BY <2>1, <2>2, <2>3, <2>4, <2>5 DEF ClaimsCounted, InFlight
<1>2. ASSUME NEW u \in Turns, TurnStep(u) PROVE ClaimsCounted'
  BY <1>1, <1>2, TurnEffects, TurnReadyCounted DEF TurnEffect
<1>3. ASSUME OwnerStep \/ ClockStep PROVE ClaimsCounted'
  BY <1>1, <1>3, OwnerEffects DEF OwnerEffect
<1>4. ASSUME NEW w \in Workers, CallProvider(w) PROVE ClaimsCounted'
  <2> DEFINE c == [task |-> worker[w].task, attempt |-> worker[w].attempt,
                   payload |-> worker[w].payload, kind |-> worker[w].kind,
                   approval |-> worker[w].approval]
  <2>1. /\ taskState' = taskState /\ claimed' = claimed /\ readied' = readied
        /\ worker[w].pc = "call"
        /\ sent' = sent \/ sent' = sent \cup {c}
    BY <1>4 DEF CallProvider, rows
  <2>2. /\ worker'[w].pc \notin InFlight
        /\ \A v \in Workers : v # w => worker'[v] = worker[v]
    BY <1>4, StepEffect DEF CallProvider, InFlight, TypeOK
  <2>3. /\ worker[w].task \in Tasks
        /\ worker[w].attempt <= claimed[worker[w].task]
        /\ c.task = worker[w].task /\ c.attempt = worker[w].attempt
    BY <2>1 DEF Bound, ClaimsCounted, InFlight
  <2>4. \A v \in Workers, x \in sent' : worker'[v].pc \in InFlight =>
          ~ (x.task = worker'[v].task /\ x.attempt = worker'[v].attempt)
    <3> HIDE DEF c
    <3> QED  BY <2>1, <2>2, <2>3 DEF ClaimsCounted, InFlight
  <2>5. \A x \in sent' : x.task \in Tasks /\ x.attempt <= claimed'[x.task]
    <3> HIDE DEF c
    <3> QED  BY <2>1, <2>3 DEF ClaimsCounted
  <2>6. \A v \in Workers : worker'[v].pc \in InFlight =>
          worker'[v].attempt <= claimed'[worker'[v].task]
    BY <2>1, <2>2 DEF ClaimsCounted
  <2>7. \A x, y \in Workers :
          /\ worker'[x].pc \in InFlight /\ worker'[y].pc \in InFlight
          /\ worker'[x].task = worker'[y].task /\ worker'[x].attempt = worker'[y].attempt
          => x = y
    BY <2>2 DEF ClaimsCounted
  <2>8. \A t \in Tasks : /\ claimed'[t] <= readied'[t]
                         /\ taskState'[t] = "ready" => claimed'[t] < readied'[t]
    BY <2>1 DEF ClaimsCounted
  <2> QED  BY <2>4, <2>5, <2>6, <2>7, <2>8 DEF ClaimsCounted
<1>5. ASSUME NEW w \in Workers, Claim(w), Claimable(worker[w].task) PROVE ClaimsCounted'
  <2> DEFINE t == worker[w].task
  <2>1. /\ t \in Tasks
        /\ taskState[t] = "ready"
        /\ taskState' = [taskState EXCEPT ![t] = "attempting"]
        /\ claimed' = [claimed EXCEPT ![t] = @ + 1]
        /\ readied' = readied /\ sent' = sent
    BY <1>5 DEF Claim, Claimable, Bound
  <2>2. /\ worker'[w].task = t /\ worker'[w].attempt = claimed[t] + 1
        /\ \A v \in Workers : v # w => worker'[v] = worker[v]
    <3>1. \A v \in Workers : v # w => worker'[v] = worker[v]
      <4>1. \E r : worker' = [worker EXCEPT ![w] = r]
        BY <1>5 DEF Claim
      <4> QED  BY <4>1 DEF TypeOK
    <3> QED  BY <1>5, <3>1, ClaimEffect
  <2>3. /\ \A s \in Tasks : claimed[s] \in Nat /\ readied[s] \in Nat
        /\ \A v \in Workers : worker[v].attempt \in Nat
        /\ \A x \in sent : x.attempt \in Nat
    BY DEF TypeOK, WorkerStates, Calls
  <2>4. \A s \in Tasks : /\ claimed'[s] = IF s = t THEN claimed[s] + 1 ELSE claimed[s]
                         /\ s = t => taskState'[s] # "ready"
                         /\ s # t => taskState'[s] = taskState[s]
    BY <2>1 DEF TypeOK
  <2>5. \A v \in Workers : worker[v].pc \in InFlight => worker[v].task \in Tasks
    BY DEF Bound, InFlight
  <2> HIDE DEF t
  <2>6. \A s \in Tasks : /\ claimed'[s] <= readied'[s]
                         /\ taskState'[s] = "ready" => claimed'[s] < readied'[s]
    BY <2>1, <2>3, <2>4 DEF ClaimsCounted
  <2>7. ASSUME NEW v \in Workers, worker'[v].pc \in InFlight
        PROVE  worker'[v].attempt <= claimed'[worker'[v].task]
    BY <2>1, <2>2, <2>3, <2>4, <2>5, <2>7 DEF ClaimsCounted
  <2>8. ASSUME NEW v \in Workers, v # w, worker'[v].pc \in InFlight, worker'[v].task = t
        PROVE  worker'[v].attempt # worker'[w].attempt
    BY <2>1, <2>2, <2>3, <2>8 DEF ClaimsCounted
  <2>9. \A x, y \in Workers :
          /\ worker'[x].pc \in InFlight /\ worker'[y].pc \in InFlight
          /\ worker'[x].task = worker'[y].task /\ worker'[x].attempt = worker'[y].attempt
          => x = y
    BY <2>2, <2>8 DEF ClaimsCounted
  <2>10. \A x \in sent : ~ (x.task = t /\ x.attempt = claimed[t] + 1)
    BY <2>1, <2>3 DEF ClaimsCounted
  <2>11. \A v \in Workers, x \in sent' : worker'[v].pc \in InFlight =>
           ~ (x.task = worker'[v].task /\ x.attempt = worker'[v].attempt)
    BY <2>1, <2>2, <2>10 DEF ClaimsCounted
  <2>12. \A x \in sent' : x.task \in Tasks /\ x.attempt <= claimed'[x.task]
    BY <2>1, <2>3, <2>4 DEF ClaimsCounted
  <2> QED  BY <2>6, <2>7, <2>9, <2>11, <2>12 DEF ClaimsCounted
<1>6. ASSUME NEW w \in Workers, WorkerStep(w) \/ WorkerDies(w), ~ CallProvider(w),
             ~ (Claim(w) /\ Claimable(worker[w].task))
      PROVE  ClaimsCounted'
  <2>1. WorkerEffect(w)
    BY <1>6, WorkerEffects
  <2>2. claimed' = claimed /\ sent' = sent
    BY <1>6 DEF WorkerStep, WorkerDies, TakeWake, ReadTask, ReadAction, Claim, CheckAuthorized,
         CheckRefused, MarkExecuting, ConfirmRead, ConfirmWrite, FailRead, FailWrite, Settle,
         history
  <2>3. worker'[w].pc \in InFlight =>
          /\ worker[w].pc \in InFlight
          /\ worker'[w].task = worker[w].task
          /\ worker'[w].attempt = worker[w].attempt
    <3>1. Claim(w) => worker'[w].pc = "idle"
      BY <1>6, IdleEffect DEF Claim, TypeOK
    <3>2. CheckAuthorized(w) \/ MarkExecuting(w) =>
            /\ worker[w].pc \in InFlight
            /\ worker'[w].task = worker[w].task
            /\ worker'[w].attempt = worker[w].attempt
      BY StepEffect DEF CheckAuthorized, MarkExecuting, InFlight, TypeOK
    <3> QED  BY <1>6, <3>1, <3>2, WorkerMoves DEF InFlight
  <2> QED  BY <1>1, <2>1, <2>2, <2>3 DEF WorkerEffect
<1> QED  BY <1>2, <1>3, <1>4, <1>5, <1>6 DEF Next

\* Every step keeps the calls numbered apart and paid for.
LEMMA OneCallKept ==
  ASSUME TypeOK, Bound, ClaimsCounted, OneCallPerReadyTask, Next PROVE OneCallPerReadyTask'
<1>1. ClaimsCounted'
  BY ClaimsCountedKept
<1>2. TypeOK'
  BY TurnTypeOK, OwnerTypeOK, WorkerTypeOK DEF Next
<1>3. ASSUME NEW x \in sent' PROVE x.attempt <= readied'[x.task]
  <2>1. x.attempt \in Nat /\ \A t \in Tasks : claimed'[t] \in Nat /\ readied'[t] \in Nat
    BY <1>2 DEF TypeOK, Calls
  <2>2. /\ x.task \in Tasks /\ x.attempt <= claimed'[x.task]
        /\ claimed'[x.task] <= readied'[x.task]
    BY <1>1 DEF ClaimsCounted
  <2> QED  BY <2>1, <2>2
<1>4. CASE sent' = sent
  BY <1>3, <1>4 DEF OneCallPerReadyTask
<1>5. ASSUME NEW w \in Workers, CallProvider(w), NEW c,
             c.task = worker[w].task, c.attempt = worker[w].attempt, sent' = sent \cup {c}
      PROVE  OneCallPerReadyTask'
  <2>1. \A x \in sent : ~ (x.task = c.task /\ x.attempt = c.attempt)
    BY <1>5 DEF CallProvider, ClaimsCounted, InFlight
  <2> QED  BY <1>3, <1>5, <2>1 DEF OneCallPerReadyTask
<1> QED  BY <1>4, <1>5, OnlyCallsSend

\* Every step keeps reported successes backed by a call.
LEMMA ReportsKept ==
  ASSUME TypeOK, Bound, ReportsAreTrue, SucceededWasSent, Next
  PROVE  ReportsAreTrue' /\ SucceededWasSent'
<1>1. sent \subseteq sent'
  BY OnlyCallsSend
<1>2. ASSUME NEW t \in Tasks, RowKept(t), action'[t].status = "succeeded"
      PROVE  \E x \in sent' : x.task = t
  BY <1>1, <1>2 DEF RowKept, SucceededWasSent
<1>3. ASSUME NEW u \in Turns, TurnStep(u) PROVE ReportsAreTrue' /\ SucceededWasSent'
  <2>1. TurnEffect(u)
    BY <1>3, TurnEffects
  <2>2. ReportsAreTrue'
    BY <2>1 DEF TurnEffect, ReportsAreTrue
  <2>3. ASSUME NEW t \in Tasks, action'[t].status = "succeeded"
        PROVE  \E x \in sent' : x.task = t
    <3>1. ActionRow("collecting").status # "succeeded"
      BY DEF ActionRow
    <3>2. \/ RowKept(t) \/ action'[t] = ActionRow("collecting") \/ RowAuthorized(t)
          \/ RowPrepared(t, u)
      BY <2>1 DEF TurnEffect
    <3> QED  BY <1>2, <2>3, <3>1, <3>2 DEF RowAuthorized, RowPrepared
  <2> QED  BY <2>2, <2>3 DEF SucceededWasSent
<1>4. ASSUME OwnerStep \/ ClockStep PROVE ReportsAreTrue' /\ SucceededWasSent'
  BY <1>2, <1>4, OwnerEffects DEF OwnerEffect, ReportsAreTrue, SucceededWasSent
<1>5. ASSUME NEW w \in Workers, WorkerStep(w) \/ WorkerDies(w)
      PROVE  ReportsAreTrue' /\ SucceededWasSent'
  <2>1. WorkerEffect(w)
    BY <1>5, WorkerEffects
  <2>2. ASSUME worker'[w].pc \in Reporting
        PROVE  \E x \in sent' : x.task = worker'[w].task
    <3>1. CASE CallProvider(w)
      <4> DEFINE c == [task |-> worker[w].task, attempt |-> worker[w].attempt,
                       payload |-> worker[w].payload, kind |-> worker[w].kind,
                       approval |-> worker[w].approval]
      <4>1. sent' = sent \cup {c}
        BY <2>2, <3>1, StepEffect DEF CallProvider, Reporting, TypeOK
      <4>2. worker'[w].task = c.task
        BY <3>1, StepEffect DEF CallProvider, TypeOK
      <4> HIDE DEF c
      <4> QED  BY <4>1, <4>2
    <3>2. CASE ConfirmRead(w) \/ ConfirmWrite(w)
      <4>1. worker[w].pc \in Reporting /\ worker'[w].task = worker[w].task
        BY <3>2, StepEffect DEF ConfirmRead, ConfirmWrite, Reporting, TypeOK
      <4> QED  BY <1>1, <4>1 DEF ReportsAreTrue, Reporting
    <3> QED  BY <1>5, <2>2, <3>1, <3>2, WorkerMoves
  <2>3. ReportsAreTrue'
    BY <1>1, <2>1, <2>2 DEF WorkerEffect, ReportsAreTrue, Reporting
  <2>4. SucceededWasSent'
    BY <1>1, <1>2, <2>1 DEF WorkerEffect, SucceededWasSent, ReportsAreTrue
  <2> QED  BY <2>3, <2>4
<1> QED  BY <1>3, <1>4, <1>5 DEF Next

----------------------------------------------------------------------------
(* The theorems. *)

\* The inductive invariant holds initially.
LEMMA InitIInv == Init => IInv
<1> SUFFICES ASSUME Init PROVE IInv  OBVIOUS
<1>1. TypeOK
  BY InitTypeOK
<1>2. /\ \A t \in Tasks : action[t].approval = None /\ action[t].kind = "approval"
                          /\ action[t].status = "absent"
      /\ \A a \in Approvals : approval[a].status = "absent"
      /\ \A u \in Turns : turn[u].pc = "new"
      /\ \A e \in Edits : edit[e].pc = "new"
      /\ \A w \in Workers : worker[w].pc = "idle"
      /\ \A t \in Tasks : taskState[t] = "absent" /\ claimed[t] = 0 /\ readied[t] = 0
      /\ sent = {}
  BY DEF Init, ActionRow, NewTurn, NewEdit, IdleWorker
<1>3. Bound /\ ApprovalsMatch
  BY <1>2 DEF Bound, ApprovalsMatch
<1>4. GrantsRecorded /\ ExactConsent
  BY <1>2 DEF GrantsRecorded, ExactConsent
<1>5. ClaimsCounted /\ OneCallPerReadyTask
  BY <1>2 DEF ClaimsCounted, OneCallPerReadyTask, InFlight
<1>6. ReportsAreTrue /\ SucceededWasSent
  BY <1>2 DEF ReportsAreTrue, SucceededWasSent
<1> QED  BY <1>1, <1>3, <1>4, <1>5, <1>6 DEF IInv

\* The inductive invariant is preserved by every step.
LEMMA NextIInv == IInv /\ [Next]_vars => IInv'
<1> SUFFICES ASSUME IInv, [Next]_vars PROVE IInv'  OBVIOUS
<1>1. CASE Next
  <2>1. TypeOK'
    BY <1>1, TurnTypeOK, OwnerTypeOK, WorkerTypeOK DEF Next, IInv
  <2>2. Bound'
    BY <1>1, BoundKept DEF IInv
  <2>3. ApprovalsMatch' /\ GrantsRecorded'
    BY <1>1, ApprovalsMatchKept, GrantsRecordedKept DEF IInv
  <2>4. ExactConsent'
    BY <1>1, ExactConsentKept DEF IInv
  <2>5. ClaimsCounted' /\ OneCallPerReadyTask'
    BY <1>1, ClaimsCountedKept, OneCallKept DEF IInv
  <2>6. ReportsAreTrue' /\ SucceededWasSent'
    BY <1>1, ReportsKept DEF IInv
  <2> QED  BY <2>1, <2>2, <2>3, <2>4, <2>5, <2>6 DEF IInv
<1>2. CASE UNCHANGED vars
  BY <1>2 DEF vars, rows, history, IInv, TypeOK, Bound, ApprovalsMatch, Requested,
       GrantsRecorded, ExactConsent, ClaimsCounted, OneCallPerReadyTask, ReportsAreTrue,
       SucceededWasSent
<1> QED  BY <1>1, <1>2

\* The inductive invariant holds of every behaviour.
THEOREM Invariance == Spec => []IInv
  BY InitIInv, NextIInv, PTL DEF Spec

\* Every row and every process's local state keeps its shape.
THEOREM TypeCorrect == Spec => []TypeOK
<1>1. IInv => TypeOK
  BY DEF IInv
<1> QED  BY <1>1, Invariance, PTL

\* What reaches a provider for a drafted action is exactly what was agreed to,
\* for any number of concurrent turns, edits, workers and deaths.
THEOREM ConsentIsExact == Spec => []ExactConsent
<1>1. IInv => ExactConsent
  BY DEF IInv
<1> QED  BY <1>1, Invariance, PTL

\* claimReadyTask is the exactly-once claim the worker's comment promises: no
\* two provider calls share a claim and no claim is made without a write that
\* made the task ready.
THEOREM CallsAreClaimed == Spec => []OneCallPerReadyTask
<1>1. IInv => OneCallPerReadyTask
  BY DEF IInv
<1> QED  BY <1>1, Invariance, PTL

\* An action recorded as succeeded was carried out.
THEOREM SuccessIsReal == Spec => []SucceededWasSent
<1>1. IInv => SucceededWasSent
  BY DEF IInv
<1> QED  BY <1>1, Invariance, PTL

----------------------------------------------------------------------------
(* Decisions: what a row may become, and what that says of what was sent. *)

Decided == {"approved", "executing", "succeeded", "failed", "expired"}

\* A task has its action row attached once, by the call that created the task.
AttachedOnce ==
  /\ \A t \in Tasks : taskState[t] = "absent" => action[t].status = "absent"
  /\ \A u \in Turns : turn[u].pc = "attach" =>
       taskState[turn[u].task] # "absent" /\ action[turn[u].task].status = "absent"
  /\ \A u, v \in Turns :
       turn[u].pc = "attach" /\ turn[v].pc = "attach" /\ turn[u].task = turn[v].task => u = v

\* An approval and the action it decided agree, and name each other.
DecisionsMatch ==
  /\ \A a \in Approvals : approval[a].status = "approved" =>
       /\ action[approval[a].task].approval = a
       /\ action[approval[a].task].status \in Decided
  /\ \A t \in Tasks : action[t].status = "denied" =>
       action[t].approval \in Approvals /\ approval[action[t].approval].status = "denied"
  /\ \A t \in Tasks :
       action[t].kind = "approval" /\ action[t].status \in {"approved", "executing", "succeeded"} =>
         /\ action[t].approval \in Approvals
         /\ approval[action[t].approval].status \in {"approved", "expired"}

\* Whatever a policy authorised, or a worker was authorised to send, was decided.
OnlyDecidedIsSent ==
  /\ \A t \in Tasks : action[t].kind = "user_policy" => action[t].status \in Decided
  /\ \A w \in Workers :
       worker[w].pc \in {"claim", "check"} /\ worker[w].kind = "user_policy" =>
         action[worker[w].task].status \in Decided
  /\ \A w \in Workers : worker[w].pc \in {"mark", "call"} /\ worker[w].kind # "none" =>
       action[worker[w].task].status \in Decided
  /\ \A x \in sent : x.kind # "none" => action[x.task].status \in Decided

DecisionInv == AttachedOnce /\ DecisionsMatch /\ OnlyDecidedIsSent

\* Everything a step may make of the row of task t ...
RowSame(t) ==
  action'[t].kind = action[t].kind /\ action'[t].approval = action[t].approval

RowMove(t) ==
  \/ action'[t] = action[t]
  \/ /\ action[t].status = "absent" /\ action'[t] = ActionRow("collecting")
     /\ \E u \in Turns : turn[u].pc = "attach" /\ turn[u].task = t /\ turn'[u].pc # "attach"
  \/ /\ action[t].status = "collecting" /\ action'[t].status \in {"prepared", "superseded"}
     /\ action'[t].kind = action[t].kind
  \/ /\ action[t].status = "collecting" /\ action'[t].status = "approved"
     /\ action'[t].kind = "user_policy"
  \/ /\ action[t].status = "prepared" /\ action'[t].status \in {"superseded", "expired"}
     /\ RowSame(t)
  \/ /\ action[t].status = "prepared" /\ action'[t].status \in {"approved", "denied"}
     /\ action[t].approval \in Approvals
     /\ approval'[action[t].approval].status = action'[t].status
     /\ RowSame(t)
  \/ /\ action[t].status \in {"approved", "executing"}
     /\ action'[t].status \in {"executing", "succeeded", "failed", "expired"}
     /\ RowSame(t)

\* ... and of approval a.
ApprovalMove(a) ==
  \/ approval'[a] = approval[a]
  \/ approval[a].status = "absent" /\ approval'[a].status = "pending"
  \/ /\ approval[a].status \in {"pending", "approved"} /\ approval'[a].status = "expired"
     /\ approval'[a].task = approval[a].task
  \/ /\ approval[a].status = "pending" /\ approval'[a].status \in {"approved", "denied"}
     /\ approval'[a].task = approval[a].task
     /\ action'[approval[a].task].approval = a
     /\ action'[approval[a].task].status = approval'[a].status

RowMoves == \A t \in Tasks : RowMove(t)
ApprovalMoves == \A a \in Approvals : ApprovalMove(a)

\* The steps of a draft call move rows as above.
LEMMA TurnMoves ==
  ASSUME TypeOK, Bound, AttachedOnce, NEW u \in Turns, TurnStep(u)
  PROVE  RowMoves /\ ApprovalMoves
<1> USE DEF rows, history, TypeOK
<1>1. ASSUME NEW r, turn[u].task \in Tasks,
             action' = [action EXCEPT ![turn[u].task] = r],
             RowMove(turn[u].task)
      PROVE  RowMoves
  <2>1. ASSUME NEW t \in Tasks, t # turn[u].task PROVE action'[t] = action[t]
    BY <1>1, <2>1
  <2> QED  BY <1>1, <2>1 DEF RowMoves, RowMove
<1>2. UNCHANGED action => RowMoves
  BY DEF RowMoves, RowMove
<1>3. UNCHANGED approval => ApprovalMoves
  BY DEF ApprovalMoves, ApprovalMove
<1>4. CASE DropDraft(u)
  <2>1. CASE action[turn[u].task].status = "collecting"
    <3>1. /\ turn[u].task \in Tasks
          /\ action'[turn[u].task] = [action[turn[u].task] EXCEPT !.status = "superseded"]
      BY <1>4, <2>1 DEF DropDraft, SetAction, Bound
    <3>2. RowMove(turn[u].task)
      BY <2>1, <3>1 DEF RowMove, ActionRows
    <3> QED  BY <1>1, <1>3, <1>4, <2>1, <3>1, <3>2 DEF DropDraft, SetAction
  <2> QED  BY <1>2, <1>3, <1>4, <2>1 DEF DropDraft
<1>5. CASE RetireAction(u)
  <2>1. CASE action[turn[u].task].status = "prepared"
    <3>1. /\ turn[u].task \in Tasks
          /\ action'[turn[u].task] = [action[turn[u].task] EXCEPT !.status = "superseded"]
      BY <1>5, <2>1 DEF RetireAction, SetAction, Bound
    <3>2. RowMove(turn[u].task)
      BY <2>1, <3>1 DEF RowMove, RowSame, ActionRows
    <3> QED  BY <1>1, <1>3, <1>5, <2>1, <3>1, <3>2 DEF RetireAction, SetAction
  <2> QED  BY <1>2, <1>3, <1>5, <2>1 DEF RetireAction
<1>6. CASE AttachAction(u)
  <2>1. CASE action' = action
    BY <1>2, <1>3, <1>6, <2>1 DEF AttachAction
  <2>2. CASE Goto(u, "merge") /\ action' = [action EXCEPT ![turn[u].task] = ActionRow("collecting")]
    <3>1. /\ turn[u].task \in Tasks /\ turn[u].pc = "attach"
          /\ action'[turn[u].task] = ActionRow("collecting")
          /\ action[turn[u].task].status = "absent"
      BY <1>6, <2>2 DEF AttachAction, Bound, AttachedOnce
    <3>2. turn'[u].pc # "attach"
      BY <2>2, GotoEffect
    <3>3. RowMove(turn[u].task)
      BY <3>1, <3>2 DEF RowMove
    <3> QED  BY <1>1, <1>3, <1>6, <2>2, <3>1, <3>3 DEF AttachAction
  <2> QED  BY <1>6, <2>1, <2>2 DEF AttachAction
<1>7. CASE AuthorizeByPolicy(u)
  <2>1. CASE action' = action
    BY <1>2, <1>3, <1>7, <2>1 DEF AuthorizeByPolicy
  <2>2. CASE action' # action
    <3>1. /\ turn[u].task \in Tasks
          /\ action[turn[u].task].status = "collecting"
          /\ action' = [action EXCEPT ![turn[u].task] =
               [@ EXCEPT !.status = "approved", !.kind = "user_policy",
                         !.hash = slots[turn[u].task]]]
      BY <1>7, <2>2 DEF AuthorizeByPolicy, Bound
    <3>2. RowMove(turn[u].task)
      BY <3>1 DEF RowMove, ActionRows
    <3> QED  BY <1>1, <1>3, <1>7, <3>1, <3>2 DEF AuthorizeByPolicy
  <2> QED  BY <2>1, <2>2
<1>8. CASE Prepare(u)
  <2>1. CASE action[turn[u].task].status = "collecting"
    <3>1. /\ turn[u].task \in Tasks
          /\ action' = [action EXCEPT ![turn[u].task] =
               [@ EXCEPT !.status = "prepared", !.approval = turn[u].approval,
                         !.hash = turn[u].payload]]
      BY <1>8, <2>1 DEF Prepare, Bound
    <3>2. RowMove(turn[u].task)
      BY <2>1, <3>1 DEF RowMove, ActionRows
    <3> QED  BY <1>1, <1>3, <1>8, <3>1, <3>2 DEF Prepare
  <2> QED  BY <1>2, <1>3, <1>8, <2>1 DEF Prepare
<1>9. CASE RetireApproval(u)
  <2>1. ApprovalMoves
    BY <1>9 DEF RetireApproval, ApprovalMoves, ApprovalMove, ApprovalRows
  <2> QED  BY <1>2, <1>9, <2>1 DEF RetireApproval
<1>10. CASE RequestApproval(u)
  <2>1. ApprovalMoves
    BY <1>10 DEF RequestApproval, ApprovalMoves, ApprovalMove
  <2> QED  BY <1>2, <1>10, <2>1 DEF RequestApproval
<1>11. CASE FindDraft(u) \/ DropRead(u) \/ DropCheck(u) \/ DropWrite(u) \/ FindPrepared(u)
  BY <1>2, <1>3, <1>11 DEF FindDraft, DropRead, DropCheck, DropWrite, FindPrepared
<1>12. CASE RetireRead(u) \/ RetireWrite(u) \/ CreateTask(u) \/ MergeSlots(u)
            \/ AwaitRead(u) \/ AwaitWrite(u)
  BY <1>2, <1>3, <1>12 DEF RetireRead, RetireWrite, CreateTask, MergeSlots, AwaitRead, AwaitWrite
<1> QED  BY <1>4, <1>5, <1>6, <1>7, <1>8, <1>9, <1>10, <1>11, <1>12 DEF TurnStep

\* Expiring rows that wait for a decision moves them as above.
LEMMA ExpiryMoves ==
  ASSUME TypeOK, NEW due, ExpireActionsAndCancel(due),
         \A t \in due : action[t].status = "prepared"
  PROVE  RowMoves /\ ApprovalMoves
<1>1. RowMoves
  <2> SUFFICES ASSUME NEW t \in Tasks PROVE RowMove(t)
    BY DEF RowMoves
  <2>1. CASE t \in due
    BY <2>1 DEF ExpireActionsAndCancel, RowMove, RowSame, ActionRows, TypeOK
  <2>2. CASE t \notin due
    BY <2>2 DEF ExpireActionsAndCancel, RowMove
  <2> QED  BY <2>1, <2>2
<1>2. ApprovalMoves
  BY DEF ExpireActionsAndCancel, ApprovalMoves, ApprovalMove, ApprovalRows, TypeOK
<1> QED  BY <1>1, <1>2

\* The owner's decision moves the approval and its action together; his
\* requests against tasks move neither, nor does the clock but to expire.
LEMMA OwnerMoves ==
  ASSUME TypeOK, Bound, OwnerStep \/ ClockStep
  PROVE  RowMoves /\ ApprovalMoves
<1> USE DEF rows, history, TypeOK
<1>1. UNCHANGED action => RowMoves
  BY DEF RowMoves, RowMove
<1>2. UNCHANGED approval => ApprovalMoves
  BY DEF ApprovalMoves, ApprovalMove
<1>3. ASSUME NEW e \in Edits, EditStep(e) PROVE RowMoves /\ ApprovalMoves
  BY <1>1, <1>2, <1>3 DEF EditStep, EditSlots, EditCheck, EditWrite, EditWake
<1>4. ASSUME NEW a \in Approvals, Lapse(a) PROVE RowMoves /\ ApprovalMoves
  BY <1>1, <1>2, <1>4 DEF Lapse
<1>5. CASE ExpirePrepared
  BY <1>5, ExpiryMoves DEF ExpirePrepared, Due
<1>6. CASE ExpireApprovals
  <2>1. ApprovalMoves
    BY <1>6 DEF ExpireApprovals, ApprovalMoves, ApprovalMove, ApprovalRows
  <2> QED  BY <1>1, <1>6, <2>1 DEF ExpireApprovals
<1>7. CASE Reconcile
  <2>1. ApprovalMoves
    BY <1>7 DEF Reconcile, Stale, ApprovalMoves, ApprovalMove, ApprovalRows
  <2> QED  BY <1>1, <1>7, <2>1 DEF Reconcile
<1>8. ASSUME NEW a \in Approvals, NEW approve \in BOOLEAN, Decide(a, approve)
      PROVE  RowMoves /\ ApprovalMoves
  <2> DEFINE late == {t \in ActionOf(a) : action[t].status = "prepared" /\ a \in lapsed}
             t == approval[a].task
             s == IF approve THEN "approved" ELSE "denied"
  <2>1. CASE ExpireActionsAndCancel(late)
    BY <2>1, ExpiryMoves
  <2>2. CASE ~ ExpireActionsAndCancel(late)
    <3>1. /\ Actionable(a)
          /\ approval' = [approval EXCEPT ![a].status = s]
          /\ SetAction(t, s)
      BY <1>8, <2>2 DEF Decide
    <3>2. t \in Tasks
      BY <3>1 DEF Actionable, Bound
    <3>3. /\ action[t].status = "prepared" /\ action[t].approval = a
          /\ action'[t] = [action[t] EXCEPT !.status = s]
          /\ \A o \in Tasks : o # t => action'[o] = action[o]
      BY <3>1, <3>2 DEF Actionable, SetAction
    <3>4. /\ approval[a].status = "pending"
          /\ approval'[a] = [approval[a] EXCEPT !.status = s]
          /\ \A b \in Approvals : b # a => approval'[b] = approval[b]
      BY <3>1 DEF Actionable
    <3>5. action'[t].status = s /\ RowSame(t) /\ approval'[a].status = s
          /\ approval'[a].task = t /\ s \in {"approved", "denied"}
      BY <3>3, <3>4, <3>2 DEF RowSame, ActionRows, ApprovalRows
    <3> HIDE DEF s
    <3>6. RowMoves
      <4>1. RowMove(t)
        BY <3>3, <3>5 DEF RowMove
      <4>2. \A o \in Tasks : o # t => RowMove(o)
        BY <3>3 DEF RowMove
      <4> QED  BY <4>1, <4>2 DEF RowMoves
    <3>7. ApprovalMoves
      BY <3>3, <3>4, <3>5 DEF ApprovalMoves, ApprovalMove, RowSame
    <3> QED  BY <3>6, <3>7
  <2> QED  BY <2>1, <2>2
<1> QED
  BY <1>3, <1>4, <1>5, <1>6, <1>7, <1>8 DEF OwnerStep, ClockStep

\* A worker moves rows as above.
LEMMA WorkerRowMoves ==
  ASSUME TypeOK, Bound, NEW w \in Workers, WorkerStep(w) \/ WorkerDies(w)
  PROVE  RowMoves /\ ApprovalMoves
<1> USE DEF rows, history, TypeOK
<1>1. UNCHANGED action => RowMoves
  BY DEF RowMoves, RowMove
<1>2. UNCHANGED approval => ApprovalMoves
  BY DEF ApprovalMoves, ApprovalMove
<1>3. ASSUME NEW t \in Tasks, NEW s \in {"executing", "succeeded", "failed", "expired"},
             action[t].status \in {"approved", "executing"}, SetAction(t, s)
      PROVE  RowMoves
  <2>1. /\ action'[t].status = s /\ RowSame(t)
        /\ \A o \in Tasks : o # t => action'[o] = action[o]
    BY <1>3 DEF SetAction, ActionRows, RowSame
  <2> QED  BY <1>3, <2>1 DEF RowMoves, RowMove
<1>4. CASE CheckRefused(w)
  <2>1. worker[w].task \in Tasks
    BY <1>4 DEF CheckRefused, Bound
  <2>2. RowMoves
    BY <1>1, <1>3, <1>4, <2>1 DEF CheckRefused
  <2>3. ApprovalMoves
    BY <1>4 DEF CheckRefused, ApprovalMoves, ApprovalMove, ApprovalRows
  <2> QED  BY <2>2, <2>3
<1>5. CASE MarkExecuting(w)
  <2>1. worker[w].task \in Tasks
    BY <1>5 DEF MarkExecuting, Bound
  <2> QED  BY <1>1, <1>2, <1>3, <1>5, <2>1 DEF MarkExecuting
<1>6. CASE Settle(w)
  <2>1. worker[w].task \in Tasks
    BY <1>6 DEF Settle, Bound
  <2> QED  BY <1>1, <1>2, <1>3, <1>6, <2>1 DEF Settle
<1>7. CASE TakeWake(w) \/ ReadTask(w) \/ ReadAction(w) \/ Claim(w) \/ CheckAuthorized(w)
           \/ CallProvider(w)
  BY <1>1, <1>2, <1>7 DEF TakeWake, ReadTask, ReadAction, Claim, CheckAuthorized, CallProvider
<1>8. CASE ConfirmRead(w) \/ ConfirmWrite(w) \/ FailRead(w) \/ FailWrite(w) \/ WorkerDies(w)
  BY <1>1, <1>2, <1>8 DEF ConfirmRead, ConfirmWrite, FailRead, FailWrite, WorkerDies
<1> QED  BY <1>4, <1>5, <1>6, <1>7, <1>8 DEF WorkerStep

\* Every step moves rows as above.
LEMMA NextMoves ==
  ASSUME TypeOK, Bound, AttachedOnce, Next PROVE RowMoves /\ ApprovalMoves
  BY TurnMoves, OwnerMoves, WorkerRowMoves DEF Next

\* A task row, once there, stays.
StatesStay == \A t \in Tasks : taskState[t] # "absent" => taskState'[t] # "absent"

\* No step makes a task row absent again.
LEMMA NextStatesStay ==
  ASSUME TypeOK, Bound, Next PROVE StatesStay
<1>0. ASSUME NEW t \in Tasks, NEW s \in TaskStates, SetState(t, s) PROVE StatesStay
  <2>1. s # "absent"
    BY DEF TaskStates
  <2> QED  BY <1>0, <2>1 DEF SetState, StatesStay, TypeOK
<1>1. UNCHANGED taskState => StatesStay
  BY DEF StatesStay
<1>2. ASSUME NEW u \in Turns, TurnStep(u) PROVE StatesStay
  <2>1. CASE DropWrite(u) \/ RetireWrite(u) \/ AwaitWrite(u)
    BY <1>0, <2>1 DEF DropWrite, RetireWrite, AwaitWrite, Bound, TaskStates
  <2>2. CASE CreateTask(u)
    BY <1>0, <2>2 DEF CreateTask, TaskStates
  <2>3. CASE AuthorizeByPolicy(u)
    <3>1. turn[u].task \in Tasks
      BY <2>3 DEF AuthorizeByPolicy, Bound
    <3> QED  BY <1>0, <1>1, <2>3, <3>1 DEF AuthorizeByPolicy, TaskStates
  <2>4. CASE ~ (DropWrite(u) \/ RetireWrite(u) \/ AwaitWrite(u) \/ CreateTask(u)
                \/ AuthorizeByPolicy(u))
    BY <1>1, <1>2, <2>4 DEF TurnStep, rows, FindDraft, DropDraft, DropRead, DropCheck,
       FindPrepared, RetireAction, RetireApproval, RetireRead, AttachAction, MergeSlots,
       RequestApproval, AwaitRead, Prepare
  <2> QED  BY <2>1, <2>2, <2>3, <2>4
<1>3. ASSUME NEW due, ExpireActionsAndCancel(due) PROVE StatesStay
  BY <1>3 DEF ExpireActionsAndCancel, StatesStay
<1>4. ASSUME OwnerStep \/ ClockStep PROVE StatesStay
  <2>1. ASSUME NEW e \in Edits, EditStep(e) PROVE StatesStay
    <3>1. CASE EditWrite(e)
      BY <1>0, <3>1 DEF EditWrite, Bound
    <3> QED  BY <1>1, <2>1, <3>1 DEF EditStep, EditSlots, EditCheck, EditWake, rows
  <2>2. ASSUME NEW a \in Approvals, NEW approve \in BOOLEAN, Decide(a, approve)
        PROVE  StatesStay
    <3>1. CASE \E due : ExpireActionsAndCancel(due)
      BY <1>3, <3>1
    <3>2. CASE ~ \E due : ExpireActionsAndCancel(due)
      <4>1. approval[a].task \in Tasks
        BY <2>2 DEF Decide, Bound
      <4> QED  BY <1>0, <2>2, <3>2, <4>1 DEF Decide, TaskStates
    <3> QED  BY <3>1, <3>2
  <2>3. CASE ClockStep
    BY <1>1, <1>3, <2>3 DEF ClockStep, Lapse, ExpirePrepared, ExpireApprovals, Reconcile
  <2> QED  BY <1>4, <2>1, <2>2, <2>3 DEF OwnerStep
<1>5. ASSUME NEW w \in Workers, WorkerStep(w) \/ WorkerDies(w) PROVE StatesStay
  <2>1. CASE Claim(w)
    BY <1>1, <2>1 DEF Claim, StatesStay, TypeOK
  <2>2. CASE ConfirmWrite(w) \/ FailWrite(w)
    BY <1>0, <2>2 DEF ConfirmWrite, FailWrite, Bound, TaskStates
  <2>3. CASE ~ (Claim(w) \/ ConfirmWrite(w) \/ FailWrite(w))
    BY <1>1, <1>5, <2>3 DEF WorkerStep, WorkerDies, rows, TakeWake, ReadTask, ReadAction,
       CheckAuthorized, CheckRefused, MarkExecuting, CallProvider, ConfirmRead, FailRead, Settle
  <2> QED  BY <2>1, <2>2, <2>3
<1> QED  BY <1>2, <1>4, <1>5 DEF Next

\* How a step changes the calls that are about to attach a row: only CreateTask
\* starts one, on a task nobody has yet.
AttachMove(u) ==
  /\ \A v \in Turns : v # u => turn'[v] = turn[v]
  /\ turn'[u].pc = "attach" =>
       \/ turn[u].pc = "attach" /\ turn'[u] = turn[u]
       \/ /\ turn'[u].task \in Tasks
          /\ taskState[turn'[u].task] = "absent"
          /\ taskState'[turn'[u].task] # "absent"
          /\ action' = action

\* Every step of a draft call is such a step.
LEMMA TurnAttachMove ==
  ASSUME TypeOK, Bound, NEW u \in Turns, TurnStep(u) PROVE AttachMove(u)
<1> USE DEF TypeOK, AttachMove
<1>1. ASSUME NEW pc, Goto(u, pc), pc # "attach" PROVE AttachMove(u)
  BY <1>1, GotoEffect
<1>2. CASE FindDraft(u)
  <2>1. ASSUME NEW t \in Tasks, NEW pc \in {"merge", "drop"},
               turn' = [turn EXCEPT ![u] = [@ EXCEPT !.pc = pc, !.task = t]]
        PROVE  AttachMove(u)
    BY <2>1 DEF TurnStates
  <2> QED  BY <1>1, <1>2, <2>1 DEF FindDraft
<1>3. CASE FindPrepared(u)
  <2>1. ASSUME NEW t \in Tasks,
               turn' = [turn EXCEPT ![u] = [@ EXCEPT !.pc = "retire", !.task = t,
                          !.approval = action[t].approval, !.seen = taskState[t]]]
        PROVE  AttachMove(u)
    BY <2>1 DEF TurnStates
  <2> QED  BY <1>1, <1>3, <2>1 DEF FindPrepared
<1>4. CASE CreateTask(u)
  <2>1. PICK t \in Tasks : /\ taskState[t] = "absent"
                           /\ SetState(t, "drafting")
                           /\ turn' = [turn EXCEPT ![u] = [@ EXCEPT !.pc = "attach", !.task = t]]
    BY <1>4 DEF CreateTask
  <2>2. turn'[u].task = t /\ \A v \in Turns : v # u => turn'[v] = turn[v]
    BY <2>1 DEF TurnStates
  <2>3. taskState'[t] = "drafting" /\ action' = action
    BY <1>4, <2>1 DEF CreateTask, SetState
  <2> QED  BY <2>1, <2>2, <2>3
<1>5. CASE MergeSlots(u)
  <2>1. ASSUME NEW pc \in {"policy", "request"}, NEW p,
               turn' = [turn EXCEPT ![u] = [@ EXCEPT !.pc = pc, !.payload = p,
                          !.seen = taskState[turn[u].task]]]
        PROVE  AttachMove(u)
    BY <2>1 DEF TurnStates
  <2> QED  BY <1>1, <1>5, <2>1 DEF MergeSlots
<1>6. CASE RequestApproval(u)
  <2>1. PICK a \in Approvals, pc \in {"awaitRead", "prepare"} :
          turn' = [turn EXCEPT ![u] = [@ EXCEPT !.approval = a, !.pc = pc]]
    BY <1>6 DEF RequestApproval
  <2> QED  BY <2>1 DEF TurnStates
<1>7. CASE ~ (FindDraft(u) \/ FindPrepared(u) \/ CreateTask(u) \/ MergeSlots(u)
              \/ RequestApproval(u))
  <2>1. \E pc : pc # "attach" /\ Goto(u, pc)
    BY <1>7 DEF TurnStep, DropDraft, DropRead, DropCheck, DropWrite, RetireAction,
       RetireApproval, RetireRead, RetireWrite, AttachAction, AuthorizeByPolicy,
       AwaitRead, AwaitWrite, Prepare
  <2> QED  BY <1>1, <2>1
<1> QED  BY <1>2, <1>3, <1>4, <1>5, <1>6, <1>7

\* Every step keeps the row of a task with the call that made the task.
LEMMA AttachedOnceKept ==
  ASSUME TypeOK, Bound, AttachedOnce, Next PROVE AttachedOnce'
<1>1. RowMoves /\ StatesStay
  BY NextMoves, NextStatesStay
<1>2. ASSUME NEW t \in Tasks, taskState'[t] = "absent" PROVE action'[t].status = "absent"
  <2>1. taskState[t] = "absent" /\ action[t].status = "absent"
    BY <1>1, <1>2 DEF StatesStay, AttachedOnce
  <2>2. CASE \E u \in Turns : turn[u].pc = "attach" /\ turn[u].task = t
    BY <2>1, <2>2 DEF AttachedOnce
  <2>3. CASE ~ \E u \in Turns : turn[u].pc = "attach" /\ turn[u].task = t
    BY <1>1, <2>1, <2>3 DEF RowMoves, RowMove
  <2> QED  BY <2>2, <2>3
<1>3. \/ turn' = turn
      \/ \E u \in Turns : AttachMove(u)
  <2>1. ASSUME OwnerStep \/ ClockStep PROVE turn' = turn
    BY <2>1 DEF OwnerStep, ClockStep, EditStep, EditSlots, EditCheck, EditWrite, EditWake,
       Decide, Lapse, ExpirePrepared, ExpireApprovals, Reconcile, othersOfOwner
  <2>2. ASSUME NEW w \in Workers, WorkerStep(w) \/ WorkerDies(w) PROVE turn' = turn
    BY <2>2 DEF WorkerStep, WorkerDies, TakeWake, ReadTask, ReadAction, Claim,
       CheckAuthorized, CheckRefused, MarkExecuting, CallProvider, ConfirmRead, ConfirmWrite,
       FailRead, FailWrite, Settle, othersOfWorker
  <2> QED  BY <2>1, <2>2, TurnAttachMove DEF Next
\* What a call that was about to attach already, and still is, goes on to find.
<1>4. ASSUME NEW v \in Turns, turn[v].pc = "attach", turn'[v] = turn[v]
      PROVE  taskState'[turn'[v].task] # "absent" /\ action'[turn'[v].task].status = "absent"
  <2> DEFINE t == turn[v].task
  <2>1. t \in Tasks /\ taskState[t] # "absent" /\ action[t].status = "absent"
    BY <1>4 DEF Bound, AttachedOnce
  <2>2. ASSUME NEW u \in Turns, turn[u].pc = "attach", turn[u].task = t, turn'[u].pc # "attach"
        PROVE  FALSE
    BY <1>4, <2>2 DEF AttachedOnce
  <2>3. action'[t] = action[t]
    BY <1>1, <2>1, <2>2 DEF RowMoves, RowMove
  <2> QED  BY <1>1, <1>4, <2>1, <2>3 DEF StatesStay
<1>5. CASE turn' = turn
  BY <1>2, <1>4, <1>5 DEF AttachedOnce
<1>6. ASSUME NEW u \in Turns, AttachMove(u) PROVE AttachedOnce'
  <2>1. ASSUME NEW v \in Turns, turn'[v].pc = "attach"
        PROVE  taskState'[turn'[v].task] # "absent" /\ action'[turn'[v].task].status = "absent"
    <3>1. CASE turn[v].pc = "attach" /\ turn'[v] = turn[v]
      BY <1>4, <3>1
    <3>2. CASE ~ (turn[v].pc = "attach" /\ turn'[v] = turn[v])
      BY <1>6, <2>1, <3>2 DEF AttachMove, AttachedOnce
    <3> QED  BY <3>1, <3>2
  <2>2. ASSUME NEW v \in Turns, NEW o \in Turns, turn'[v].pc = "attach", turn'[o].pc = "attach",
               turn'[v].task = turn'[o].task
        PROVE  v = o
    <3>1. CASE turn'[u] = turn[u]
      BY <1>6, <2>2, <3>1 DEF AttachMove, AttachedOnce
    <3>2. CASE turn'[u] # turn[u]
      BY <1>6, <2>2, <3>2 DEF AttachMove, AttachedOnce
    <3> QED  BY <3>1, <3>2
  <2> QED  BY <1>2, <2>1, <2>2 DEF AttachedOnce
<1> QED  BY <1>3, <1>5, <1>6

\* A decided action stays decided, and keeps the approval it names.
LEMMA DecidedStays ==
  ASSUME RowMoves, NEW t \in Tasks, action[t].status \in Decided
  PROVE  action'[t].status \in Decided /\ action'[t].approval = action[t].approval
  BY DEF RowMoves, RowMove, RowSame, Decided

\* Every step keeps approvals and actions in agreement.
LEMMA DecisionsMatchKept ==
  ASSUME TypeOK, Bound, AttachedOnce, DecisionsMatch, OnlyDecidedIsSent, Next
  PROVE  DecisionsMatch'
<1>1. RowMoves /\ ApprovalMoves
  BY NextMoves
<1>2. ASSUME NEW a \in Approvals, approval'[a].status = "approved"
      PROVE  /\ action'[approval'[a].task].approval = a
             /\ action'[approval'[a].task].status \in Decided
  <2>1. CASE approval'[a] = approval[a]
    <3>1. approval[a].task \in Tasks
      BY <1>2, <2>1 DEF Bound
    <3> QED  BY <1>1, <1>2, <2>1, <3>1, DecidedStays DEF DecisionsMatch
  <2>2. CASE approval'[a] # approval[a]
    BY <1>1, <1>2, <2>2 DEF ApprovalMoves, ApprovalMove, Decided
  <2> QED  BY <2>1, <2>2
<1>3. ASSUME NEW t \in Tasks, action'[t].status = "denied"
      PROVE  action'[t].approval \in Approvals /\ approval'[action'[t].approval].status = "denied"
  <2>1. CASE action'[t] = action[t]
    <3>1. action[t].approval \in Approvals /\ approval[action[t].approval].status = "denied"
      BY <1>3, <2>1 DEF DecisionsMatch
    <3>2. approval'[action[t].approval] = approval[action[t].approval]
      BY <1>1, <3>1 DEF ApprovalMoves, ApprovalMove
    <3> QED  BY <2>1, <3>1, <3>2
  <2>2. CASE action'[t] # action[t]
    BY <1>1, <1>3, <2>2 DEF RowMoves, RowMove, RowSame, ActionRow
  <2> QED  BY <2>1, <2>2
<1>4. ASSUME NEW t \in Tasks, action'[t].kind = "approval",
             action'[t].status \in {"approved", "executing", "succeeded"}
      PROVE  /\ action'[t].approval \in Approvals
             /\ approval'[action'[t].approval].status \in {"approved", "expired"}
  <2>1. CASE /\ action[t].status \in {"approved", "executing", "succeeded"}
             /\ action'[t].kind = action[t].kind
             /\ action'[t].approval = action[t].approval
    <3>1. /\ action[t].approval \in Approvals
          /\ approval[action[t].approval].status \in {"approved", "expired"}
      BY <1>4, <2>1 DEF DecisionsMatch
    <3>2. approval'[action[t].approval].status \in {"approved", "expired"}
      BY <1>1, <3>1 DEF ApprovalMoves, ApprovalMove
    <3> QED  BY <2>1, <3>1, <3>2
  <2>2. CASE ~ (/\ action[t].status \in {"approved", "executing", "succeeded"}
                /\ action'[t].kind = action[t].kind
                /\ action'[t].approval = action[t].approval)
    BY <1>1, <1>4, <2>2 DEF RowMoves, RowMove, RowSame, ActionRow
  <2> QED  BY <2>1, <2>2
<1> QED  BY <1>2, <1>3, <1>4 DEF DecisionsMatch

\* Every step keeps what was or may be sent among what was decided.
LEMMA OnlyDecidedKept ==
  ASSUME TypeOK, Bound, ApprovalsMatch, ClaimsCounted, AttachedOnce, DecisionsMatch,
         OnlyDecidedIsSent, Next
  PROVE  OnlyDecidedIsSent'
<1>1. RowMoves
  BY NextMoves
<1>2. ASSUME NEW t \in Tasks, action'[t].kind = "user_policy"
      PROVE  action'[t].status \in Decided
  BY <1>1, <1>2 DEF RowMoves, RowMove, RowSame, OnlyDecidedIsSent, Decided, ActionRow
<1>3. ASSUME NEW v \in Workers, worker'[v] = worker[v]
      PROVE  /\ worker'[v].pc \in {"claim", "check"} /\ worker'[v].kind = "user_policy" =>
                  action'[worker'[v].task].status \in Decided
             /\ worker'[v].pc \in {"mark", "call"} /\ worker'[v].kind # "none" =>
                  action'[worker'[v].task].status \in Decided
  <2>1. worker[v].pc # "idle" => worker[v].task \in Tasks
    BY DEF Bound
  <2> QED  BY <1>1, <1>3, <2>1, DecidedStays DEF OnlyDecidedIsSent
<1>4. ASSUME NEW w \in Workers, WorkerStep(w) \/ WorkerDies(w),
             worker'[w].pc \in {"claim", "check"}, worker'[w].kind = "user_policy"
      PROVE  action'[worker'[w].task].status \in Decided
  <2>1. CASE ReadAction(w)
    <3>1. worker[w].task \in Tasks
      BY <2>1 DEF ReadAction, Bound
    <3>2. action[worker[w].task].status \in Decided
      BY <1>4, <2>1, <3>1, ReadActionEffect DEF OnlyDecidedIsSent
    <3> QED  BY <1>1, <2>1, <3>1, <3>2, DecidedStays, ReadActionEffect
  <2>2. CASE Claim(w)
    <3>1. worker[w].pc = "claim" /\ worker[w].task \in Tasks
      BY <2>2 DEF Claim, Bound
    <3>2. Claimable(worker[w].task)
      BY <1>4, <2>2, IdleEffect DEF Claim, TypeOK
    <3>3. worker'[w].task = worker[w].task /\ worker'[w].kind = worker[w].kind
      BY <2>2, <3>2, ClaimEffect
    <3> QED  BY <1>1, <1>4, <3>1, <3>3, DecidedStays DEF OnlyDecidedIsSent
  <2> QED  BY <1>4, <2>1, <2>2, WorkerMoves
<1>5. ASSUME NEW w \in Workers, WorkerStep(w) \/ WorkerDies(w),
             worker'[w].pc \in {"mark", "call"}, worker'[w].kind # "none"
      PROVE  action'[worker'[w].task].status \in Decided
  <2>1. CASE CheckAuthorized(w)
    <3>1. worker[w].pc = "check" /\ worker[w].task \in Tasks /\ Usable(w)
      BY <2>1 DEF CheckAuthorized, Bound
    <3>2. CASE worker[w].kind = "user_policy"
      BY <1>1, <2>1, <3>1, <3>2, DecidedStays, StepEffect
      DEF OnlyDecidedIsSent, CheckAuthorized, TypeOK
    <3>3. CASE /\ worker[w].approval # None
               /\ approval[worker[w].approval].status = "approved"
      <4>1. Requested(worker[w].approval, worker[w].task)
        BY <3>1, <3>3 DEF ApprovalsMatch
      <4>2. action[worker[w].task].status \in Decided
        BY <3>3, <4>1 DEF Requested, DecisionsMatch
      <4> QED  BY <1>1, <2>1, <3>1, <4>2, DecidedStays, StepEffect DEF CheckAuthorized, TypeOK
    <3> QED  BY <3>1, <3>2, <3>3 DEF Usable
  <2>2. CASE MarkExecuting(w)
    <3>1. /\ worker[w].pc = "mark" /\ worker[w].task \in Tasks
          /\ worker'[w].task = worker[w].task /\ worker'[w].kind = worker[w].kind
      BY <2>2, StepEffect DEF MarkExecuting, TypeOK, Bound
    <3> QED  BY <1>1, <1>5, <3>1, DecidedStays DEF OnlyDecidedIsSent
  <2>3. CASE Claim(w)
    <3>1. CASE Claimable(worker[w].task)
      BY <1>5, <2>3, <3>1, ClaimEffect
    <3>2. CASE ~ Claimable(worker[w].task)
      BY <1>5, <2>3, <3>2, IdleEffect DEF Claim, TypeOK
    <3> QED  BY <3>1, <3>2
  <2> QED  BY <1>5, <2>1, <2>2, <2>3, WorkerMoves
<1>6. ASSUME NEW x \in sent', x.kind # "none" PROVE action'[x.task].status \in Decided
  <2>1. CASE x \in sent
    <3>1. x.task \in Tasks
      BY <2>1 DEF ClaimsCounted
    <3> QED  BY <1>1, <1>6, <2>1, <3>1, DecidedStays DEF OnlyDecidedIsSent
  <2>2. CASE x \notin sent
    <3>1. PICK w \in Workers : /\ CallProvider(w)
                               /\ x.task = worker[w].task /\ x.kind = worker[w].kind
      BY <1>6, <2>2, OnlyCallsSend
    <3>2. worker[w].pc = "call" /\ worker[w].task \in Tasks
      BY <3>1 DEF CallProvider, Bound
    <3> QED  BY <1>1, <1>6, <3>1, <3>2, DecidedStays DEF OnlyDecidedIsSent
  <2> QED  BY <2>1, <2>2
<1>7. \/ worker' = worker
      \/ \E w \in Workers : /\ WorkerStep(w) \/ WorkerDies(w)
                            /\ \A v \in Workers : v # w => worker'[v] = worker[v]
  BY TurnEffects, OwnerEffects, WorkerEffects DEF Next, TurnEffect, OwnerEffect, WorkerEffect
<1> QED  BY <1>2, <1>3, <1>4, <1>5, <1>6, <1>7 DEF OnlyDecidedIsSent

\* Who may be sent, and who decided it, holds initially.
LEMMA InitDecisionInv == Init => DecisionInv
  BY DEF Init, DecisionInv, AttachedOnce, DecisionsMatch, OnlyDecidedIsSent, ActionRow,
     NewTurn, IdleWorker

\* ... and is kept by every step.
LEMMA NextDecisionInv == IInv /\ DecisionInv /\ [Next]_vars => DecisionInv'
<1> SUFFICES ASSUME IInv, DecisionInv, [Next]_vars PROVE DecisionInv'  OBVIOUS
<1>1. CASE Next
  BY <1>1, AttachedOnceKept, DecisionsMatchKept, OnlyDecidedKept DEF IInv, DecisionInv
<1>2. CASE UNCHANGED vars
  BY <1>2 DEF vars, rows, history, DecisionInv, AttachedOnce, DecisionsMatch, OnlyDecidedIsSent
<1> QED  BY <1>1, <1>2

\* Approvals, actions and what was sent stay in step in every behaviour.
THEOREM DecisionInvariance == Spec => []DecisionInv
  BY Invariance, InitDecisionInv, NextDecisionInv, PTL DEF Spec

\* An action its owner denied, or a later draft replaced before its decision,
\* is never sent, however many turns, edits and workers race.
THEOREM RefusalsHold == Spec => []RefusedIsNeverSent
<1>1. DecisionInv => RefusedIsNeverSent
  BY DEF DecisionInv, OnlyDecidedIsSent, RefusedIsNeverSent, Decided
<1> QED  BY <1>1, DecisionInvariance, PTL

\* The approval row and the action row it decides never tell two stories.
THEOREM DecisionsAgree == Spec => []ApprovalAndActionAgree
<1>1. DecisionInv => ApprovalAndActionAgree
  BY DEF DecisionInv, DecisionsMatch, ApprovalAndActionAgree, Decided
<1> QED  BY <1>1, DecisionInvariance, PTL

\* An outcome, once recorded, is never rewritten by a slower process.
THEOREM OutcomesAreFinal == Spec => OutcomeIsFinal
<1> DEFINE Final == \A t \in Tasks :
              action[t].status \in {"succeeded", "failed", "denied", "expired", "superseded"}
                => action'[t] = action[t]
<1>1. IInv /\ DecisionInv /\ [Next]_vars => [Final]_action
  <2>1. ASSUME IInv, DecisionInv, Next PROVE Final
    BY <2>1, NextMoves DEF IInv, DecisionInv, RowMoves, RowMove
  <2>2. UNCHANGED vars => UNCHANGED action
    BY DEF vars, rows
  <2> QED  BY <2>1, <2>2
<1> QED  BY <1>1, Invariance, DecisionInvariance, PTL DEF Spec, OutcomeIsFinal
=============================================================================
