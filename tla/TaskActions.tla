---------------------------- MODULE TaskActions ----------------------------
(***************************************************************************)
(* The path of a consequential action (send an email, write a calendar     *)
(* event, change a contact): a conversation turn drafts it, the owner      *)
(* decides it (or a policy authorises it), and a worker carries it out.    *)
(*                                                                         *)
(*   packages/agent/src/execute.ts        the draft_* tools of a turn      *)
(*   packages/core/src/actionState.ts     the assistant_action_states rows *)
(*   packages/core/src/approvals.ts       the approvals rows               *)
(*   packages/core/src/tasks.ts           the task rows, transition()      *)
(*   apps/worker/src/jobs.ts              the task.wake job                *)
(*   apps/api/src/http/assistantRoutes.ts the owner's task edits           *)
(*                                                                         *)
(* All of them share PostgreSQL rows and nothing else.  One db.query is    *)
(* one step here and one db.transaction is one step; between two queries   *)
(* of a handler any other process may run, and any process may die.        *)
(* The drafts of one (owner, thread, domain, operation) are modelled.      *)
(***************************************************************************)
EXTENDS Naturals, FiniteSets

CONSTANTS
  Tasks,       \* ids of task rows; an action row belongs to exactly one task
  Approvals,   \* ids of approval rows
  Payloads,    \* the values tasks.slots takes; a payload stands for its hash
  Turns,       \* draft_* tool calls, each run once
  Edits,       \* requests of the owner against a task, each made once
  Workers,     \* worker processes
  EditTargets, \* the states the owner's requests ask for
  MaxCrashes,  \* how many worker deaths a behaviour may contain
  None         \* SQL null

ASSUME NoneAssumption ==
  None \notin Tasks /\ None \notin Approvals /\ None \notin Payloads
ASSUME CrashAssumption == MaxCrashes \in Nat

VARIABLES
  taskState,  \* tasks.state
  slots,      \* tasks.slots
  action,     \* the assistant_action_states row of each task
  approval,   \* the approvals rows
  lapsed,     \* approvals whose expires_at is in the past
  wakes,      \* queued task.wake jobs of each task
  turn,       \* progress of each draft tool call
  edit,       \* progress of each owner request
  worker,     \* progress of each worker
  crashes,    \* worker deaths so far
  granted,    \* history: <<task, payload>> the owner or a policy agreed to
  readied,    \* history: how often tasks.state was set to ready
  claimed,    \* history: how often claimReadyTask succeeded
  sent        \* history: what reached a provider

rows    == <<taskState, slots, action, approval, lapsed, wakes>>
history == <<granted, readied, claimed, sent>>
vars == <<rows, turn, edit, worker, crashes, history>>

TaskStates == {"drafting", "awaiting_approval", "ready", "attempting", "held",
               "awaiting_owner", "confirmed", "failed", "cancelled", "closed"}

TRANSITIONS ==
  [s \in TaskStates |->
     CASE s = "drafting"          -> {"awaiting_approval", "ready", "cancelled"}
       [] s = "awaiting_approval" -> {"ready", "cancelled"}
       [] s = "ready"             -> {"attempting", "cancelled"}
       [] s = "attempting"        -> {"held", "awaiting_owner", "confirmed",
                                      "ready", "failed", "cancelled"}
       [] s = "held"              -> {"attempting", "awaiting_owner",
                                      "confirmed", "failed", "cancelled"}
       [] s = "awaiting_owner"    -> {"ready", "attempting", "confirmed",
                                      "cancelled", "failed"}
       [] s = "confirmed"         -> {"closed"}
       [] s = "failed"            -> {"closed", "ready"}
       [] s = "cancelled"         -> {"closed"}
       [] s = "closed"            -> {}]

ActionStatus == {"collecting", "prepared", "approved", "executing",
                 "succeeded", "failed", "denied", "expired", "superseded"}
ApprovalStatus == {"pending", "approved", "denied", "expired"}

Existing == {t \in Tasks : taskState[t] # "absent"}

\* transition() reads the row, checks the table, and only then writes: the
\* check is a step of its own and the write does not look at the row again.
Legal(t, to) == taskState[t] \in TaskStates /\ to \in TRANSITIONS[taskState[t]]

SetState(t, to) ==
  /\ taskState' = [taskState EXCEPT ![t] = to]
  /\ readied' = IF to = "ready" THEN [readied EXCEPT ![t] = @ + 1] ELSE readied

Enqueue(t) == wakes' = [wakes EXCEPT ![t] = @ + 1]

\* A row as it is inserted.
ActionRow(status) ==
  [status |-> status, kind |-> "approval", approval |-> None, hash |-> None]

SetAction(t, status) == action' = [action EXCEPT ![t].status = status]

----------------------------------------------------------------------------
(* A draft_email / draft_calendar_event / draft_contact_update tool call.  *)
(* Nothing obliges it to go on: a call whose process dies between two      *)
(* queries is one that takes no further step.                              *)

NewTurn == [pc |-> "new", task |-> None, payload |-> None, approval |-> None,
            seen |-> "absent"]

\* A tool call that returned or threw keeps nothing.
Goto(u, pc) ==
  turn' = [turn EXCEPT ![u] = IF pc = "done" THEN [NewTurn EXCEPT !.pc = "done"]
                              ELSE [@ EXCEPT !.pc = pc]]

othersOfTurn == <<edit, worker, crashes>>

\* activeCollectingAction: continue the open draft when this turn or the last
\* reply presented it; otherwise it has to be retired.  Which of the two holds
\* depends on the conversation and is left open.
FindDraft(u) ==
  /\ turn[u].pc = "new"
  /\ \/ \E t \in Tasks, pc \in {"merge", "drop"} :
          /\ action[t].status = "collecting"
          /\ turn' = [turn EXCEPT ![u] = [@ EXCEPT !.pc = pc, !.task = t]]
     \/ /\ \A t \in Tasks : action[t].status # "collecting"
        /\ Goto(u, "look")
  /\ UNCHANGED <<rows, othersOfTurn, history>>

\* ... its action row first,
DropDraft(u) ==
  /\ turn[u].pc = "drop"
  /\ IF action[turn[u].task].status = "collecting"
     THEN SetAction(turn[u].task, "superseded") ELSE UNCHANGED action
  /\ Goto(u, "dropRead")
  /\ UNCHANGED <<taskState, slots, approval, lapsed, wakes, othersOfTurn, history>>

\* ... then its task, when it is still being drafted.
DropRead(u) ==
  /\ turn[u].pc = "dropRead"
  /\ Goto(u, IF taskState[turn[u].task] = "drafting" THEN "dropCheck" ELSE "look")
  /\ UNCHANGED <<rows, othersOfTurn, history>>

DropCheck(u) ==
  /\ turn[u].pc = "dropCheck"
  /\ Goto(u, IF Legal(turn[u].task, "cancelled") THEN "dropWrite" ELSE "done")
  /\ UNCHANGED <<rows, othersOfTurn, history>>

DropWrite(u) ==
  /\ turn[u].pc = "dropWrite"
  /\ SetState(turn[u].task, "cancelled")
  /\ Goto(u, "look")
  /\ UNCHANGED <<slots, action, approval, lapsed, wakes, othersOfTurn,
                 granted, claimed, sent>>

\* A prepared action with the same content is returned as it is; one with
\* other content is retired.  Its row and the state of its task are read here.
FindPrepared(u) ==
  /\ turn[u].pc = "look"
  /\ \/ \E t \in Tasks :
          /\ action[t].status = "prepared"
          /\ \/ Goto(u, "done")
             \/ turn' = [turn EXCEPT ![u] =
                  [@ EXCEPT !.pc = "retire", !.task = t,
                            !.approval = action[t].approval, !.seen = taskState[t]]]
     \/ /\ \A t \in Tasks : action[t].status # "prepared"
        /\ Goto(u, "create")
  /\ UNCHANGED <<rows, othersOfTurn, history>>

RetireAnyStatus(u) ==
  /\ turn[u].pc = "retire"
  /\ SetAction(turn[u].task, "superseded")
  /\ Goto(u, "retireApproval")
  /\ UNCHANGED <<taskState, slots, approval, lapsed, wakes, othersOfTurn, history>>

RetireAction(u) ==
  /\ turn[u].pc = "retire"
  /\ IF action[turn[u].task].status = "prepared"
     THEN SetAction(turn[u].task, "superseded") ELSE UNCHANGED action
  /\ Goto(u, "retireApproval")
  /\ UNCHANGED <<taskState, slots, approval, lapsed, wakes, othersOfTurn, history>>

RetireDecidedApproval(u) ==
  /\ turn[u].pc = "retireApproval"
  /\ approval' = [approval EXCEPT ![turn[u].approval].status = "expired"]
  /\ Goto(u, IF turn[u].seen = "awaiting_approval" THEN "retireRead" ELSE "create")
  /\ UNCHANGED <<taskState, slots, action, lapsed, wakes, othersOfTurn, history>>

RetireApproval(u) ==
  /\ turn[u].pc = "retireApproval"
  /\ LET a == turn[u].approval IN
     IF approval[a].status = "pending"
     THEN approval' = [approval EXCEPT ![a].status = "expired"]
     ELSE UNCHANGED approval
  /\ Goto(u, IF turn[u].seen = "awaiting_approval" THEN "retireRead" ELSE "create")
  /\ UNCHANGED <<taskState, slots, action, lapsed, wakes, othersOfTurn, history>>

\* transition(previous, cancelled) throws out of the tool when it is illegal.
RetireRead(u) ==
  /\ turn[u].pc = "retireRead"
  /\ Goto(u, IF Legal(turn[u].task, "cancelled") THEN "retireWrite" ELSE "done")
  /\ UNCHANGED <<rows, othersOfTurn, history>>

RetireWrite(u) ==
  /\ turn[u].pc = "retireWrite"
  /\ SetState(turn[u].task, "cancelled")
  /\ Goto(u, "create")
  /\ UNCHANGED <<slots, action, approval, lapsed, wakes, othersOfTurn,
                 granted, claimed, sent>>

CreateTask(u) ==
  /\ turn[u].pc = "create"
  /\ \E t \in Tasks :
       /\ taskState[t] = "absent"
       /\ SetState(t, "drafting")
       /\ turn' = [turn EXCEPT ![u] = [@ EXCEPT !.pc = "attach", !.task = t]]
  /\ UNCHANGED <<slots, action, approval, lapsed, wakes, othersOfTurn,
                 granted, claimed, sent>>

\* A unique index admits one collecting action per owner, thread, domain and
\* operation; the loser's insert throws and its task stays behind.
AttachAction(u) ==
  /\ turn[u].pc = "attach"
  /\ IF \E t \in Tasks : action[t].status = "collecting"
     THEN Goto(u, "done") /\ UNCHANGED action
     ELSE /\ Goto(u, "merge")
          /\ action' = [action EXCEPT ![turn[u].task] = ActionRow("collecting")]
  /\ UNCHANGED <<taskState, slots, approval, lapsed, wakes, othersOfTurn, history>>

\* mergeActionTask writes the slots; an incomplete draft ends the call, a
\* complete one goes to the policy or to the owner as needsApproval says.
MergeSlots(u) ==
  /\ turn[u].pc = "merge"
  /\ \E p \in Payloads :
       /\ slots' = [slots EXCEPT ![turn[u].task] = p]
       /\ \/ Goto(u, "done")
          \/ \E pc \in {"policy", "request"} :
               turn' = [turn EXCEPT ![u] =
                 [@ EXCEPT !.pc = pc, !.payload = p, !.seen = taskState[turn[u].task]]]
  /\ UNCHANGED <<taskState, action, approval, lapsed, wakes, othersOfTurn, history>>

\* authorizeActionByUserPolicy, one transaction.  It asks needsApproval again
\* under the policy tables' lock, so it may refuse, and it pins the slots it
\* finds in the row.
AuthorizeByPolicy(u) ==
  /\ turn[u].pc = "policy"
  /\ Goto(u, "done")
  /\ LET t == turn[u].task IN
     \/ /\ action[t].status = "collecting"
        /\ taskState[t] = "drafting"
        /\ action' = [action EXCEPT ![t] =
             [@ EXCEPT !.status = "approved", !.kind = "user_policy", !.hash = slots[t]]]
        /\ SetState(t, "ready")
        /\ Enqueue(t)
        /\ granted' = granted \cup {<<t, slots[t]>>}
     \/ UNCHANGED <<taskState, action, wakes, granted, readied>>
  /\ UNCHANGED <<slots, approval, lapsed, othersOfTurn, claimed, sent>>

\* prepareAction, first query: one live request per task, action and payload.
RequestApproval(u) ==
  /\ turn[u].pc = "request"
  /\ LET t == turn[u].task
         live == {a \in Approvals : /\ approval[a].status = "pending"
                                    /\ approval[a].task = t
                                    /\ approval[a].hash = turn[u].payload}
     IN \E a \in Approvals :
          /\ IF live # {}
             THEN a \in live /\ UNCHANGED approval
             ELSE /\ approval[a].status = "absent"
                  /\ approval' = [approval EXCEPT ![a] =
                        [status |-> "pending", task |-> t, hash |-> turn[u].payload]]
          /\ turn' = [turn EXCEPT ![u] =
               [@ EXCEPT !.approval = a,
                         !.pc = IF turn[u].seen = "drafting" THEN "awaitRead" ELSE "prepare"]]
  /\ UNCHANGED <<taskState, slots, action, lapsed, wakes, othersOfTurn, history>>

AwaitRead(u) ==
  /\ turn[u].pc = "awaitRead"
  /\ Goto(u, IF Legal(turn[u].task, "awaiting_approval") THEN "awaitWrite" ELSE "done")
  /\ UNCHANGED <<rows, othersOfTurn, history>>

AwaitWrite(u) ==
  /\ turn[u].pc = "awaitWrite"
  /\ SetState(turn[u].task, "awaiting_approval")
  /\ Goto(u, "prepare")
  /\ UNCHANGED <<slots, action, approval, lapsed, wakes, othersOfTurn,
                 granted, claimed, sent>>

PrepareAnyStatus(u) ==
  /\ turn[u].pc = "prepare"
  /\ Goto(u, "done")
  /\ action' = [action EXCEPT ![turn[u].task] =
       [@ EXCEPT !.status = "prepared", !.approval = turn[u].approval, !.hash = turn[u].payload]]
  /\ UNCHANGED <<taskState, slots, approval, lapsed, wakes, othersOfTurn, history>>

\* prepareAction, last query: conditional on the draft still being collected.
Prepare(u) ==
  /\ turn[u].pc = "prepare"
  /\ Goto(u, "done")
  /\ LET t == turn[u].task IN
     IF action[t].status = "collecting"
     THEN action' = [action EXCEPT ![t] =
            [@ EXCEPT !.status = "prepared", !.approval = turn[u].approval,
                      !.hash = turn[u].payload]]
     ELSE UNCHANGED action
  /\ UNCHANGED <<taskState, slots, approval, lapsed, wakes, othersOfTurn, history>>

TurnStep(u) ==
  \/ FindDraft(u)    \/ DropDraft(u)      \/ DropRead(u)   \/ DropCheck(u)
  \/ DropWrite(u)
  \/ FindPrepared(u) \/ RetireAction(u)   \/ RetireApproval(u)
  \/ RetireRead(u)   \/ RetireWrite(u)    \/ CreateTask(u) \/ AttachAction(u)
  \/ MergeSlots(u)   \/ AuthorizeByPolicy(u) \/ RequestApproval(u)
  \/ AwaitRead(u)    \/ AwaitWrite(u)     \/ Prepare(u)

----------------------------------------------------------------------------
(* The owner: decisions on approvals, and requests against tasks.          *)

othersOfOwner == <<turn, worker, crashes>>

\* ACTIONABLE_PENDING_APPROVAL_SQL for the approval of a task with an action
\* row (every task that prepareAction asks about has one).
Actionable(a) ==
  LET t == approval[a].task IN
  /\ approval[a].status = "pending"
  /\ a \notin lapsed
  /\ taskState[t] = "awaiting_approval"
  /\ action[t].status = "prepared"
  /\ action[t].approval = a
  /\ action[t].hash = approval[a].hash
  /\ action[t].kind = "approval"

\* The action row a decision on approval a finds (select ... for update).
ActionOf(a) == {t \in Tasks : action[t].status # "absent" /\ action[t].approval = a}

ExpireActionsAndCancel(due) ==
  /\ action' = [t \in Tasks |-> IF t \in due
                 THEN [action[t] EXCEPT !.status = "expired"] ELSE action[t]]
  /\ approval' = [a \in Approvals |->
       IF approval[a].status = "pending" /\ \E t \in due : action[t].approval = a
       THEN [approval[a] EXCEPT !.status = "expired"] ELSE approval[a]]
  /\ taskState' = [t \in Tasks |->
       IF t \in due /\ taskState[t] = "awaiting_approval"
       THEN "cancelled" ELSE taskState[t]]

\* decideActionApproval, one transaction.  A decision that comes too late is
\* recorded as an expiry; any other refusal rolls back and changes nothing.
Decide(a, approve) ==
  /\ approval[a].status # "absent"
  /\ LET late == {t \in ActionOf(a) : action[t].status = "prepared" /\ a \in lapsed}
     IN \/ /\ late # {}
           /\ ExpireActionsAndCancel(late)
           /\ UNCHANGED <<wakes, granted, readied>>
        \/ /\ late = {}
           /\ Actionable(a)
           /\ approval' = [approval EXCEPT ![a].status =
                             IF approve THEN "approved" ELSE "denied"]
           /\ LET t == approval[a].task IN
              /\ SetAction(t, IF approve THEN "approved" ELSE "denied")
              /\ SetState(t, IF approve THEN "ready" ELSE "cancelled")
              /\ IF approve
                 THEN Enqueue(t) /\ granted' = granted \cup {<<t, approval[a].hash>>}
                 ELSE UNCHANGED <<wakes, granted>>
  /\ UNCHANGED <<slots, lapsed, edit, othersOfOwner, claimed, sent>>

NewEdit == [pc |-> "new", task |-> None, to |-> "none"]
DoneEdit == [NewEdit EXCEPT !.pc = "done"]

\* PATCH /tasks/:id and update_task_slots overwrite the slots first.  When the
\* row is still drafting and nothing is missing, the tool makes it ready itself.
EditSlots(e) ==
  /\ edit[e].pc = "new"
  /\ \E t \in Existing, p \in Payloads :
       /\ slots' = [slots EXCEPT ![t] = p]
       /\ \E pc \in {"slots", "filled"} :
            /\ pc = "filled" => taskState[t] = "drafting"
            /\ edit' = [edit EXCEPT ![e] = [@ EXCEPT !.pc = pc, !.task = t]]
  /\ UNCHANGED <<taskState, action, approval, lapsed, wakes, othersOfOwner, history>>

\* PATCH, approve_task and cancel_task then ask for a state: legality is
\* checked on the state read here.  update_task_slots queues no wake for work
\* that needs a capability.
EditCheck(e) ==
  /\ edit[e].pc \in {"new", "slots", "filled"}
  /\ \E t \in Existing, to \in EditTargets, pc \in {"write", "writeOnly"} :
       /\ edit[e].pc # "new" => t = edit[e].task
       /\ edit[e].pc = "filled" => to = "ready"
       /\ pc = "writeOnly" => edit[e].pc = "filled"
       /\ Legal(t, to)
       /\ edit' = [edit EXCEPT ![e] = [pc |-> pc, task |-> t, to |-> to]]
  /\ UNCHANGED <<rows, othersOfOwner, history>>

EditWrite(e) ==
  /\ edit[e].pc \in {"write", "writeOnly"}
  /\ SetState(edit[e].task, edit[e].to)
  /\ edit' = [edit EXCEPT ![e] =
       IF edit[e].to = "ready" /\ edit[e].pc = "write"
       THEN [@ EXCEPT !.pc = "wake"] ELSE DoneEdit]
  /\ UNCHANGED <<slots, action, approval, lapsed, wakes, othersOfOwner,
                 granted, claimed, sent>>

EditWake(e) ==
  /\ edit[e].pc = "wake"
  /\ Enqueue(edit[e].task)
  /\ edit' = [edit EXCEPT ![e] = DoneEdit]
  /\ UNCHANGED <<taskState, slots, action, approval, lapsed, othersOfOwner, history>>

EditStep(e) == EditSlots(e) \/ EditCheck(e) \/ EditWrite(e) \/ EditWake(e)

----------------------------------------------------------------------------
(* Time, and the approvals.expire job.                                     *)

\* expires_at passes; the action row carries the same instant.
Lapse(a) ==
  /\ approval[a].status \in {"pending", "approved"}
  /\ a \notin lapsed
  /\ lapsed' = lapsed \cup {a}
  /\ UNCHANGED <<taskState, slots, action, approval, wakes, edit, othersOfOwner, history>>

DueWhilePending ==
  {t \in Tasks : /\ action[t].status = "prepared"
                 /\ action[t].approval \in lapsed
                 /\ approval[action[t].approval].status = "pending"}

Due == {t \in Tasks : action[t].status = "prepared" /\ action[t].approval \in lapsed}

\* expirePreparedActionApprovals, one transaction over every due action.
ExpirePrepared ==
  /\ Due # {}
  /\ ExpireActionsAndCancel(Due)
  /\ UNCHANGED <<slots, lapsed, wakes, edit, othersOfOwner, history>>

\* expireApprovals, the statement after it.
ExpireApprovals ==
  /\ \E a \in lapsed : approval[a].status = "pending"
  /\ approval' = [a \in Approvals |->
       IF a \in lapsed /\ approval[a].status = "pending"
       THEN [approval[a] EXCEPT !.status = "expired"] ELSE approval[a]]
  /\ UNCHANGED <<taskState, slots, action, lapsed, wakes, edit, othersOfOwner, history>>

\* reconcilePendingApprovals, run by every read of the approvals page.
Stale(a) ==
  LET t == approval[a].task IN
  /\ approval[a].status = "pending"
  /\ \/ a \in lapsed
     \/ taskState[t] \in {"confirmed", "failed", "cancelled", "closed"}
     \/ action[t].status \in {"approved", "executing", "succeeded", "failed",
                              "denied", "expired", "superseded"}
     \/ action[t].status = "prepared" /\ (action[t].approval # a)

Reconcile ==
  /\ \E a \in Approvals : Stale(a)
  /\ approval' = [a \in Approvals |->
       IF Stale(a) THEN [approval[a] EXCEPT !.status = "expired"] ELSE approval[a]]
  /\ UNCHANGED <<taskState, slots, action, lapsed, wakes, edit, othersOfOwner, history>>

----------------------------------------------------------------------------
(* The task.wake job of a worker.                                          *)

IdleWorker == [pc |-> "idle", task |-> None, attempt |-> 0, payload |-> None,
               kind |-> "none", approval |-> None, hash |-> None]

othersOfWorker == <<turn, edit, crashes>>

Idle(w) == worker' = [worker EXCEPT ![w] = IdleWorker]
Step(w, pc) == worker' = [worker EXCEPT ![w].pc = pc]

TakeWake(w) ==
  /\ worker[w].pc = "idle"
  /\ \E t \in Tasks :
       /\ wakes[t] > 0
       /\ wakes' = [wakes EXCEPT ![t] = @ - 1]
       /\ worker' = [worker EXCEPT ![w] = [@ EXCEPT !.pc = "read", !.task = t]]
  /\ UNCHANGED <<taskState, slots, action, approval, lapsed, othersOfWorker, history>>

ReadTask(w) ==
  /\ worker[w].pc = "read"
  /\ IF taskState[worker[w].task] = "ready" THEN Step(w, "readAction") ELSE Idle(w)
  /\ UNCHANGED <<rows, othersOfWorker, history>>

\* The action row is read before the claim and not looked at again.
ReadAction(w) ==
  /\ worker[w].pc = "readAction"
  /\ LET t == worker[w].task IN
       worker' = [worker EXCEPT ![w] =
         [@ EXCEPT !.pc = "claim",
                   !.kind = IF action[t].status = "absent" THEN "none" ELSE action[t].kind,
                   !.approval = action[t].approval, !.hash = action[t].hash]]
  /\ UNCHANGED <<rows, othersOfWorker, history>>

ClaimableTwice(t) == taskState[t] \in {"ready", "attempting"}

\* The where clause of claimReadyTask.
Claimable(t) == taskState[t] = "ready"

\* claimReadyTask: the compare-and-set returns the slots that will be used.
Claim(w) ==
  /\ worker[w].pc = "claim"
  /\ LET t == worker[w].task IN
     IF Claimable(t)
     THEN /\ taskState' = [taskState EXCEPT ![t] = "attempting"]
          /\ claimed' = [claimed EXCEPT ![t] = @ + 1]
          /\ worker' = [worker EXCEPT ![w] =
               [@ EXCEPT !.payload = slots[t], !.attempt = claimed[t] + 1,
                         !.pc = IF worker[w].kind = "none" THEN "call" ELSE "check"]]
     ELSE Idle(w) /\ UNCHANGED <<taskState, claimed>>
  /\ UNCHANGED <<slots, action, approval, lapsed, wakes, othersOfWorker,
                 granted, readied, sent>>

UsableForAnyPayload(w) ==
  \/ /\ worker[w].kind = "approval"
     /\ worker[w].approval # None
     /\ approval[worker[w].approval].status = "approved"
     /\ worker[w].approval \notin lapsed
  \/ worker[w].kind = "user_policy"

\* consumeApproval, or the payload check of a policy authorisation.
Usable(w) ==
  \/ /\ worker[w].kind = "approval"
     /\ worker[w].approval # None
     /\ approval[worker[w].approval].status = "approved"
     /\ worker[w].approval \notin lapsed
     /\ approval[worker[w].approval].hash = worker[w].payload
  \/ /\ worker[w].kind = "user_policy"
     /\ worker[w].hash = worker[w].payload

CheckAuthorized(w) ==
  /\ worker[w].pc = "check"
  /\ Usable(w)
  /\ Step(w, "mark")
  /\ UNCHANGED <<rows, othersOfWorker, history>>

\* An approval found too old is expired on the spot, and its action with it.
CheckRefused(w) ==
  /\ worker[w].pc = "check"
  /\ ~Usable(w)
  /\ LET t == worker[w].task
         a == worker[w].approval
         late == /\ worker[w].kind = "approval"
                 /\ a \in lapsed
                 /\ approval[a].status = "approved"
     IN /\ approval' = IF late THEN [approval EXCEPT ![a].status = "expired"] ELSE approval
        /\ IF late /\ action[t].status = "approved"
           THEN SetAction(t, "expired") ELSE UNCHANGED action
  /\ Step(w, "failRead")
  /\ UNCHANGED <<taskState, slots, lapsed, wakes, othersOfWorker, history>>

MarkExecuting(w) ==
  /\ worker[w].pc = "mark"
  /\ LET t == worker[w].task IN
     IF action[t].status = "approved" THEN SetAction(t, "executing") ELSE UNCHANGED action
  /\ Step(w, "call")
  /\ UNCHANGED <<taskState, slots, approval, lapsed, wakes, othersOfWorker, history>>

\* executeWriteTask.  The provider may act and answer, act without an answer
\* that arrives, or not act at all; the last two look the same.
CallProvider(w) ==
  /\ worker[w].pc = "call"
  /\ \/ /\ sent' = sent \cup {[task |-> worker[w].task, attempt |-> worker[w].attempt,
                               payload |-> worker[w].payload, kind |-> worker[w].kind,
                               approval |-> worker[w].approval]}
        /\ \E pc \in {"confirmRead", "failRead"} : Step(w, pc)
     \/ Step(w, "failRead") /\ UNCHANGED sent
  /\ UNCHANGED <<rows, othersOfWorker, granted, readied, claimed>>

ConfirmRead(w) ==
  /\ worker[w].pc = "confirmRead"
  /\ Step(w, IF Legal(worker[w].task, "confirmed") THEN "confirmWrite" ELSE "failRead")
  /\ UNCHANGED <<rows, othersOfWorker, history>>

ConfirmWrite(w) ==
  /\ worker[w].pc = "confirmWrite"
  /\ SetState(worker[w].task, "confirmed")
  /\ Step(w, "settleSucceeded")
  /\ UNCHANGED <<slots, action, approval, lapsed, wakes, othersOfWorker,
                 granted, claimed, sent>>

\* The catch block's transition throws when failing is illegal too: the job
\* goes back to the queue, or dies when its attempts are used up.
FailRead(w) ==
  /\ worker[w].pc = "failRead"
  /\ LET t == worker[w].task IN
     IF Legal(t, "failed") THEN Step(w, "failWrite") /\ UNCHANGED wakes
     ELSE Idle(w) /\ (Enqueue(t) \/ UNCHANGED wakes)
  /\ UNCHANGED <<taskState, slots, action, approval, lapsed, othersOfWorker, history>>

FailWriteSettledAsSent(w) ==
  /\ worker[w].pc = "failWrite"
  /\ SetState(worker[w].task, "failed")
  /\ Step(w, "settleSucceeded")
  /\ UNCHANGED <<slots, action, approval, lapsed, wakes, othersOfWorker,
                 granted, claimed, sent>>

FailWrite(w) ==
  /\ worker[w].pc = "failWrite"
  /\ SetState(worker[w].task, "failed")
  /\ Step(w, "settleFailed")
  /\ UNCHANGED <<slots, action, approval, lapsed, wakes, othersOfWorker,
                 granted, claimed, sent>>

\* settleActionForTask touches only an action that is approved or executing.
Settle(w) ==
  /\ worker[w].pc \in {"settleSucceeded", "settleFailed"}
  /\ LET t == worker[w].task IN
     IF action[t].status \in {"approved", "executing"}
     THEN SetAction(t, IF worker[w].pc = "settleSucceeded" THEN "succeeded" ELSE "failed")
     ELSE UNCHANGED action
  /\ Idle(w)
  /\ UNCHANGED <<taskState, slots, approval, lapsed, wakes, othersOfWorker, history>>

\* The worker dies and comes back.  Its job row stays 'running' and claimJobs
\* never takes a task.wake row in that status again: the wake is lost.
WorkerDies(w) ==
  /\ worker[w].pc # "idle"
  /\ crashes < MaxCrashes
  /\ crashes' = crashes + 1
  /\ Idle(w)
  /\ UNCHANGED <<rows, turn, edit, history>>

WorkerStep(w) ==
  \/ TakeWake(w)        \/ ReadTask(w)     \/ ReadAction(w)   \/ Claim(w)
  \/ CheckAuthorized(w) \/ CheckRefused(w) \/ MarkExecuting(w)
  \/ CallProvider(w)    \/ ConfirmRead(w)  \/ ConfirmWrite(w)
  \/ FailRead(w)        \/ FailWrite(w)    \/ Settle(w)

----------------------------------------------------------------------------

Init ==
  /\ taskState = [t \in Tasks |-> "absent"]
  /\ slots = [t \in Tasks |-> None]
  /\ action = [t \in Tasks |-> ActionRow("absent")]
  /\ approval = [a \in Approvals |-> [status |-> "absent", task |-> None, hash |-> None]]
  /\ lapsed = {}
  /\ wakes = [t \in Tasks |-> 0]
  /\ turn = [u \in Turns |-> NewTurn]
  /\ edit = [e \in Edits |-> NewEdit]
  /\ worker = [w \in Workers |-> IdleWorker]
  /\ crashes = 0
  /\ granted = {}
  /\ readied = [t \in Tasks |-> 0]
  /\ claimed = [t \in Tasks |-> 0]
  /\ sent = {}

OwnerStep ==
  \/ \E e \in Edits : EditStep(e)
  \/ \E a \in Approvals, approve \in BOOLEAN : Decide(a, approve)

ClockStep ==
  \/ \E a \in Approvals : Lapse(a)
  \/ ExpirePrepared \/ ExpireApprovals \/ Reconcile

Next ==
  \/ \E u \in Turns : TurnStep(u)
  \/ OwnerStep
  \/ ClockStep
  \/ \E w \in Workers : WorkerStep(w) \/ WorkerDies(w)

Spec == Init /\ [][Next]_vars

\* The worker process ticks every 30 seconds and its approvals.expire schedule
\* fires for ever; the clock moves.  Nothing obliges a turn to continue or the
\* owner to answer.
FairSpec ==
  /\ Spec
  /\ \A w \in Workers : WF_vars(WorkerStep(w))
  /\ \A a \in Approvals : WF_vars(Lapse(a))
  /\ WF_vars(ExpirePrepared)

----------------------------------------------------------------------------
(* Properties.                                                             *)

TurnPcs == {"new", "drop", "dropRead", "dropCheck", "dropWrite", "look", "retire",
            "retireApproval", "retireRead", "retireWrite", "create", "attach",
            "merge", "policy", "request", "awaitRead", "awaitWrite", "prepare", "done"}
EditPcs == {"new", "slots", "filled", "write", "writeOnly", "wake", "done"}
WorkerPcs == {"idle", "read", "readAction", "claim", "check", "mark", "call", "confirmRead",
              "confirmWrite", "settleSucceeded", "failRead", "failWrite", "settleFailed"}
OrNone(S) == S \cup {None}
Kinds == {"approval", "user_policy"}

ActionRows == [status : ActionStatus \cup {"absent"}, kind : Kinds,
               approval : OrNone(Approvals), hash : OrNone(Payloads)]
ApprovalRows == [status : ApprovalStatus \cup {"absent"}, task : OrNone(Tasks),
                 hash : OrNone(Payloads)]
TurnStates == [pc : TurnPcs, task : OrNone(Tasks), payload : OrNone(Payloads),
               approval : OrNone(Approvals), seen : TaskStates \cup {"absent"}]
EditStates == [pc : EditPcs, task : OrNone(Tasks), to : TaskStates \cup {"none"}]
WorkerStates == [pc : WorkerPcs, task : OrNone(Tasks), attempt : Nat,
                 payload : OrNone(Payloads), kind : Kinds \cup {"none"},
                 approval : OrNone(Approvals), hash : OrNone(Payloads)]
Calls == [task : OrNone(Tasks), attempt : Nat, payload : OrNone(Payloads),
          kind : Kinds \cup {"none"}, approval : OrNone(Approvals)]

\* The shape of every row and of every process's local state.
TypeOK ==
  /\ taskState \in [Tasks -> TaskStates \cup {"absent"}]
  /\ slots \in [Tasks -> OrNone(Payloads)]
  /\ action \in [Tasks -> ActionRows]
  /\ approval \in [Approvals -> ApprovalRows]
  /\ lapsed \in SUBSET Approvals
  /\ wakes \in [Tasks -> Nat]
  /\ turn \in [Turns -> TurnStates]
  /\ edit \in [Edits -> EditStates]
  /\ worker \in [Workers -> WorkerStates]
  /\ crashes \in Nat
  /\ granted \in SUBSET (OrNone(Tasks) \X OrNone(Payloads))
  /\ readied \in [Tasks -> Nat]
  /\ claimed \in [Tasks -> Nat]
  /\ sent \in SUBSET Calls

\* What reaches a provider for a drafted action is, to the letter, something
\* its owner approved or a policy authorised, whatever was edited, retried,
\* superseded or expired in between.
ExactConsent ==
  \A x \in sent : x.kind # "none" => <<x.task, x.payload>> \in granted

\* Duplicate wakes, requeued jobs, dead workers and concurrent workers never
\* repeat a provider call by themselves: every call belongs to a claim of its
\* own, and every claim was paid for by a write that made the task ready.
OneCallPerReadyTask ==
  /\ \A x, y \in sent : x.task = y.task /\ x.attempt = y.attempt => x = y
  /\ \A x \in sent : x.attempt <= readied[x.task]

\* An action the owner denied, or a later draft replaced before it was
\* decided, never reaches a provider.
RefusedIsNeverSent ==
  \A x \in sent : x.kind # "none" =>
    action[x.task].status \notin {"collecting", "prepared", "denied", "superseded"}

\* The assistant tells the owner "it was sent" only when it was.
SucceededWasSent ==
  \A t \in Tasks : action[t].status = "succeeded" => \E x \in sent : x.task = t

\* The approval row and the action row it decides never tell two stories.
ApprovalAndActionAgree ==
  /\ \A a \in Approvals : approval[a].status = "approved" =>
       LET t == approval[a].task IN
       /\ action[t].approval = a
       /\ action[t].status \in {"approved", "executing", "succeeded", "failed", "expired"}
  /\ \A t \in Tasks : action[t].status = "denied" =>
       approval[action[t].approval].status = "denied"
  /\ \A t \in Tasks :
       action[t].kind = "approval" /\ action[t].status \in {"approved", "executing", "succeeded"} =>
         approval[action[t].approval].status \in {"approved", "expired"}

\* An outcome, once recorded, is never rewritten by a slower process.
OutcomeIsFinal ==
  [][\A t \in Tasks :
       action[t].status \in {"succeeded", "failed", "denied", "expired", "superseded"}
         => action'[t] = action[t]]_action

\* A prepared action does not stay actionable for ever: it is decided,
\* replaced, or expired by the worker.
PreparedIsSettled ==
  \A t \in Tasks : action[t].status = "prepared" ~> action[t].status # "prepared"

\* As long as no worker dies, a task made ready by a decision is attempted and
\* its action settled, unless the owner or a later draft moves the task away.
ApprovedIsSettled ==
  \A t \in Tasks :
    (action[t].status = "approved" /\ taskState[t] = "ready")
      ~> \/ action[t].status \in {"succeeded", "failed", "expired"}
         \/ taskState[t] \notin {"ready", "attempting"}
         \/ crashes > 0

\* No draft is forgotten, neither before its decision nor after it.
EveryDraftSettles == PreparedIsSettled /\ ApprovedIsSettled
============================================================================
