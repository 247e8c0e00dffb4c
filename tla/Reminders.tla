------------------------------ MODULE Reminders ------------------------------
(***************************************************************************)
(* Reminders on top of the push outbox: a reminder is written with the job *)
(* that will deliver it, an edit makes a new revision with a job of its    *)
(* own, and the job that finds its revision still scheduled delivers it to *)
(* the chat, to the outbox and, as well as it can, to Telegram.            *)
(*                                                                         *)
(*   packages/core/src/reminders.ts    the reminder and its delivery       *)
(*   packages/core/src/queue.ts        claimJobs, completeJob, failJob     *)
(*   apps/worker/src/jobs.ts           reminder.deliver                    *)
(*                                                                         *)
(* The explicit events of PushDelivery are the reminders here; a worker    *)
(* works its jobs off before it turns to the outbox.                       *)
(***************************************************************************)
EXTENDS PushDelivery, Sequences

CONSTANTS
  Texts,            \* what a reminder can say
  MaxTime,          \* reminders are set for times up to it
  MaxRevision,      \* revisions of a reminder in a behaviour
  MaxJobAttempts    \* job_queue.max_attempts

ASSUME TimeAssumption ==
  MaxTime \in Nat /\ MaxRevision \in Nat \ {0} /\ MaxJobAttempts \in Nat \ {0}

VARIABLES
  now,
  reminder,         \* the rows of reminders
  job,              \* job_queue: the reminder.deliver rows, by reminder and revision
  courier,          \* the job each worker is running
  inbox,            \* history: what was said in the conversation of a reminder
  telegrams         \* history: messages sent to Telegram for it

reminderVars == <<now, reminder, job, courier, inbox, telegrams>>
allVars == <<vars, reminderVars>>

Revisions == 1 .. MaxRevision
NoReminder == [status |-> "none", owner |-> None, text |-> None, due |-> 0, revision |-> 1]
NoJob == [status |-> "none", at |-> 0, attempts |-> 0]
NoErrand == [pc |-> "idle", reminder |-> None, revision |-> 1, text |-> None]

\* What a job or a worker that is at it holds.
Runs(w, r, n) ==
  courier[w].pc # "idle" /\ courier[w].reminder = r /\ courier[w].revision = n
Orphaned(r, n) == job[r][n].status = "running" /\ \A w \in Workers : ~Runs(w, r, n)

Enqueue(r, n, at) ==
  job' = [job EXCEPT ![r][n] = [status |-> "queued", at |-> at, attempts |-> 0]]

----------------------------------------------------------------------------
(* The owner.                                                              *)

\* createReminder: the row and its job in one transaction, for a time ahead.
Create(r, u, text, due) ==
  /\ reminder[r].status = "none"
  /\ due > now
  /\ reminder' = [reminder EXCEPT ![r] =
       [status |-> "scheduled", owner |-> u, text |-> text, due |-> due, revision |-> 1]]
  /\ Enqueue(r, 1, due)
  /\ UNCHANGED <<vars, now, courier, inbox, telegrams>>

\* The old job is trusted to deliver the new revision.
UpdateKeepsJob(r, text, due) ==
  /\ reminder[r].status = "scheduled"
  /\ reminder[r].revision < MaxRevision
  /\ due # reminder[r].due => due > now
  /\ reminder' = [reminder EXCEPT ![r] =
       [reminder[r] EXCEPT !.text = text, !.due = due, !.revision = @ + 1]]
  /\ UNCHANGED <<vars, now, job, courier, inbox, telegrams>>

\* updateReminder: what is not given stays, a time that is given lies ahead, and
\* the new revision gets a job; the job of the old one stays in the queue.
Update(r, text, due) ==
  /\ reminder[r].status = "scheduled"
  /\ reminder[r].revision < MaxRevision
  /\ due # reminder[r].due => due > now
  /\ reminder' = [reminder EXCEPT ![r] =
       [reminder[r] EXCEPT !.text = text, !.due = due, !.revision = @ + 1]]
  /\ Enqueue(r, reminder[r].revision + 1, due)
  /\ UNCHANGED <<vars, now, courier, inbox, telegrams>>

\* cancelReminder
Cancel(r) ==
  /\ reminder[r].status = "scheduled"
  /\ reminder' = [reminder EXCEPT ![r] =
       [reminder[r] EXCEPT !.status = "cancelled", !.revision = @ + 1]]
  /\ UNCHANGED <<vars, now, job, courier, inbox, telegrams>>

\* The clock goes on past MaxTime only while a job that failed waits for it.
Tick ==
  /\ now < MaxTime \/ \E r \in Explicit, n \in Revisions :
                        job[r][n].status = "queued" /\ job[r][n].at > now
  /\ now' = now + 1
  /\ UNCHANGED <<vars, reminder, job, courier, inbox, telegrams>>

----------------------------------------------------------------------------
(* reminder.deliver.                                                       *)

\* claimJobs takes queued rows only: one that was left running stays so.
ClaimJob(w, r, n) ==
  /\ courier[w].pc = "idle" /\ work[w].pc = "idle"
  /\ job[r][n].status = "queued" /\ job[r][n].at <= now
  /\ job' = [job EXCEPT ![r][n] = [job[r][n] EXCEPT !.status = "running", !.attempts = @ + 1]]
  /\ courier' = [courier EXCEPT ![w] = [NoErrand EXCEPT !.pc = "read", !.reminder = r, !.revision = n]]
  /\ UNCHANGED <<vars, now, reminder, inbox, telegrams>>

\* Without the revision.
DueWhatever(w) ==
  LET row == reminder[courier[w].reminder] IN
  row.status = "scheduled" /\ row.due <= now

Due(w) ==
  LET row == reminder[courier[w].reminder] IN
  row.status = "scheduled" /\ row.revision = courier[w].revision /\ row.due <= now

\* deliverReminder reads what to say ...
ReadBody(w) ==
  /\ courier[w].pc = "read"
  /\ courier' = [courier EXCEPT ![w] =
       IF Due(w) THEN [@ EXCEPT !.pc = "deliver", !.text = reminder[courier[w].reminder].text]
                 ELSE [@ EXCEPT !.pc = "complete"]]
  /\ UNCHANGED <<vars, now, reminder, job, inbox, telegrams>>

\* ... and deliverReminderPersisted says it: one statement claims the revision,
\* writes the message and the rows of the outbox.
Deliver(w) ==
  /\ courier[w].pc = "deliver"
  /\ LET r == courier[w].reminder IN
     IF Due(w)
       THEN /\ reminder' = [reminder EXCEPT ![r].status = "delivered"]
            /\ inbox' = [inbox EXCEPT ![r] = Append(@, courier[w].text)]
            /\ Outbox(r, reminder[r].owner, TRUE)
            /\ courier' = [courier EXCEPT ![w].pc = "telegram"]
       ELSE /\ courier' = [courier EXCEPT ![w].pc = "complete"]
            /\ UNCHANGED <<reminder, inbox, push>>
  /\ UNCHANGED <<device, lock, work, overdue, gone, copies, bounds, now, job, telegrams>>

\* deliverReminderToTelegram: sent or not, the job goes on.
Telegram(w, sent) ==
  /\ courier[w].pc = "telegram"
  /\ telegrams' = IF sent THEN [telegrams EXCEPT ![courier[w].reminder] = @ + 1] ELSE telegrams
  /\ courier' = [courier EXCEPT ![w].pc = "complete"]
  /\ UNCHANGED <<vars, now, reminder, job, inbox>>

CompleteJob(w) ==
  /\ courier[w].pc = "complete"
  /\ job' = [job EXCEPT ![courier[w].reminder][courier[w].revision].status = "done"]
  /\ courier' = [courier EXCEPT ![w] = NoErrand]
  /\ UNCHANGED <<vars, now, reminder, inbox, telegrams>>

\* A query fails: failJob queues the job again or gives it up, and puts its time off: a
\* tick stands for the backoff.
FailJob(w) ==
  /\ courier[w].pc \in {"read", "deliver"}
  /\ trouble < MaxTrouble /\ trouble' = trouble + 1
  /\ LET row == job[courier[w].reminder][courier[w].revision] IN
     job' = [job EXCEPT ![courier[w].reminder][courier[w].revision] =
       [row EXCEPT !.status = IF row.attempts >= MaxJobAttempts THEN "dead" ELSE "queued",
                   !.at = now + 1]]
  /\ courier' = [courier EXCEPT ![w] = NoErrand]
  /\ UNCHANGED <<device, push, lock, work, overdue, gone, copies, registrations,
                 now, reminder, inbox, telegrams>>

DieOnErrand(w) ==
  /\ courier[w].pc # "idle"
  /\ trouble < MaxTrouble /\ trouble' = trouble + 1
  /\ courier' = [courier EXCEPT ![w] = NoErrand]
  /\ UNCHANGED <<device, push, lock, work, overdue, gone, copies, registrations,
                 now, reminder, job, inbox, telegrams>>

----------------------------------------------------------------------------
AllInit ==
  /\ Init
  /\ now = 0
  /\ reminder = [r \in Explicit |-> NoReminder]
  /\ job = [r \in Explicit |-> [n \in Revisions |-> NoJob]]
  /\ courier = [w \in Workers |-> NoErrand]
  /\ inbox = [r \in Explicit |-> << >>]
  /\ telegrams = [r \in Explicit |-> 0]

Owner ==
  \/ \E r \in Explicit, u \in Users, text \in Texts, due \in 1 .. MaxTime : Create(r, u, text, due)
  \/ \E r \in Explicit, text \in Texts, due \in 1 .. MaxTime : Update(r, text, due)
  \/ \E r \in Explicit : Cancel(r)

Errand(w) ==
  \/ \E r \in Explicit, n \in Revisions : ClaimJob(w, r, n)
  \/ ReadBody(w) \/ Deliver(w)
  \/ \E sent \in BOOLEAN : Telegram(w, sent)
  \/ CompleteJob(w)

Trouble(w) == FailJob(w) \/ DieOnErrand(w)

\* The outbox goes on as before; here only reminders write to it.
Pushing ==
  /\ Environment \/ \E w \in Workers : courier[w].pc = "idle" /\ (Step(w) \/ Die(w))
  /\ UNCHANGED reminderVars

AllNext == Owner \/ Tick \/ Pushing \/ \E w \in Workers : Errand(w) \/ Trouble(w)
AllSpec == AllInit /\ [][AllNext]_allVars

Sending(w) == courier[w].pc = "idle" /\ Step(w) /\ UNCHANGED reminderVars
AllFairness ==
  /\ WF_allVars(Tick)
  /\ \A w \in Workers : WF_allVars(Errand(w)) /\ WF_allVars(Sending(w))
AllFairSpec == AllSpec /\ AllFairness

----------------------------------------------------------------------------
(* Properties.                                                             *)

\* The conversation says what the reminder says, once, when it is due: a body
\* read before an edit is not delivered after it, and a reminder that is
\* cancelled or moved while its job runs is not delivered at all.  Telegram and
\* the outbox only repeat what was said, Telegram at most once however often the
\* job is tried.
SaidAsItStands ==
  \A r \in Explicit :
    LET delivered == reminder[r].status = "delivered" IN
    /\ inbox[r] = IF delivered THEN <<reminder[r].text>> ELSE << >>
    /\ telegrams[r] <= Len(inbox[r])
    /\ \A p \in Rows : p[1] = r /\ push[p].status # "none" =>
         delivered /\ OwnerOf(p) = reminder[r].owner

\* A reminder that is still to come has the job of its own revision, and not for a time
\* before its own: whatever was edited, and whichever jobs ran, failed and were put off,
\* none was used up or came too early to find it due.
ScheduledKeepsItsJob ==
  \A r \in Explicit : reminder[r].status = "scheduled" =>
    LET row == job[r][reminder[r].revision] IN
    row.status \in {"queued", "running", "dead"} /\ row.at >= reminder[r].due

\* A reminder is delivered or cancelled in the end, unless the worker running its
\* job died (only assistant turns are claimed again) or the job was given up.
ReminderComes ==
  \A r \in Explicit : reminder[r].status = "scheduled" ~>
    \/ reminder[r].status # "scheduled"
    \/ Orphaned(r, reminder[r].revision)
    \/ job[r][reminder[r].revision].status = "dead"
=============================================================================
