---------------------------- MODULE ApprovalClock ---------------------------
(***************************************************************************)
(* How long one request waits for its approver, and whom the daily sweep   *)
(* of approval-sla.service.ts mails about it. The age of a stage is        *)
(* derived from createdAt or managerApprovedAt; that its reminder and its  *)
(* escalation were sent is in two columns. Time is in days. The sweep over *)
(* many rows, and rows that change under it, are in TokenRequests.         *)
(***************************************************************************)
EXTENDS Integers

CONSTANTS
  SlaDays,          \* APPROVAL_SLA_DAYS
  EscalationDays,   \* APPROVAL_ESCALATION_DAYS
  MaxDay            \* bound: the clock

VARIABLES
  request,   \* the columns the clock depends on
  today,
  mails      \* reminders and escalations of this stay in a stage (history)

vars == <<request, today, mails>>

Never == -1
Days == {Never} \cup 0..MaxDay
Stages == {"pending", "manager_approved"}
Statuses == Stages \cup {"none", "approved", "rejected", "cancelled"}

Request ==
  [status : Statuses, createdAt : Days, managerApprovedAt : Days, reminded : BOOLEAN,
   escalated : BOOLEAN, decision : {"none", "manager", "hr"}, decidedAt : Days,
   previous : Statuses]

Init ==
  /\ request = [status |-> "none", createdAt |-> Never, managerApprovedAt |-> Never,
                reminded |-> FALSE, escalated |-> FALSE, decision |-> "none",
                decidedAt |-> Never, previous |-> "none"]
  /\ today = 0
  /\ mails = [reminder |-> 0, escalation |-> 0]

NoMails == [reminder |-> 0, escalation |-> 0]

-----------------------------------------------------------------------------
(* The request moves *)

Enter(row) == request' = row /\ mails' = NoMails /\ UNCHANGED today

Move(row) == request' = row /\ UNCHANGED <<mails, today>>

\* Both mails of a stage are due again.
Rearmed(row) == [row EXCEPT !.reminded = FALSE, !.escalated = FALSE]

\* stampDecision
Decided(row, decision) ==
  [row EXCEPT !.decision = decision, !.decidedAt = today, !.previous = request.status]

Submit ==
  /\ request.status = "none"
  /\ Enter([request EXCEPT !.status = "pending", !.createdAt = today])

\* Faulty: the approval is not dated.
UndatedApproval(next) == Rearmed([Decided(request, "manager") EXCEPT !.status = next])

\* With or without a stage of HR to come.
FirstApproval(next) ==
  Rearmed([Decided(request, "manager") EXCEPT !.status = next, !.managerApprovedAt = today])

ManagerApprove ==
  /\ request.status = "pending"
  /\ \E next \in {"manager_approved", "approved"} : Enter(FirstApproval(next))

HrApprove ==
  /\ request.status = "manager_approved"
  /\ Move([Decided(request, "hr") EXCEPT !.status = "approved"])

\* The option no longer requires HR.
Finalize ==
  /\ request.status = "manager_approved"
  /\ Move(Rearmed([request EXCEPT !.status = "approved"]))

Reject ==
  /\ request.status \in Stages
  /\ \E by \in {"manager", "hr"} :
       /\ by = "manager" => request.status = "pending"
       /\ Move([Decided(request, by) EXCEPT !.status = "rejected"])

Cancel ==
  /\ request.status \in Stages
  /\ Move([request EXCEPT !.status = "cancelled", !.decision = "none"])

\* undoDecision, within the hour.
Undo ==
  /\ request.decision # "none" /\ request.decidedAt = today
  /\ request.status \in {"manager_approved", "approved", "rejected"}
  /\ Enter(Rearmed([request EXCEPT
       !.status = request.previous, !.decision = "none",
       !.managerApprovedAt = IF request.decision = "manager" /\ request.status # "rejected"
                             THEN Never ELSE @]))

Resubmit ==
  /\ request.status = "rejected"
  /\ Enter(Rearmed([request EXCEPT !.status = "pending", !.decision = "none",
                                   !.managerApprovedAt = Never]))

-----------------------------------------------------------------------------
(* The sweep *)

StageStart ==
  IF request.status = "manager_approved" /\ request.managerApprovedAt # Never
  THEN request.managerApprovedAt ELSE request.createdAt

DaysPending == today - StageStart

Waiting == request.status \in Stages

\* Faulty: escalated on the day, or never.
DueOnTheDay == Waiting /\ DaysPending = EscalationDays /\ ~request.escalated

EscalationDue == Waiting /\ DaysPending >= EscalationDays /\ ~request.escalated

ReminderDue == Waiting /\ DaysPending >= SlaDays /\ ~request.reminded

\* notifyContacts: whom it reaches is left out.
NotifyContacts(kind) == mails' = [mails EXCEPT ![kind] = @ + 1]

Escalate ==
  /\ EscalationDue
  /\ request' = [request EXCEPT !.escalated = TRUE]
  /\ NotifyContacts("escalation")
  /\ UNCHANGED today

Remind ==
  /\ ReminderDue /\ ~EscalationDue
  /\ request' = [request EXCEPT !.reminded = TRUE]
  /\ NotifyContacts("reminder")
  /\ UNCHANGED today

\* runNow: one mail per request and sweep.
Sweep == Escalate \/ Remind

\* Faulty: a nudge re-arms the reminder of the sweep.
Rearms == request' = Rearmed(request)

KeepsSchedule == UNCHANGED request

\* nudge mails, as often as an admin likes, and writes nothing.
Nudge == Waiting /\ KeepsSchedule /\ UNCHANGED <<mails, today>>

Tick == today < MaxDay /\ today' = today + 1 /\ UNCHANGED <<request, mails>>

Next ==
  \/ Submit \/ ManagerApprove \/ HrApprove \/ Finalize \/ Reject \/ Cancel \/ Undo
  \/ Resubmit \/ Sweep \/ Nudge \/ Tick

\* The sweep runs every day, and one that fails is made up for by the next.
Fairness == WF_vars(Sweep)

Spec == Init /\ [][Next]_vars /\ Fairness

-----------------------------------------------------------------------------
(* Properties *)

\* The columns have their types.
TypeOK == request \in Request /\ today \in 0..MaxDay

\* A stay in a stage is reminded of once and escalated once, nudges or not.
OneMailOfAKind == mails.reminder <= 1 /\ mails.escalation <= 1

\* The queue of HR starts with a fresh clock, however long the manager took.
HrStageStartsFresh ==
  [][/\ request.status = "pending" /\ request'.status = "manager_approved"
     => DaysPending' = 0 /\ ~EscalationDue' /\ ~ReminderDue']_vars

\* A request nobody decides is escalated, also when sweeps were missed.
StalledIsEscalated ==
  \A stage \in Stages :
    request.status = stage /\ DaysPending >= EscalationDays
      ~> request.status # stage \/ request.escalated

\* "The SLA clock starts over" when a request is back at the start of the pipeline: it
\* is not overdue there on arrival.
ClockStartsOver ==
  [][request.status \notin {"pending", "none"} /\ request'.status = "pending"
     => ~ReminderDue' /\ ~EscalationDue']_vars

=============================================================================
