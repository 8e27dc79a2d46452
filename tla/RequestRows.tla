----------------------------- MODULE RequestRows -----------------------------
(***************************************************************************)
(* One row of token_requests, and what each handler of                     *)
(* token-requests.service.ts does to the entity it has loaded: its guard   *)
(* on the loaded row (Can...) and the row it is about to write back.       *)
(* Timestamps that only say "this happened" are booleans; the time of the  *)
(* last decision is kept, the undo window is measured from it.             *)
(*                                                                         *)
(* An operator under a comment "Faulty: ..." is a variant of the one that  *)
(* follows it, with a plausible mistake in it. No specification uses them; *)
(* each is substituted for the definition it is a variant of to see that   *)
(* a property notices.                                                     *)
(***************************************************************************)
EXTENDS Integers

CONSTANTS
  Employees,    \* users that submit requests
  Users,        \* every user, employees and approvers alike
  HrApprovers,  \* users with the hr_approver role
  Admins,       \* users with the admin role
  UndoWindow    \* APPROVAL_UNDO_WINDOW_MS, in ticks of the clock

Nobody == "nobody"

ASSUME UsersAssumption ==
  /\ Nobody \notin Users
  /\ Employees \subseteq Users
  /\ HrApprovers \subseteq Users
  /\ Admins \subseteq Users
ASSUME WindowAssumption == UndoWindow \in Nat

OptionTypes == {"task_offloading", "coaching", "learning_subsidy"}
Pipeline == {"pending", "manager_approved"}
Statuses == Pipeline \cup {"approved", "rejected", "cancelled"}

DecisionTypes == {"manager_approve", "hr_approve", "manager_reject", "hr_reject"}

(***************************************************************************)
(* lastDecisionType, lastDecisionById, lastDecisionAt, previousStatus and  *)
(* lastDecisionUndoneAt: five columns that are always written together.    *)
(***************************************************************************)
Decision ==
  [type : DecisionTypes \cup {"none"}, by : Users \cup {Nobody}, at : Nat,
   previous : Pipeline \cup {"none"}, undone : BOOLEAN]

NoDecision ==
  [type |-> "none", by |-> Nobody, at |-> 0, previous |-> "none", undone |-> FALSE]

Row ==
  [status : Statuses \cup {"none"},
   type : OptionTypes \cup {"none"},
   cost : Nat,
   year : Nat,
   employee : Employees \cup {Nobody},
   manager : Users \cup {Nobody},
   coach : Users \cup {Nobody},                 \* formData.coachId
   managerApproved : BOOLEAN,                   \* managerApprovedAt
   hrApproved : BOOLEAN,                        \* hrId, hrApprovedAt
   rejectedBy : {"none", "manager", "hr"},      \* rejectedByLevel
   decision : Decision,
   reminded : BOOLEAN,                          \* slaRemindedAt
   escalated : BOOLEAN]                         \* slaEscalatedAt

\* An id no row has been inserted under yet.
Vacant ==
  [status |-> "none", type |-> "none", cost |-> 0, year |-> 0,
   employee |-> Nobody, manager |-> Nobody, coach |-> Nobody,
   managerApproved |-> FALSE, hrApproved |-> FALSE, rejectedBy |-> "none",
   decision |-> NoDecision, reminded |-> FALSE, escalated |-> FALSE]

NewRequest(e, t, cost, year, approver, coach) ==
  [Vacant EXCEPT !.status = "pending", !.type = t, !.cost = cost, !.year = year,
                 !.employee = e, !.manager = approver, !.coach = coach]

Stamp(type, by, previous, at) ==
  [type |-> type, by |-> by, at |-> at, previous |-> previous, undone |-> FALSE]

-----------------------------------------------------------------------------
(* Approvals *)

CanManagerApprove(row, approver) ==
  /\ row.status = "pending"
  /\ row.manager = approver

ManagerApproved(row, needsHr, at) ==
  [row EXCEPT !.status = IF needsHr THEN "manager_approved" ELSE "approved",
              !.managerApproved = TRUE,
              !.reminded = FALSE,
              !.escalated = FALSE,
              !.decision = Stamp("manager_approve", row.manager, "pending", at)]

\* Faulty: HR may act before the first level has.
CanHrApproveEarly(row) == row.status \in Pipeline

CanHrApprove(row) == row.status = "manager_approved"

HrApproved(row, hr, at) ==
  [row EXCEPT !.status = "approved",
              !.hrApproved = TRUE,
              !.decision = Stamp("hr_approve", hr, "manager_approved", at)]

\* The option stopped asking for HR: no decision is stamped.
PolicyApproved(row) ==
  [row EXCEPT !.status = "approved", !.reminded = FALSE, !.escalated = FALSE]

-----------------------------------------------------------------------------
(* Rejection, withdrawal and a second attempt *)

CanReject(row, rejector, level) ==
  \/ level = "manager" /\ row.status = "pending" /\ row.manager = rejector
  \/ level = "hr" /\ row.status \in Pipeline /\ rejector \in HrApprovers

\* Faulty: every rejection is recorded as taken from pending.
RejectedFromPending(row, rejector, level, at) ==
  [row EXCEPT !.status = "rejected",
              !.rejectedBy = level,
              !.decision = Stamp(IF level = "manager" THEN "manager_reject" ELSE "hr_reject",
                                 rejector, "pending", at)]

Rejected(row, rejector, level, at) ==
  [row EXCEPT !.status = "rejected",
              !.rejectedBy = level,
              !.decision = Stamp(IF level = "manager" THEN "manager_reject" ELSE "hr_reject",
                                 rejector, row.status, at)]

\* Faulty: an approved request can be withdrawn.
CanCancelApproved(row) == row.status \in Pipeline \cup {"approved"}

CanCancel(row) == row.status \in Pipeline

\* Faulty: the withdrawn request keeps its undo record.
CancelledUndoably(row) == [row EXCEPT !.status = "cancelled"]

Cancelled(row) ==
  [row EXCEPT !.status = "cancelled", !.decision = NoDecision]

\* Faulty: a withdrawn request can be resubmitted.
CanResubmitAny(row) == row.status \in {"rejected", "cancelled"}

CanResubmit(row) == row.status = "rejected"

\* Faulty: the first level's approval survives the resubmission.
ResubmittedApproved(row, cost, coach) ==
  [row EXCEPT !.status = "pending", !.cost = cost, !.coach = coach,
              !.rejectedBy = "none", !.reminded = FALSE, !.escalated = FALSE,
              !.decision = NoDecision]

Resubmitted(row, cost, coach) ==
  [row EXCEPT !.status = "pending",
              !.cost = cost,
              !.coach = coach,
              !.rejectedBy = "none",
              !.reminded = FALSE,
              !.escalated = FALSE,
              !.managerApproved = FALSE,
              !.decision = NoDecision]

-----------------------------------------------------------------------------
(* Undo *)

\* DECISION_RESULT_STATUS: the statuses a decision of this type leads to.
LeadsTo(type, status) ==
  \/ type = "manager_approve" /\ status \in {"manager_approved", "approved"}
  \/ type = "hr_approve" /\ status = "approved"
  \/ type \in {"manager_reject", "hr_reject"} /\ status = "rejected"

\* A decision is recorded and has not been undone.
Live(decision) == decision.type # "none" /\ ~decision.undone

CanUndo(row, actor, now) ==
  /\ row.decision.type # "none"
  /\ now - row.decision.at <= UndoWindow
  /\ ~row.decision.undone
  /\ LeadsTo(row.decision.type, row.status)
  /\ actor = row.decision.by \/ actor \in Admins
  /\ row.decision.previous # "none"

\* Faulty: the undone approval keeps its approval columns.
UndoneStillMarked(row) ==
  [row EXCEPT !.status = row.decision.previous, !.reminded = FALSE,
              !.escalated = FALSE, !.decision.undone = TRUE]

Undone(row) ==
  LET type == row.decision.type IN
  [row EXCEPT !.status = row.decision.previous,
              !.managerApproved = @ /\ type # "manager_approve",
              !.hrApproved = @ /\ type # "hr_approve",
              !.rejectedBy = IF type \in {"manager_reject", "hr_reject"} THEN "none" ELSE @,
              !.reminded = FALSE,
              !.escalated = FALSE,
              !.decision = [@ EXCEPT !.undone = TRUE]]

-----------------------------------------------------------------------------
(* What the columns of one row say about each other *)

\* The statuses from which a decision of this type can be taken.
TakenFrom(type, status) ==
  \/ type \in {"manager_approve", "manager_reject"} /\ status = "pending"
  \/ type = "hr_approve" /\ status = "manager_approved"
  \/ type = "hr_reject" /\ status \in Pipeline

(***************************************************************************)
(* The undo record describes the status the row is in: a decision that has *)
(* not been undone is the one that led to the current status, it remembers *)
(* a status it can really have been taken from, and a withdrawn request    *)
(* has none. Undo relies on it to know what it is reversing.               *)
(***************************************************************************)
DecisionAgrees(row) ==
  /\ Live(row.decision) => LeadsTo(row.decision.type, row.status)
  /\ row.decision.type # "none" => TakenFrom(row.decision.type, row.decision.previous)
  /\ row.status = "rejected" => Live(row.decision)
  /\ row.status = "cancelled" => row.decision = NoDecision

(***************************************************************************)
(* The columns that record who has approved or rejected agree with the     *)
(* status: no stage keeps the mark of a stage it was taken back from, and  *)
(* the mark the next stage reads (managerApprovedAt for the HR clock,      *)
(* managerApprovedAt or hrApprovedAt for the day tokens were spent) is set.*)
(***************************************************************************)
AuditAgrees(row) ==
  /\ row.status = "pending" => ~row.managerApproved
  /\ row.status \in {"manager_approved", "approved"} => row.managerApproved
  /\ row.hrApproved <=> /\ row.status = "approved"
                        /\ row.decision.type = "hr_approve" /\ ~row.decision.undone
  /\ row.rejectedBy = "manager" <=> /\ row.status = "rejected"
                                    /\ row.decision.type = "manager_reject"
  /\ row.rejectedBy = "hr" <=> /\ row.status = "rejected"
                               /\ row.decision.type = "hr_reject"
  /\ row.status = "rejected" =>
       (row.managerApproved <=> row.decision.previous = "manager_approved")

=============================================================================
