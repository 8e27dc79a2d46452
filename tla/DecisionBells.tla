----------------------------- MODULE DecisionBells -----------------------------
(***************************************************************************)
(* The bell entries that the decisions on one request leave, and what an   *)
(* undone decision takes back of them: the tails of the handlers of        *)
(* token-requests.service.ts, and deleteForRequestByTitles. The undo       *)
(* deletes after its transaction, when others act on the request already,  *)
(* and may fail to. The inserts of a handler are taken to be done when the *)
(* next handler starts, although none of them is awaited. The notices of   *)
(* one undo at a time. Who may act, and the rows and tokens of requests,   *)
(* are in TokenRequests.                                                   *)
(***************************************************************************)
EXTENDS FiniteSets

CONSTANTS
  Approvers,   \* people who may have the role of HR
  Employee     \* whose request it is

VARIABLES
  request,
  hrUsers,     \* active users with the role of HR
  bells,       \* the entries about the request: recipient and title
  undoing,     \* the undo whose notices are being sent
  uncleared    \* titles a failed undo has left behind (history)

vars == <<request, hrUsers, bells, undoing, uncleared>>

Approvals == {"manager_approve", "hr_approve"}
Rejections == {"manager_reject", "hr_reject"}
Decisions == Approvals \cup Rejections
Statuses == {"pending", "manager_approved", "approved", "rejected", "cancelled"}

Request ==
  [status : Statuses, decision : Decisions \cup {"none"}, previous : Statuses,
   resubmitted : BOOLEAN]

\* DECISION_TITLES
Titles == {"APPROVED_FINAL", "APPROVED_BY_MANAGER", "PENDING_HR", "REJECTED"}

Entries == ({Employee} \X (Titles \ {"PENDING_HR"})) \cup (Approvers \X {"PENDING_HR"})

NoUndo == [step |-> "none", decision |-> "none", hr |-> {}]

Init ==
  /\ request = [status |-> "pending", decision |-> "none", previous |-> "pending",
                resubmitted |-> FALSE]
  /\ hrUsers \in SUBSET Approvers
  /\ bells = {} /\ undoing = NoUndo /\ uncleared = {}

ToEmployee(title) == {<<Employee, title>>}

-----------------------------------------------------------------------------
(* Decisions *)

Decide(decision, status, entries) ==
  /\ request' = [request EXCEPT !.decision = decision, !.status = status,
                                !.previous = request.status]
  /\ bells' = bells \cup entries
  /\ UNCHANGED <<hrUsers, undoing, uncleared>>

\* finalizeApproval, for an option without HR
ApproveFinally ==
  /\ request.status = "pending"
  /\ Decide("manager_approve", "approved", ToEmployee("APPROVED_FINAL"))

ApproveToHr ==
  /\ request.status = "pending"
  /\ Decide("manager_approve", "manager_approved",
            ToEmployee("APPROVED_BY_MANAGER") \cup (hrUsers \X {"PENDING_HR"}))

HrApprove ==
  /\ request.status = "manager_approved"
  /\ Decide("hr_approve", "approved", ToEmployee("APPROVED_FINAL"))

\* The policy is not a decision: the one recorded stays.
Finalize ==
  /\ request.status = "manager_approved"
  /\ request' = [request EXCEPT !.status = "approved"]
  /\ bells' = bells \cup ToEmployee("APPROVED_FINAL")
  /\ UNCHANGED <<hrUsers, undoing, uncleared>>

Reject ==
  \/ /\ request.status = "pending"
     /\ Decide("manager_reject", "rejected", ToEmployee("REJECTED"))
  \/ /\ request.status \in {"pending", "manager_approved"}
     /\ Decide("hr_reject", "rejected", ToEmployee("REJECTED"))

Cancel ==
  /\ request.status \in {"pending", "manager_approved"}
  /\ request' = [request EXCEPT !.status = "cancelled", !.decision = "none"]
  /\ UNCHANGED <<hrUsers, bells, undoing, uncleared>>

Resubmit ==
  /\ request.status = "rejected"
  /\ request' = [request EXCEPT !.status = "pending", !.decision = "none",
                                !.resubmitted = TRUE]
  /\ UNCHANGED <<hrUsers, bells, undoing, uncleared>>

\* Roles and activation
ChangeHr(h) ==
  /\ hrUsers' = IF h \in hrUsers THEN hrUsers \ {h} ELSE hrUsers \cup {h}
  /\ UNCHANGED <<request, bells, undoing, uncleared>>

-----------------------------------------------------------------------------
(* Undoing *)

\* The transaction of undoDecision, which decides what its notices are about.
Undo ==
  /\ undoing = NoUndo
  /\ request.decision # "none"
  /\ request.status \in {"manager_approved", "approved", "rejected"}
  /\ request' = [request EXCEPT !.status = request.previous, !.decision = "none"]
  /\ undoing' = [NoUndo EXCEPT !.step = "find", !.decision = request.decision]
  /\ UNCHANGED <<hrUsers, bells, uncleared>>

\* Only these two decisions concern HR.
FindHr ==
  /\ undoing.step = "find"
  /\ undoing' = [undoing EXCEPT !.step = "employee",
       !.hr = IF undoing.decision \in {"manager_approve", "hr_reject"} THEN hrUsers ELSE {}]
  /\ UNCHANGED <<request, hrUsers, bells, uncleared>>

\* Faulty: an approval is taken back where it has its own title only.
TitlesOfDecision(decision) ==
  CASE decision = "manager_approve" -> {"APPROVED_BY_MANAGER"}
    [] decision = "hr_approve" -> {"APPROVED_FINAL"}
    [] OTHER -> {"REJECTED"}

Reversed(decision) ==
  IF decision \in Approvals THEN {"APPROVED_FINAL", "APPROVED_BY_MANAGER"}
  ELSE {"REJECTED"}

QueueEntries(decision, hr) ==
  IF decision = "manager_approve" THEN hr \X {"PENDING_HR"} ELSE {}

\* deleteForRequestByTitles, for the employee and then for HR; the first to fail
\* ends the clearing, and the undo goes on to tell everyone.
Clear(step, next, entries) ==
  /\ undoing.step = step
  /\ \/ /\ bells' = bells \ entries
        /\ undoing' = IF next = "none" THEN NoUndo ELSE [undoing EXCEPT !.step = next]
        /\ UNCHANGED uncleared
     \/ /\ undoing' = NoUndo
        /\ uncleared' = uncleared \cup {e[2] : e \in bells}
        /\ UNCHANGED bells
  /\ UNCHANGED <<request, hrUsers>>

ClearForEmployee ==
  Clear("employee", "hr", {Employee} \X Reversed(undoing.decision))

ClearForHr == Clear("hr", "none", QueueEntries(undoing.decision, undoing.hr))

Next ==
  \/ ApproveFinally \/ ApproveToHr \/ HrApprove \/ Finalize \/ Reject \/ Cancel
  \/ Resubmit \/ \E h \in Approvers : ChangeHr(h)
  \/ Undo \/ FindHr \/ ClearForEmployee \/ ClearForHr

Spec == Init /\ [][Next]_vars

-----------------------------------------------------------------------------
(* Properties *)

\* The request and its entries have their types.
TypeOK ==
  /\ request \in Request /\ hrUsers \subseteq Approvers /\ bells \subseteq Entries
  /\ undoing.hr \subseteq Approvers /\ uncleared \subseteq Titles

\* "so the bell doesn't keep showing an outcome that no longer holds": an employee
\* who reads of an approval has a request that is approved, and one who reads of a
\* rejection has one that is rejected or was resubmitted; whoever decided, whether HR
\* was skipped or given up, and unless the deletion is still to come or has failed.
EmployeeBellsStand ==
  undoing.step \notin {"find", "employee"} =>
    /\ <<Employee, "APPROVED_FINAL">> \in bells /\ "APPROVED_FINAL" \notin uncleared
         => request.status = "approved"
    /\ <<Employee, "REJECTED">> \in bells /\ "REJECTED" \notin uncleared
         => request.status = "rejected" \/ request.resubmitted

=============================================================================
