----------------------------- MODULE ApprovalViews -----------------------------
(***************************************************************************)
(* What approvers see of the token requests: the approval queue and the    *)
(* history with its tabs, as token-requests.service.ts selects them from   *)
(* the rows, behind the role guards of the controller.                     *)
(***************************************************************************)
EXTENDS TokenRequests

CONSTANT Approvers   \* users with the approver role

\* A request is routed to a supervisor who is an approver, or refused; and somebody
\* is left to decide at the second level: the last admin is never removed.
ASSUME ReviewersAssumption ==
  /\ \A e \in Employees : Supervisor[e] \in Approvers
  /\ HrApprovers \cup Admins # {}

\* The roles whose holders reach the queue and the history.
Reviewers == Approvers \cup Coaches \cup HrApprovers \cup Admins

WithStatus(statuses) == {r \in Requests : requests[r].status \in statuses}

AssignedTo(u) == {r \in Requests : requests[r].manager = u}

\* hrId and rejectedById, each written along with the decision it is the actor of.
HrApprovedBy(u) == {r \in Requests : requests[r].hrApproved /\ requests[r].decision.by = u}

HrRejectedBy(u) ==
  {r \in Requests : requests[r].rejectedBy = "hr" /\ requests[r].decision.by = u}

-----------------------------------------------------------------------------
(* findApprovalQueue: what waits for this user, and at which level *)

\* Faulty: forgets that a coach who is no approver decides too.
QueueOfApprovers(u) ==
  {r \in AssignedTo(u) : u \in Approvers \cup Admins /\ requests[r].status = "pending"}

ManagerQueue(u) ==
  {r \in AssignedTo(u) :
     /\ requests[r].status = "pending"
     /\ \/ u \in Approvers \cup Admins
        \/ u \in Coaches /\ requests[r].type = "coaching"}

HrQueue(u) ==
  IF u \in HrApprovers \cup Admins THEN WithStatus({"manager_approved"}) ELSE {}

-----------------------------------------------------------------------------
(* findApprovalHistory *)

Tabs == {"none", "pending", "approved", "rejected"}

AdminStatuses ==
  [none |-> Statuses, pending |-> Pipeline, approved |-> {"approved"},
   rejected |-> {"rejected", "cancelled"}]

ManagerStatuses ==
  [none |-> Statuses, pending |-> {"pending"},
   approved |-> {"manager_approved", "approved"}, rejected |-> {"rejected", "cancelled"}]

HrHistory(u, tab) ==
  CASE tab = "none" -> WithStatus({"manager_approved"}) \cup HrApprovedBy(u) \cup HrRejectedBy(u)
    [] tab = "pending" -> WithStatus({"manager_approved"})
    [] tab = "approved" -> WithStatus({"approved"}) \cap HrApprovedBy(u)
    [] tab = "rejected" -> HrRejectedBy(u)

\* Faulty: HR's own decisions are not looked up when there is no tab.
HistoryOfStatuses(u, tab) ==
  IF u \in Admins THEN WithStatus(AdminStatuses[tab])
  ELSE {r \in AssignedTo(u) : /\ u \in Approvers \cup Coaches
                              /\ requests[r].status \in ManagerStatuses[tab]}

\* An admin sees every request; others the union of what their roles entitle to.
ApprovalHistory(u, tab) ==
  IF u \in Admins THEN WithStatus(AdminStatuses[tab])
  ELSE {r \in AssignedTo(u) : /\ u \in Approvers \cup Coaches
                              /\ requests[r].status \in ManagerStatuses[tab]}
       \cup (IF u \in HrApprovers THEN HrHistory(u, tab) ELSE {})

-----------------------------------------------------------------------------
(* findAll: the admin's list *)

AllStatuses ==
  [none |-> Statuses, active |-> Pipeline, completed |-> {"approved"},
   rejected |-> {"rejected", "cancelled"}]

AllRequests(tab) == WithStatus(AllStatuses[tab])

-----------------------------------------------------------------------------
(* Properties *)

\* Whatever waits for a decision is in the queue of somebody whose decision the
\* service accepts, and a queue shows nothing its reader may not decide. What admins
\* see as active is what waits in these queues.
QueuesAreDecidable ==
  /\ \A r \in WithStatus({"pending"}) :
       \E u \in Reviewers : r \in ManagerQueue(u) /\ CanManagerApprove(requests[r], u)
  /\ \A u \in Reviewers :
       /\ \A r \in ManagerQueue(u) : CanManagerApprove(requests[r], u)
       /\ \A r \in HrQueue(u) : CanHrApprove(requests[r])
  /\ AllRequests("active") = UNION {ManagerQueue(u) \cup HrQueue(u) : u \in Reviewers}

\* A decision that stands is in the history of who took it, on the tab of what it
\* was, and leaves that tab when it is undone or the request is resubmitted: the
\* rejected tab of HR filters on who rejected and not on the status.
HistoryFollowsDecisions ==
  \A r \in Requests, u \in HrApprovers \ Admins :
    LET mine(type) ==
          /\ Live(requests[r].decision)
          /\ requests[r].decision.by = u /\ requests[r].decision.type = type
    IN /\ r \in HrHistory(u, "rejected") <=> mine("hr_reject")
       /\ r \in HrHistory(u, "approved") <=> mine("hr_approve")
       /\ mine("hr_reject") \/ mine("hr_approve") => r \in ApprovalHistory(u, "none")

\* What waits is in the queue of somebody who may decide it, HR having a queue only
\* for what needs HR; and HR's history shows the decisions that stand.
ViewsFollowRequests ==
  QueuesAreDecidable /\ HistoryFollowsDecisions /\ NobodyWaitsOnSkippedHr

=============================================================================
