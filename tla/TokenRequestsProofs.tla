------------------------- MODULE TokenRequestsProofs -------------------------
(***************************************************************************)
(* Type correctness of the workflow, and the agreement of the columns of   *)
(* every stored request, for any number of requests, users and handlers in *)
(* flight.                                                                 *)
(*                                                                         *)
(* A handler writes back an entity it loaded earlier, so what must be      *)
(* inductive is not that the stored rows agree but that everything that    *)
(* may ever be written does: the stored rows, the row each call holds, and *)
(* the rows each loop has still to visit. A write then replaces one whole  *)
(* consistent row by another, however stale.                               *)
(***************************************************************************)
EXTENDS TokenRequests, TLAPS, FiniteSetTheorems

(* Every handler's change to a row keeps it a row and keeps its columns in agreement *)

\* The columns of one row agree with each other.
RowOK(row) == DecisionAgrees(row) /\ AuditAgrees(row)

LEMMA VacantOK == Vacant \in Row /\ RowOK(Vacant)
  BY DEF Vacant, Row, Decision, NoDecision, RowOK, DecisionAgrees, AuditAgrees, Live,
     Statuses, Pipeline, DecisionTypes, LeadsTo, TakenFrom, Nobody

LEMMA StampOK ==
  ASSUME NEW type \in DecisionTypes, NEW by \in Users, NEW previous \in Pipeline,
         NEW at \in Nat
  PROVE  Stamp(type, by, previous, at) \in Decision
  BY DEF Stamp, Decision

LEMMA NewRequestOK ==
  ASSUME NEW e \in Employees, NEW t \in OptionTypes, NEW cost \in Nat, NEW y \in Nat,
         NEW approver \in Users \cup {Nobody}, NEW coach \in Users \cup {Nobody}
  PROVE  /\ NewRequest(e, t, cost, y, approver, coach) \in Row
         /\ RowOK(NewRequest(e, t, cost, y, approver, coach))
<1> DEFINE new == NewRequest(e, t, cost, y, approver, coach)
<1>1. Vacant \in Row /\ "pending" \in Statuses
  BY VacantOK DEF Statuses, Pipeline
<1>2. new \in Row
  BY <1>1 DEF NewRequest, Row
<1>3. /\ new.status = "pending" /\ new.decision = NoDecision /\ new.rejectedBy = "none"
      /\ new.managerApproved = FALSE /\ new.hrApproved = FALSE
  BY DEF NewRequest, Vacant
<1>4. DecisionAgrees(new)
  BY <1>3 DEF DecisionAgrees, Live, NoDecision
<1>5. AuditAgrees(new)
  BY <1>3 DEF AuditAgrees, NoDecision
<1> QED BY <1>2, <1>4, <1>5 DEF RowOK

LEMMA ManagerApprovedOK ==
  ASSUME NEW row \in Row, RowOK(row), NEW needsHr \in BOOLEAN, NEW at \in Nat,
         NEW approver \in Users, CanManagerApprove(row, approver)
  PROVE  /\ ManagerApproved(row, needsHr, at) \in Row
         /\ RowOK(ManagerApproved(row, needsHr, at))
<1> DEFINE new == ManagerApproved(row, needsHr, at)
           stamp == Stamp("manager_approve", row.manager, "pending", at)
           to == IF needsHr THEN "manager_approved" ELSE "approved"
<1>1. /\ row.status = "pending" /\ row.manager \in Users
      /\ "manager_approve" \in DecisionTypes /\ "pending" \in Pipeline
  BY DEF CanManagerApprove, DecisionTypes, Pipeline
<1>2. stamp \in Decision /\ stamp.type = "manager_approve" /\ stamp.previous = "pending"
  BY <1>1, StampOK DEF Stamp
<1>3. to \in Statuses /\ to \in {"manager_approved", "approved"}
  BY DEF Statuses, Pipeline
<1>4. new = [row EXCEPT !.status = to, !.managerApproved = TRUE, !.reminded = FALSE,
                        !.escalated = FALSE, !.decision = stamp]
  BY DEF ManagerApproved
<1> HIDE DEF new, stamp, to
<1>5. new \in Row
  BY <1>2, <1>3, <1>4 DEF Row
<1>6. /\ new.status = to /\ new.decision = stamp /\ new.managerApproved = TRUE
      /\ new.hrApproved = row.hrApproved /\ new.rejectedBy = row.rejectedBy
  BY <1>4 DEF Row
<1>7. row.hrApproved = FALSE /\ row.rejectedBy = "none"
  BY <1>1 DEF RowOK, AuditAgrees, Row
<1>8. DecisionAgrees(new)
  BY <1>2, <1>3, <1>6 DEF DecisionAgrees, Live, LeadsTo, TakenFrom
<1>9. AuditAgrees(new)
  BY <1>2, <1>3, <1>6, <1>7 DEF AuditAgrees
<1> QED BY <1>5, <1>8, <1>9 DEF RowOK, new

LEMMA HrApprovedOK ==
  ASSUME NEW row \in Row, RowOK(row), NEW hr \in Users, NEW at \in Nat, CanHrApprove(row)
  PROVE  /\ HrApproved(row, hr, at) \in Row
         /\ RowOK(HrApproved(row, hr, at))
<1> DEFINE new == HrApproved(row, hr, at)
           stamp == Stamp("hr_approve", hr, "manager_approved", at)
<1>1. row.status = "manager_approved" /\ "approved" \in Statuses
  BY DEF CanHrApprove, Statuses
<1>2. stamp \in Decision
  BY StampOK DEF DecisionTypes, Pipeline
<1>3. /\ stamp.type = "hr_approve" /\ stamp.previous = "manager_approved"
      /\ stamp.undone = FALSE
  BY DEF Stamp
<1>4. new = [row EXCEPT !.status = "approved", !.hrApproved = TRUE, !.decision = stamp]
  BY DEF HrApproved
<1> HIDE DEF new, stamp
<1>5. new \in Row
  BY <1>1, <1>2, <1>4 DEF Row
<1>6. /\ new.status = "approved" /\ new.decision = stamp /\ new.hrApproved = TRUE
      /\ new.managerApproved = row.managerApproved /\ new.rejectedBy = row.rejectedBy
  BY <1>4 DEF Row
<1>7. row.managerApproved = TRUE /\ row.rejectedBy = "none"
  BY <1>1 DEF RowOK, AuditAgrees, Row
<1>8. DecisionAgrees(new)
  BY <1>3, <1>6 DEF DecisionAgrees, Live, LeadsTo, TakenFrom
<1>9. AuditAgrees(new)
  BY <1>3, <1>6, <1>7 DEF AuditAgrees
<1> QED BY <1>5, <1>8, <1>9 DEF RowOK, new

LEMMA PolicyApprovedOK ==
  ASSUME NEW row \in Row, RowOK(row), row.status = "manager_approved"
  PROVE  PolicyApproved(row) \in Row /\ RowOK(PolicyApproved(row))
<1> DEFINE new == PolicyApproved(row)
<1>1. new \in Row
  BY DEF PolicyApproved, Row, Statuses
<1>2. /\ new.status = "approved" /\ new.decision = row.decision
      /\ new.managerApproved = row.managerApproved
      /\ new.hrApproved = row.hrApproved /\ new.rejectedBy = row.rejectedBy
  BY DEF PolicyApproved, Row
<1>3. /\ row.managerApproved = TRUE /\ row.hrApproved = FALSE /\ row.rejectedBy = "none"
  BY DEF RowOK, AuditAgrees, Row
<1>4. /\ Live(row.decision) => row.decision.type = "manager_approve"
      /\ row.decision.type # "none" => TakenFrom(row.decision.type, row.decision.previous)
  BY DEF RowOK, DecisionAgrees, LeadsTo
<1> HIDE DEF new
<1>5. DecisionAgrees(new)
  BY <1>2, <1>4 DEF DecisionAgrees, LeadsTo
<1>6. AuditAgrees(new)
  BY <1>2, <1>3, <1>4 DEF AuditAgrees, Live
<1> QED BY <1>1, <1>5, <1>6 DEF RowOK, new

LEMMA RejectedOK ==
  ASSUME NEW row \in Row, RowOK(row), NEW rejector \in Users, NEW at \in Nat,
         NEW level \in {"manager", "hr"}, CanReject(row, rejector, level)
  PROVE  /\ Rejected(row, rejector, level, at) \in Row
         /\ RowOK(Rejected(row, rejector, level, at))
<1> DEFINE new == Rejected(row, rejector, level, at)
<1>1. row.status \in Pipeline /\ (level = "manager" => row.status = "pending")
  BY DEF CanReject, Pipeline
<1>2. new \in Row
  <2> DEFINE type == IF level = "manager" THEN "manager_reject" ELSE "hr_reject"
  <2>1. type \in DecisionTypes /\ "rejected" \in Statuses
    BY DEF DecisionTypes, Statuses
  <2>2. Stamp(type, rejector, row.status, at) \in Decision
    BY <1>1, <2>1, StampOK
  <2> HIDE DEF type
  <2>3. [row EXCEPT !.status = "rejected", !.rejectedBy = level,
                    !.decision = Stamp(type, rejector, row.status, at)] \in Row
    BY <2>1, <2>2 DEF Row
  <2> QED BY <2>3 DEF Rejected, type
<1>3. DecisionAgrees(new)
  BY <1>1 DEF Rejected, Stamp, Row, DecisionAgrees, Live, LeadsTo, TakenFrom
<1>4. AuditAgrees(new)
  <2>1. /\ new.status = "rejected"
        /\ new.managerApproved = row.managerApproved
        /\ new.hrApproved = row.hrApproved
        /\ new.rejectedBy = level
        /\ new.decision.type = IF level = "manager" THEN "manager_reject" ELSE "hr_reject"
        /\ new.decision.previous = row.status
    BY DEF Rejected, Stamp, Row
  <2>2. row.hrApproved = FALSE /\ (row.managerApproved <=> row.status = "manager_approved")
    BY <1>1 DEF RowOK, AuditAgrees, Pipeline, Row
  <2> QED BY <2>1, <2>2, <1>1 DEF AuditAgrees
<1> QED BY <1>2, <1>3, <1>4 DEF RowOK

LEMMA NoDecisionOK == NoDecision \in Decision
  BY DEF NoDecision, Decision, Nobody

LEMMA CancelledOK ==
  ASSUME NEW row \in Row, RowOK(row), CanCancel(row)
  PROVE  Cancelled(row) \in Row /\ RowOK(Cancelled(row))
<1> DEFINE new == Cancelled(row)
<1>1. new \in Row
  BY NoDecisionOK DEF Cancelled, Row, Statuses
<1>2. /\ new.status = "cancelled" /\ new.decision = NoDecision
      /\ new.hrApproved = row.hrApproved /\ new.rejectedBy = row.rejectedBy
  BY DEF Cancelled, Row
<1>3. row.hrApproved = FALSE /\ row.rejectedBy = "none"
  BY DEF CanCancel, Pipeline, RowOK, AuditAgrees, Row
<1> HIDE DEF new
<1>4. DecisionAgrees(new)
  BY <1>2 DEF DecisionAgrees, Live, NoDecision
<1>5. AuditAgrees(new)
  BY <1>2, <1>3 DEF AuditAgrees
<1> QED BY <1>1, <1>4, <1>5 DEF RowOK, new

LEMMA ResubmittedOK ==
  ASSUME NEW row \in Row, RowOK(row), CanResubmit(row), NEW cost \in Nat,
         NEW coach \in Users \cup {Nobody}
  PROVE  Resubmitted(row, cost, coach) \in Row /\ RowOK(Resubmitted(row, cost, coach))
<1> DEFINE new == Resubmitted(row, cost, coach)
<1>1. new \in Row
  <2>1. "pending" \in Statuses
    BY DEF Statuses, Pipeline
  <2> QED BY <2>1, NoDecisionOK DEF Resubmitted, Row
<1>2. DecisionAgrees(new)
  BY DEF Resubmitted, Row, DecisionAgrees, Live, NoDecision
<1>3. AuditAgrees(new)
  BY DEF CanResubmit, Resubmitted, Row, RowOK, AuditAgrees, NoDecision
<1> QED BY <1>1, <1>2, <1>3 DEF RowOK

\* Undo: DecisionAgrees on the old row says that the status restored is one the
\* decision was really taken from, so the columns it clears are the right ones.
LEMMA UndoneOK ==
  ASSUME NEW row \in Row, RowOK(row), NEW actor \in Users, NEW at \in Nat,
         CanUndo(row, actor, at)
  PROVE  Undone(row) \in Row /\ RowOK(Undone(row))
<1> DEFINE new == Undone(row)
           type == row.decision.type
           undone == [row.decision EXCEPT !.undone = TRUE]
           manager == row.managerApproved /\ type # "manager_approve"
           hr == row.hrApproved /\ type # "hr_approve"
           by == IF type \in {"manager_reject", "hr_reject"} THEN "none" ELSE row.rejectedBy
<1>1. /\ row.decision \in Decision /\ row.decision.type \in DecisionTypes
      /\ row.decision.previous \in Pipeline
  BY DEF CanUndo, Row, Decision
<1>2. new \in Row
  <2>1. undone \in Decision
    BY <1>1 DEF Decision
  <2>2. new = [row EXCEPT !.status = row.decision.previous, !.managerApproved = manager,
                          !.hrApproved = hr, !.rejectedBy = by, !.reminded = FALSE,
                          !.escalated = FALSE, !.decision = undone]
    BY DEF Undone
  <2>3. /\ row.decision.previous \in Statuses
        /\ manager \in BOOLEAN /\ hr \in BOOLEAN
        /\ by \in {"none", "manager", "hr"}
    BY <1>1 DEF Statuses, Row
  <2> HIDE DEF undone, manager, hr, by
  <2> QED BY <2>1, <2>2, <2>3 DEF Row
<1>3. /\ new.status = row.decision.previous
      /\ new.decision.type = row.decision.type
      /\ new.decision.previous = row.decision.previous
      /\ new.decision.undone = TRUE
      /\ new.managerApproved = (row.managerApproved /\ row.decision.type # "manager_approve")
      /\ new.hrApproved = (row.hrApproved /\ row.decision.type # "hr_approve")
      /\ new.rejectedBy = IF row.decision.type \in {"manager_reject", "hr_reject"}
                          THEN "none" ELSE row.rejectedBy
  BY <1>1 DEF Undone, Row, Decision
<1>4. DecisionAgrees(new)
  BY <1>1, <1>3 DEF RowOK, DecisionAgrees, Live, Pipeline, TakenFrom
<1>5. AuditAgrees(new)
  BY <1>1, <1>3 DEF CanUndo, RowOK, DecisionAgrees, AuditAgrees, Live, Pipeline,
                    DecisionTypes, LeadsTo, TakenFrom
<1> QED BY <1>2, <1>4, <1>5 DEF RowOK

LEMMA RemindedOK ==
  ASSUME NEW row \in Row, RowOK(row)
  PROVE  /\ [row EXCEPT !.escalated = TRUE] \in Row /\ RowOK([row EXCEPT !.escalated = TRUE])
         /\ [row EXCEPT !.reminded = TRUE] \in Row /\ RowOK([row EXCEPT !.reminded = TRUE])
<1>1. [row EXCEPT !.escalated = TRUE] \in Row
  BY DEF Row
<1>2. RowOK([row EXCEPT !.escalated = TRUE])
  BY DEF Row, RowOK, DecisionAgrees, AuditAgrees
<1>3. [row EXCEPT !.reminded = TRUE] \in Row
  BY DEF Row
<1>4. RowOK([row EXCEPT !.reminded = TRUE])
  BY DEF Row, RowOK, DecisionAgrees, AuditAgrees
<1> QED BY <1>1, <1>2, <1>3, <1>4

-----------------------------------------------------------------------------
\* A row that was really submitted: its columns agree and it has a balance row.
Good(row) ==
  row \in Row /\ RowOK(row) /\ Account(row) \in Accounts /\ row.type \in OptionTypes

Stored(row) == row = Vacant \/ Good(row)

\* The steps of a call that hold a request's entity.
RowSteps == {"check", "insert", "recheck", "save", "deduct"}

CallOK(k) ==
  /\ k.step \in RowSteps => k.id \in Requests /\ Good(k.row)
  /\ k.step = "book" => k.id \in Requests
  /\ \A s \in k.todo : Good(s.row)
  /\ k.step = "finalize" => \A s \in k.todo : s.row.status = "manager_approved"

RowsOK == \A r \in Requests : Stored(requests[r])
CallsOK == \A c \in Calls : CallOK(call[c])

IInv == TypeOK /\ RowsOK /\ CallsOK

-----------------------------------------------------------------------------
(* A handler's change to a row that was submitted leaves such a row *)

LEMMA GoodNew ==
  ASSUME NEW e \in Employees, NEW t \in OptionTypes, NEW cost \in Nat, NEW y \in Years,
         NEW approver \in Users, NEW coach \in Users \cup {Nobody}
  PROVE  Good(NewRequest(e, t, cost, y, approver, coach))
<1> DEFINE new == NewRequest(e, t, cost, y, approver, coach)
<1>1. y \in Nat
  BY AmountsAssumption DEF Years
<1>2. new \in Row /\ RowOK(new)
  BY <1>1, NewRequestOK
<1>3. Account(new) = <<e, y>> /\ new.type = t
  BY DEF Account, NewRequest, Vacant
<1> QED BY <1>2, <1>3 DEF Good, Accounts

LEMMA GoodManagerApproved ==
  ASSUME NEW row, Good(row), NEW needsHr \in BOOLEAN, NEW at \in Nat,
         NEW approver \in Users, CanManagerApprove(row, approver)
  PROVE  Good(ManagerApproved(row, needsHr, at))
<1> DEFINE new == ManagerApproved(row, needsHr, at)
<1>1. new \in Row /\ RowOK(new)
  BY ManagerApprovedOK DEF Good
<1>2. Account(new) = Account(row) /\ new.type = row.type
  BY DEF Good, Account, ManagerApproved, Row
<1> QED BY <1>1, <1>2 DEF Good

LEMMA GoodHrApproved ==
  ASSUME NEW row, Good(row), NEW hr \in Users, NEW at \in Nat, CanHrApprove(row)
  PROVE  Good(HrApproved(row, hr, at))
<1> DEFINE new == HrApproved(row, hr, at)
<1>1. new \in Row /\ RowOK(new)
  BY HrApprovedOK DEF Good
<1>2. Account(new) = Account(row) /\ new.type = row.type
  BY DEF Good, Account, HrApproved, Row
<1> QED BY <1>1, <1>2 DEF Good

LEMMA GoodPolicyApproved ==
  ASSUME NEW row, Good(row), row.status = "manager_approved"
  PROVE  Good(PolicyApproved(row))
<1> DEFINE new == PolicyApproved(row)
<1>1. new \in Row /\ RowOK(new)
  BY PolicyApprovedOK DEF Good
<1>2. Account(new) = Account(row) /\ new.type = row.type
  BY DEF Good, Account, PolicyApproved, Row
<1> QED BY <1>1, <1>2 DEF Good

LEMMA GoodRejected ==
  ASSUME NEW row, Good(row), NEW rejector \in Users, NEW level \in {"manager", "hr"},
         NEW at \in Nat, CanReject(row, rejector, level)
  PROVE  Good(Rejected(row, rejector, level, at))
<1> DEFINE new == Rejected(row, rejector, level, at)
<1>1. new \in Row /\ RowOK(new)
  BY RejectedOK DEF Good
<1>2. Account(new) = Account(row) /\ new.type = row.type
  BY DEF Good, Account, Rejected, Row
<1> QED BY <1>1, <1>2 DEF Good

LEMMA GoodCancelled ==
  ASSUME NEW row, Good(row), CanCancel(row)
  PROVE  Good(Cancelled(row))
<1> DEFINE new == Cancelled(row)
<1>1. new \in Row /\ RowOK(new)
  BY CancelledOK DEF Good
<1>2. Account(new) = Account(row) /\ new.type = row.type
  BY DEF Good, Account, Cancelled, Row
<1> QED BY <1>1, <1>2 DEF Good

LEMMA GoodResubmitted ==
  ASSUME NEW row, Good(row), CanResubmit(row), NEW cost \in Nat,
         NEW coach \in Users \cup {Nobody}
  PROVE  Good(Resubmitted(row, cost, coach))
<1> DEFINE new == Resubmitted(row, cost, coach)
<1>1. new \in Row /\ RowOK(new)
  BY ResubmittedOK DEF Good
<1>2. Account(new) = Account(row) /\ new.type = row.type
  BY DEF Good, Account, Resubmitted, Row
<1> QED BY <1>1, <1>2 DEF Good

LEMMA GoodUndone ==
  ASSUME NEW row, Good(row), NEW actor \in Users, NEW at \in Nat, CanUndo(row, actor, at)
  PROVE  Good(Undone(row))
<1> DEFINE new == Undone(row)
<1>1. new \in Row /\ RowOK(new)
  BY UndoneOK DEF Good
<1>2. Account(new) = Account(row) /\ new.type = row.type
  BY DEF Good, Account, Undone, Row
<1> QED BY <1>1, <1>2 DEF Good

LEMMA GoodReminded ==
  ASSUME NEW row, Good(row)
  PROVE  Good([row EXCEPT !.escalated = TRUE]) /\ Good([row EXCEPT !.reminded = TRUE])
<1>1. /\ [row EXCEPT !.escalated = TRUE] \in Row /\ RowOK([row EXCEPT !.escalated = TRUE])
      /\ [row EXCEPT !.reminded = TRUE] \in Row /\ RowOK([row EXCEPT !.reminded = TRUE])
  BY RemindedOK DEF Good
<1>2. /\ Account([row EXCEPT !.escalated = TRUE]) = Account(row)
      /\ Account([row EXCEPT !.reminded = TRUE]) = Account(row)
      /\ [row EXCEPT !.escalated = TRUE].type = row.type
      /\ [row EXCEPT !.reminded = TRUE].type = row.type
  BY DEF Good, Account, Row
<1> QED BY <1>1, <1>2 DEF Good

-----------------------------------------------------------------------------
(* The two kinds of step: a call moves on, and a row is written *)

\* A row that has a status has been submitted.
LEMMA Submitted ==
  ASSUME IInv, NEW r \in Requests, requests[r].status \in Statuses
  PROVE  Good(requests[r])
<1>1. Vacant.status \notin Statuses
  BY DEF Vacant, Statuses, Pipeline
<1> QED BY <1>1 DEF IInv, RowsOK, Stored

LEMMA RowWritten ==
  ASSUME IInv, NEW r \in Requests, NEW new, Good(new),
         requests' = [requests EXCEPT ![r] = new]
  PROVE  requests' \in [Requests -> Row] /\ RowsOK'
<1>1. requests' \in [Requests -> Row]
  BY DEF IInv, TypeOK, Good
<1>2. ASSUME NEW q \in Requests PROVE Stored(requests'[q])
  BY DEF IInv, TypeOK, RowsOK, Stored
<1>3. RowsOK'
  BY <1>2 DEF RowsOK
<1> QED BY <1>1, <1>3

LEMMA SlotWritten ==
  ASSUME IInv, NEW c \in Calls, NEW k \in CallState, CallOK(k),
         call' = [call EXCEPT ![c] = k]
  PROVE  call' \in [Calls -> CallState] /\ CallsOK'
<1>1. call' \in [Calls -> CallState]
  BY DEF IInv, TypeOK
<1>2. ASSUME NEW d \in Calls PROVE CallOK(call'[d])
  BY DEF IInv, TypeOK, CallsOK
<1>3. CallsOK'
  BY <1>2 DEF CallsOK
<1> QED BY <1>1, <1>3

LEMMA IdleOK == Idle \in CallState /\ CallOK(Idle)
<1>1. Idle \in CallState
  BY VacantOK DEF Idle, CallState, Steps
<1>2. CallOK(Idle)
  BY DEF Idle, CallOK, RowSteps
<1> QED BY <1>1, <1>2

LEMMA Returned ==
  ASSUME IInv, NEW c \in Calls, Return(c)
  PROVE  call' \in [Calls -> CallState] /\ CallsOK'
  BY IdleOK, SlotWritten DEF Return

\* A call goes on holding a submitted request.
LEMMA Holding ==
  ASSUME IInv, NEW c \in Calls, NEW step \in RowSteps, NEW r \in Requests, NEW row, Good(row),
         Hold(c, step, r, row)
  PROVE  call' \in [Calls -> CallState] /\ CallsOK'
<1> DEFINE k == [Idle EXCEPT !.step = step, !.id = r, !.row = row]
<1>1. k.step = step /\ k.id = r /\ k.row = row /\ k.todo = {}
  BY DEF Idle
<1>2. step \in Steps /\ row \in Row
  BY DEF RowSteps, Steps, Good
<1>3. k \in CallState
  BY <1>2, IdleOK DEF CallState
<1>4. call' = [call EXCEPT ![c] = k]
  BY DEF Hold
<1> HIDE DEF k
<1>5. CallOK(k)
  BY <1>1 DEF CallOK, RowSteps
<1> QED BY <1>3, <1>4, <1>5, SlotWritten

\* The tables stay as they are.
LEMMA OnlyCalls ==
  ASSUME IInv, call' \in [Calls -> CallState], CallsOK', UNCHANGED <<db, clock>>
  PROVE  IInv'
<1>1. TypeOK'
  BY DEF IInv, TypeOK, db, clock
<1>2. RowsOK'
  BY DEF IInv, RowsOK, db
<1> QED BY <1>1, <1>2 DEF IInv

\* Only token_requests changes, next to the call.
LEMMA OnlyRowAndCalls ==
  ASSUME IInv, call' \in [Calls -> CallState], CallsOK',
         requests' \in [Requests -> Row], RowsOK', UNCHANGED <<balances, options, booked, clock>>
  PROVE  IInv'
<1>1. TypeOK'
  BY DEF IInv, TypeOK, clock
<1> QED BY <1>1 DEF IInv

-----------------------------------------------------------------------------
(* One lemma per action *)

LEMMA InitIInv == Init => IInv
<1> SUFFICES ASSUME Init PROVE IInv
  OBVIOUS
<1>1. requests \in [Requests -> Row] /\ RowsOK
  BY VacantOK DEF Init, RowsOK, Stored
<1>2. balances \in [Accounts -> Balance]
  BY DEF Init, Balance
<1>3. options \in [OptionTypes -> [requiresHr : BOOLEAN, active : BOOLEAN]]
  BY DEF Init
<1>4. call \in [Calls -> CallState] /\ CallsOK
  BY IdleOK DEF Init, CallsOK
<1>5. booked \subseteq Requests /\ year \in Years /\ now \in Nat
  BY AmountsAssumption DEF Init, Years
<1> QED BY <1>1, <1>2, <1>3, <1>4, <1>5 DEF IInv, TypeOK

LEMMA CreateOK ==
  ASSUME IInv, NEW c \in Calls, NEW r \in Requests, Create(c, r)
  PROVE  IInv'
<1>1. PICK e \in Employees, t \in Offered :
        /\ options[t].active
        /\ \E coach \in CoachChoices(e, t), cost \in CostsOf(t) :
             call' = [call EXCEPT ![c] =
                       [Idle EXCEPT !.step = "check", !.id = r,
                          !.row = NewRequest(e, t, cost, year, FirstApprover(e, coach), coach),
                          !.ledger = {[account |-> <<e, year>>,
                                       balance |-> balances[<<e, year>>]]}]]
  BY Zenon DEF Create
<1>2. PICK coach \in CoachChoices(e, t), cost \in CostsOf(t) :
        call' = [call EXCEPT ![c] =
                  [Idle EXCEPT !.step = "check", !.id = r,
                     !.row = NewRequest(e, t, cost, year, FirstApprover(e, coach), coach),
                     !.ledger = {[account |-> <<e, year>>,
                                  balance |-> balances[<<e, year>>]]}]]
  BY <1>1, Zenon
<1> DEFINE row == NewRequest(e, t, cost, year, FirstApprover(e, coach), coach)
           read == {[account |-> <<e, year>>, balance |-> balances[<<e, year>>]]}
           k == [Idle EXCEPT !.step = "check", !.id = r, !.row = row, !.ledger = read]
<1>3. year \in Years /\ t \in OptionTypes
  BY RequestsAssumption DEF IInv, TypeOK
<1>4. coach \in Users \cup {Nobody}
  BY RequestsAssumption DEF CoachChoices
<1>5. FirstApprover(e, coach) \in Users
  BY <1>4, RequestsAssumption DEF FirstApprover
<1>6. cost \in Nat
  BY <1>3, AmountsAssumption DEF CostsOf, OptionTypes
<1>7. Good(row)
  BY <1>3, <1>4, <1>5, <1>6, GoodNew
<1>8. read \in SUBSET LedgerEntry
  BY <1>3 DEF LedgerEntry, Accounts, IInv, TypeOK
<1>9. k.step = "check" /\ k.id = r /\ k.row = row /\ k.todo = {}
  BY DEF Idle
<1>10. call' = [call EXCEPT ![c] = k]
  BY <1>2
<1> HIDE DEF row, read
<1>11. k \in CallState
  BY <1>7, <1>8, IdleOK DEF CallState, Steps, Good
<1> HIDE DEF k
<1>12. CallOK(k)
  BY <1>7, <1>9 DEF CallOK
<1>13. call' \in [Calls -> CallState] /\ CallsOK'
  BY <1>10, <1>11, <1>12, SlotWritten
<1> QED BY <1>13, OnlyCalls DEF Create

LEMMA CheckNewOK ==
  ASSUME IInv, NEW c \in Calls, CheckNew(c)
  PROVE  IInv'
<1>1. call[c].id \in Requests /\ Good(call[c].row)
  BY DEF IInv, CallsOK, CallOK, CheckNew, RowSteps
<1>2. Hold(c, "insert", call[c].id, call[c].row) \/ Return(c)
  BY DEF CheckNew
<1>3. call' \in [Calls -> CallState] /\ CallsOK'
  BY <1>1, <1>2, Holding, Returned DEF RowSteps
<1> QED BY <1>3, OnlyCalls DEF CheckNew

LEMMA InsertOK ==
  ASSUME IInv, NEW c \in Calls, Insert(c)
  PROVE  IInv'
<1>1. call[c].id \in Requests /\ Good(call[c].row)
  BY DEF IInv, CallsOK, CallOK, Insert, RowSteps
<1>2. requests' \in [Requests -> Row] /\ RowsOK'
  BY <1>1, RowWritten DEF Insert
<1>3. call' \in [Calls -> CallState] /\ CallsOK'
  BY Returned DEF Insert
<1> QED BY <1>2, <1>3, OnlyRowAndCalls DEF Insert

LEMMA ManagerApproveOK ==
  ASSUME IInv, NEW c \in Calls, NEW r \in Requests, ManagerApprove(c, r)
  PROVE  IInv'
<1> DEFINE row == requests[r]
<1>1. PICK approver \in Users : CanManagerApprove(row, approver)
  BY DEF ManagerApprove
<1>2. Good(row)
  BY <1>1, Submitted DEF CanManagerApprove, Statuses, Pipeline
<1>3. options[row.type].requiresHr \in BOOLEAN /\ now \in Nat
  <2>1. row.type \in OptionTypes
    BY <1>2 DEF Good
  <2> QED BY <2>1 DEF IInv, TypeOK
<1>4. call' \in [Calls -> CallState] /\ CallsOK'
  BY <1>1, <1>2, <1>3, GoodManagerApproved, Holding DEF ManagerApprove, RowSteps
<1> QED BY <1>4, OnlyCalls DEF ManagerApprove

LEMMA HrApproveOK ==
  ASSUME IInv, NEW c \in Calls, NEW r \in Requests, HrApprove(c, r)
  PROVE  IInv'
<1> DEFINE row == requests[r]
<1>1. PICK hr \in HrApprovers : Hold(c, "save", r, HrApproved(row, hr, now))
  BY DEF HrApprove
<1>2. hr \in Users /\ now \in Nat /\ CanHrApprove(row)
  BY UsersAssumption DEF HrApprove, IInv, TypeOK
<1>3. Good(row)
  BY <1>2, Submitted DEF CanHrApprove, Statuses, Pipeline
<1>4. call' \in [Calls -> CallState] /\ CallsOK'
  BY <1>1, <1>2, <1>3, GoodHrApproved, Holding DEF RowSteps
<1> QED BY <1>4, OnlyCalls DEF HrApprove

LEMMA RejectOK ==
  ASSUME IInv, NEW c \in Calls, NEW r \in Requests, Reject(c, r)
  PROVE  IInv'
<1> DEFINE row == requests[r]
<1>1. PICK rejector \in Users, level \in {"manager", "hr"} :
        /\ CanReject(row, rejector, level)
        /\ Hold(c, "save", r, Rejected(row, rejector, level, now))
  BY DEF Reject
<1>2. Good(row)
  BY <1>1, Submitted DEF CanReject, Statuses, Pipeline
<1>3. now \in Nat
  BY DEF IInv, TypeOK
<1>4. call' \in [Calls -> CallState] /\ CallsOK'
  BY <1>1, <1>2, <1>3, GoodRejected, Holding DEF RowSteps
<1> QED BY <1>4, OnlyCalls DEF Reject

LEMMA CancelOK ==
  ASSUME IInv, NEW c \in Calls, NEW r \in Requests, Cancel(c, r)
  PROVE  IInv'
<1>1. CanCancel(requests[r]) /\ Hold(c, "save", r, Cancelled(requests[r]))
  BY DEF Cancel
<1>2. Good(requests[r])
  BY <1>1, Submitted DEF CanCancel, Statuses
<1>3. call' \in [Calls -> CallState] /\ CallsOK'
  BY <1>1, <1>2, GoodCancelled, Holding DEF RowSteps
<1> QED BY <1>3, OnlyCalls DEF Cancel

LEMMA ResubmitOK ==
  ASSUME IInv, NEW c \in Calls, NEW r \in Requests, Resubmit(c, r)
  PROVE  IInv'
<1> DEFINE row == requests[r]
<1>1. CanResubmit(row)
  BY DEF Resubmit
<1>2. Good(row)
  BY <1>1, Submitted DEF CanResubmit, Statuses
<1>3. row.cost \in Nat /\ row.coach \in Users \cup {Nobody}
  BY <1>2 DEF Good, Row
<1>4. PICK step \in {"save", "recheck"}, cost \in Nat, coach \in Users \cup {Nobody} :
        Hold(c, step, r, Resubmitted(row, cost, coach))
  <2>1. CASE Hold(c, "save", r, Resubmitted(row, row.cost, row.coach))
    BY <2>1, <1>3
  <2>2. CASE \E coach \in Coaches \ {row.employee} :
               Hold(c, "save", r, Resubmitted(row, row.cost, coach))
    BY <2>2, <1>3, RequestsAssumption
  <2>3. CASE \E cost \in 1..MaxSubsidy :
               Hold(c, "recheck", r, Resubmitted(row, cost, row.coach))
    BY <2>3, <1>3, AmountsAssumption
  <2> QED BY <2>1, <2>2, <2>3 DEF Resubmit
<1>5. Good(Resubmitted(row, cost, coach))
  BY <1>1, <1>2, GoodResubmitted
<1>6. call' \in [Calls -> CallState] /\ CallsOK'
  BY <1>4, <1>5, Holding DEF RowSteps
<1> QED BY <1>6, OnlyCalls DEF Resubmit

LEMMA RecheckOK ==
  ASSUME IInv, NEW c \in Calls, Recheck(c)
  PROVE  IInv'
<1>1. call[c].id \in Requests /\ Good(call[c].row)
  BY DEF IInv, CallsOK, CallOK, Recheck, RowSteps
<1>2. Hold(c, "save", call[c].id, call[c].row) \/ Return(c)
  BY DEF Recheck
<1>3. call' \in [Calls -> CallState] /\ CallsOK'
  BY <1>1, <1>2, Holding, Returned DEF RowSteps
<1> QED BY <1>3, OnlyCalls DEF Recheck

LEMMA SaveOK ==
  ASSUME IInv, NEW c \in Calls, Save(c)
  PROVE  IInv'
<1>1. call[c].id \in Requests /\ Good(call[c].row)
  BY DEF IInv, CallsOK, CallOK, Save, RowSteps
<1>2. requests' \in [Requests -> Row] /\ RowsOK'
  BY <1>1, RowWritten DEF Save
<1>3. Hold(c, "deduct", call[c].id, call[c].row) \/ Return(c)
  BY DEF Save
<1>4. call' \in [Calls -> CallState] /\ CallsOK'
  BY <1>1, <1>3, Holding, Returned DEF RowSteps
<1> QED BY <1>2, <1>4, OnlyRowAndCalls DEF Save

\* A call goes on with a balance row it has changed, or with the balances a
\* reminder will write back.
LEMMA Charging ==
  ASSUME IInv, NEW c \in Calls, NEW step \in {"charge", "remind"},
         NEW ledger \in SUBSET LedgerEntry,
         call' = [call EXCEPT ![c] = [Idle EXCEPT !.step = step, !.ledger = ledger]]
  PROVE  call' \in [Calls -> CallState] /\ CallsOK'
<1> DEFINE k == [Idle EXCEPT !.step = step, !.ledger = ledger]
<1>1. k.step = step /\ k.todo = {}
  BY DEF Idle
<1>2. k \in CallState
  BY IdleOK DEF CallState, Steps
<1> HIDE DEF k
<1>3. CallOK(k)
  BY <1>1 DEF CallOK, RowSteps
<1> QED BY <1>2, <1>3, SlotWritten DEF k

LEMMA DeductOK ==
  ASSUME IInv, NEW c \in Calls, Deduct(c)
  PROVE  IInv'
<1> DEFINE row == call[c].row
           a == Account(row)
           entry == [account |-> a, balance |-> [balances[a] EXCEPT !.used = @ + row.cost]]
<1>1. Good(row)
  BY DEF IInv, CallsOK, CallOK, Deduct, RowSteps
<1>2. a \in Accounts /\ row.cost \in Nat
  BY <1>1 DEF Good, Row
<1>3. entry \in LedgerEntry
  <2>1. balances[a] \in Balance
    BY <1>2 DEF IInv, TypeOK
  <2>2. [balances[a] EXCEPT !.used = @ + row.cost] \in Balance
    BY <1>2, <2>1 DEF Balance
  <2> QED BY <1>2, <2>2 DEF LedgerEntry
<1>4. \/ call' = [call EXCEPT ![c] = [Idle EXCEPT !.step = "charge", !.ledger = {entry}]]
      \/ Return(c)
  BY DEF Deduct
<1>5. {entry} \in SUBSET LedgerEntry
  BY <1>3
<1> HIDE DEF entry
<1>6. call' \in [Calls -> CallState] /\ CallsOK'
  BY <1>4, <1>5, Charging, Returned
<1> QED BY <1>6, OnlyCalls DEF Deduct

LEMMA UpdateBoostOK ==
  ASSUME IInv, NEW c \in Calls, NEW a \in Accounts, UpdateBoost(c, a)
  PROVE  IInv'
<1>1. PICK boost \in Boosts :
        call' = [call EXCEPT ![c] =
                  [Idle EXCEPT !.step = "charge",
                     !.ledger = {[account |-> a,
                                  balance |-> [balances[a] EXCEPT !.boost = boost]]}]]
  BY DEF UpdateBoost
<1> DEFINE entry == [account |-> a, balance |-> [balances[a] EXCEPT !.boost = boost]]
<1>2. balances[a] \in Balance /\ boost \in Nat
  BY AmountsAssumption DEF IInv, TypeOK
<1>3. [balances[a] EXCEPT !.boost = boost] \in Balance
  BY <1>2 DEF Balance
<1>4. {entry} \in SUBSET LedgerEntry
  BY <1>3 DEF LedgerEntry
<1>5. call' = [call EXCEPT ![c] = [Idle EXCEPT !.step = "charge", !.ledger = {entry}]]
  BY <1>1
<1> HIDE DEF entry
<1>6. call' \in [Calls -> CallState] /\ CallsOK'
  BY <1>4, <1>5, Charging
<1> QED BY <1>6, OnlyCalls DEF UpdateBoost

LEMMA SaveBalanceOK ==
  ASSUME IInv, NEW c \in Calls, SaveBalance(c)
  PROVE  IInv'
<1>1. PICK l \in call[c].ledger : balances' = [balances EXCEPT ![l.account] = l.balance]
  BY DEF SaveBalance
<1>2. l.balance \in Balance
  BY DEF IInv, TypeOK, CallState, LedgerEntry
<1>3. balances' \in [Accounts -> Balance]
  BY <1>1, <1>2 DEF IInv, TypeOK
<1>4. call' \in [Calls -> CallState] /\ CallsOK'
  BY Returned DEF SaveBalance
<1>5. TypeOK' /\ RowsOK'
  BY <1>3, <1>4 DEF SaveBalance, IInv, TypeOK, RowsOK, clock
<1> QED BY <1>4, <1>5 DEF IInv

LEMMA TokenReminderOK ==
  ASSUME IInv, NEW c \in Calls, TokenReminder(c)
  PROVE  IInv'
<1> DEFINE ledger == {[account |-> <<e, year>>, balance |-> balances[<<e, year>>]] :
                        e \in Employees}
<1>1. year \in Years /\ balances \in [Accounts -> Balance]
  BY DEF IInv, TypeOK
<1>2. ledger \in SUBSET LedgerEntry
  <2>1. ASSUME NEW e \in Employees
        PROVE  [account |-> <<e, year>>, balance |-> balances[<<e, year>>]] \in LedgerEntry
    <3>1. <<e, year>> \in Accounts
      BY <1>1 DEF Accounts
    <3> QED BY <1>1, <3>1 DEF LedgerEntry
  <2> QED BY <2>1
<1>3. call' = [call EXCEPT ![c] = [Idle EXCEPT !.step = "remind", !.ledger = ledger]]
  BY DEF TokenReminder
<1> HIDE DEF ledger
<1>4. call' \in [Calls -> CallState] /\ CallsOK'
  BY <1>2, <1>3, Charging
<1> QED BY <1>4, OnlyCalls DEF TokenReminder

LEMMA RemindOneOK ==
  ASSUME IInv, NEW c \in Calls, RemindOne(c)
  PROVE  IInv'
<1>1. PICK l \in call[c].ledger :
        /\ \/ balances' = [balances EXCEPT ![l.account] = l.balance]
           \/ balances' = balances
        /\ call' = [call EXCEPT ![c].ledger = @ \ {l}]
  BY DEF RemindOne
<1> DEFINE k == [call[c] EXCEPT !.ledger = @ \ {l}]
<1>2. call[c] \in CallState /\ CallOK(call[c])
  BY DEF IInv, TypeOK, CallsOK
<1>3. l.balance \in Balance
  BY <1>2 DEF CallState, LedgerEntry
<1>4. balances' \in [Accounts -> Balance]
  BY <1>1, <1>3 DEF IInv, TypeOK
<1>5. k \in CallState
  BY <1>2 DEF CallState
<1>6. k.step = call[c].step /\ k.id = call[c].id /\ k.row = call[c].row /\ k.todo = call[c].todo
  BY <1>2 DEF CallState
<1>7. call' = [call EXCEPT ![c] = k]
  BY <1>1
<1> HIDE DEF k
<1>8. CallOK(k)
  BY <1>2, <1>6 DEF CallOK
<1>9. call' \in [Calls -> CallState] /\ CallsOK'
  BY <1>5, <1>7, <1>8, SlotWritten
<1>10. TypeOK' /\ RowsOK'
  BY <1>4, <1>9 DEF RemindOne, IInv, TypeOK, RowsOK, clock
<1> QED BY <1>9, <1>10 DEF IInv

LEMMA UndoOK ==
  ASSUME IInv, NEW c \in Calls, NEW r \in Requests, NEW actor \in Users, Undo(c, r, actor)
  PROVE  IInv'
<1> DEFINE row == requests[r]
           a == Account(row)
<1>1. CanUndo(row, actor, now) /\ now \in Nat
  BY DEF Undo, IInv, TypeOK
<1>2. Good(row)
  <2>1. row.status # "none"
    BY <1>1 DEF CanUndo, LeadsTo
  <2> QED BY <2>1 DEF IInv, RowsOK, Stored, Vacant
<1>3. requests' \in [Requests -> Row] /\ RowsOK'
  BY <1>1, <1>2, GoodUndone, RowWritten DEF Undo
<1>4. balances' \in [Accounts -> Balance]
  <2>1. a \in Accounts /\ row.cost \in Nat
    BY <1>2 DEF Good, Row
  <2>2. balances[a] \in Balance /\ balances \in [Accounts -> Balance]
    BY <2>1 DEF IInv, TypeOK
  <2>3. RefundOf(row) \in Nat
    BY <2>1 DEF RefundOf
  <2>4. ASSUME NEW balance \in Balance, NEW amount \in Nat
        PROVE  Refunded(balance, amount) \in Balance
    BY DEF Refunded, Balance
  <2>5. Refunded(balances[a], RefundOf(row)) \in Balance
    BY <2>2, <2>3, <2>4
  <2>6. balances' = [balances EXCEPT ![a] = Refunded(balances[a], RefundOf(row))]
    BY DEF Undo
  <2> QED BY <2>2, <2>5, <2>6
<1>5. call' \in [Calls -> CallState] /\ CallsOK'
  BY DEF Undo, IInv, TypeOK, CallsOK
<1>6. TypeOK'
  BY <1>3, <1>4, <1>5 DEF Undo, IInv, TypeOK, clock
<1> QED BY <1>3, <1>5, <1>6 DEF IInv

\* A loop starts with rows it has loaded, and each visit leaves it fewer.
LEMMA Looping ==
  ASSUME IInv, NEW c \in Calls, NEW step \in {"finalize", "sweep"}, NEW todo \in SUBSET Entry,
         \A s \in todo : Good(s.row),
         step = "finalize" => \A s \in todo : s.row.status = "manager_approved",
         call' = [call EXCEPT ![c] = [Idle EXCEPT !.step = step, !.todo = todo]]
  PROVE  call' \in [Calls -> CallState] /\ CallsOK'
<1> DEFINE k == [Idle EXCEPT !.step = step, !.todo = todo]
<1>1. k.step = step /\ k.todo = todo
  BY DEF Idle
<1>2. k \in CallState
  BY IdleOK DEF CallState, Steps
<1> HIDE DEF k
<1>3. CallOK(k)
  BY <1>1 DEF CallOK, RowSteps
<1> QED BY <1>2, <1>3, SlotWritten DEF k

LEMMA Visited ==
  ASSUME IInv, NEW c \in Calls, NEW s \in call[c].todo,
         call' = [call EXCEPT ![c].todo = @ \ {s}]
  PROVE  call' \in [Calls -> CallState] /\ CallsOK'
<1> DEFINE k == [call[c] EXCEPT !.todo = @ \ {s}]
<1>1. call[c] \in CallState /\ CallOK(call[c])
  BY DEF IInv, TypeOK, CallsOK
<1>2. k \in CallState
  BY <1>1 DEF CallState
<1>3. /\ k.step = call[c].step /\ k.id = call[c].id /\ k.row = call[c].row
      /\ k.todo \subseteq call[c].todo
  BY <1>1 DEF CallState
<1>4. call' = [call EXCEPT ![c] = k]
  OBVIOUS
<1> HIDE DEF k
<1>5. CallOK(k)
  BY <1>1, <1>3 DEF CallOK
<1> QED BY <1>2, <1>4, <1>5, SlotWritten

LEMMA SetRequiresHrOK ==
  ASSUME IInv, NEW c \in Calls, NEW t \in OptionTypes, SetRequiresHr(c, t)
  PROVE  IInv'
<1>1. PICK b \in BOOLEAN :
        /\ options' = [options EXCEPT ![t].requiresHr = b]
        /\ \/ call' = [call EXCEPT ![c] =
                         [Idle EXCEPT !.step = "finalize", !.todo = Stranded(t)]]
           \/ call' = call
  BY DEF SetRequiresHr
<1>2. options' \in [OptionTypes -> [requiresHr : BOOLEAN, active : BOOLEAN]]
  BY <1>1 DEF IInv, TypeOK
<1>3. /\ Stranded(t) \in SUBSET Entry
      /\ \A s \in Stranded(t) : Good(s.row) /\ s.row.status = "manager_approved"
  BY Submitted DEF Stranded, Entry, Statuses, Pipeline, IInv, TypeOK
<1>4. call' \in [Calls -> CallState] /\ CallsOK'
  <2>1. CASE call' = [call EXCEPT ![c] =
                        [Idle EXCEPT !.step = "finalize", !.todo = Stranded(t)]]
    BY <1>3, <2>1, Looping
  <2>2. CASE call' = call
    BY <2>2 DEF IInv, TypeOK, CallsOK
  <2> QED BY <1>1, <2>1, <2>2
<1>5. TypeOK' /\ RowsOK'
  BY <1>2, <1>4 DEF SetRequiresHr, IInv, TypeOK, RowsOK, clock
<1> QED BY <1>4, <1>5 DEF IInv

LEMMA ToggleOptionOK ==
  ASSUME IInv, NEW c \in Calls, NEW t \in OptionTypes, ToggleOption(c, t)
  PROVE  IInv'
<1>1. options' \in [OptionTypes -> [requiresHr : BOOLEAN, active : BOOLEAN]]
  BY DEF ToggleOption, IInv, TypeOK
<1> QED BY <1>1 DEF ToggleOption, IInv, TypeOK, RowsOK, CallsOK, clock

LEMMA FinalizeOneOK ==
  ASSUME IInv, NEW c \in Calls, FinalizeOne(c)
  PROVE  IInv'
<1>1. PICK s \in call[c].todo :
        /\ \/ /\ requests' = [requests EXCEPT ![s.id] = PolicyApproved(s.row)]
              /\ balances' = [balances EXCEPT ![Account(s.row)].used = @ + s.row.cost]
           \/ requests' = requests /\ balances' = balances
        /\ call' = [call EXCEPT ![c].todo = @ \ {s}]
  BY DEF FinalizeOne
<1>2. s.id \in Requests /\ Good(s.row) /\ s.row.status = "manager_approved"
  BY DEF FinalizeOne, IInv, TypeOK, CallState, Entry, CallsOK, CallOK
<1>3. requests' \in [Requests -> Row] /\ RowsOK'
  <2>1. CASE requests' = [requests EXCEPT ![s.id] = PolicyApproved(s.row)]
    BY <1>2, <2>1, GoodPolicyApproved, RowWritten
  <2>2. CASE requests' = requests
    BY <2>2 DEF IInv, TypeOK, RowsOK
  <2> QED BY <1>1, <2>1, <2>2
<1>4. balances' \in [Accounts -> Balance]
  <2> DEFINE a == Account(s.row)
  <2>1. a \in Accounts /\ s.row.cost \in Nat
    BY <1>2 DEF Good, Row
  <2>2. [balances[a] EXCEPT !.used = @ + s.row.cost] \in Balance
    BY <2>1 DEF IInv, TypeOK, Balance
  <2> QED BY <1>1, <2>1, <2>2 DEF IInv, TypeOK
<1>5. call' \in [Calls -> CallState] /\ CallsOK'
  BY <1>1, Visited
<1>6. TypeOK'
  BY <1>3, <1>4, <1>5 DEF FinalizeOne, IInv, TypeOK, clock
<1> QED BY <1>3, <1>5, <1>6 DEF IInv

LEMMA SlaSweepOK ==
  ASSUME IInv, NEW c \in Calls, SlaSweep(c)
  PROVE  IInv'
<1> DEFINE todo == {[id |-> r, row |-> requests[r]] :
                      r \in {q \in Requests : requests[q].status \in Pipeline}}
<1>1. todo \in SUBSET Entry /\ \A s \in todo : Good(s.row)
  BY Submitted DEF Entry, Statuses, IInv, TypeOK
<1>2. call' = [call EXCEPT ![c] = [Idle EXCEPT !.step = "sweep", !.todo = todo]]
  BY DEF SlaSweep
<1> HIDE DEF todo
<1>3. call' \in [Calls -> CallState] /\ CallsOK'
  BY <1>1, <1>2, Looping
<1> QED BY <1>3, OnlyCalls DEF SlaSweep

LEMMA SweepOneOK ==
  ASSUME IInv, NEW c \in Calls, SweepOne(c)
  PROVE  IInv'
<1>1. PICK s \in call[c].todo :
        /\ \/ requests' = [requests EXCEPT ![s.id] = [s.row EXCEPT !.escalated = TRUE]]
           \/ requests' = [requests EXCEPT ![s.id] = [s.row EXCEPT !.reminded = TRUE]]
           \/ requests' = requests
        /\ call' = [call EXCEPT ![c].todo = @ \ {s}]
  BY DEF SweepOne
<1>2. s.id \in Requests /\ Good(s.row)
  BY DEF IInv, TypeOK, CallState, Entry, CallsOK, CallOK
<1>3. requests' \in [Requests -> Row] /\ RowsOK'
  <2>1. CASE requests' = requests
    BY <2>1 DEF IInv, TypeOK, RowsOK
  <2>2. CASE requests' # requests
    BY <1>1, <1>2, <2>2, GoodReminded, RowWritten
  <2> QED BY <2>1, <2>2
<1>4. call' \in [Calls -> CallState] /\ CallsOK'
  BY <1>1, Visited
<1> QED BY <1>3, <1>4, OnlyRowAndCalls DEF SweepOne

LEMMA LoopDoneOK ==
  ASSUME IInv, NEW c \in Calls, LoopDone(c)
  PROVE  IInv'
  BY Returned, OnlyCalls DEF LoopDone

LEMMA BookSessionOK ==
  ASSUME IInv, NEW c \in Calls, NEW r \in Requests, BookSession(c, r)
  PROVE  IInv'
<1> DEFINE k == [Idle EXCEPT !.step = "book", !.id = r, !.row = Vacant]
<1>1. k.step = "book" /\ k.id = r /\ k.todo = {}
  BY DEF Idle
<1>2. k \in CallState
  BY IdleOK, VacantOK DEF CallState, Steps
<1>3. call' = [call EXCEPT ![c] = k]
  BY DEF BookSession, Hold
<1> HIDE DEF k
<1>4. CallOK(k)
  BY <1>1 DEF CallOK, RowSteps
<1>5. call' \in [Calls -> CallState] /\ CallsOK'
  BY <1>2, <1>3, <1>4, SlotWritten
<1> QED BY <1>5, OnlyCalls DEF BookSession

LEMMA InsertSessionOK ==
  ASSUME IInv, NEW c \in Calls, InsertSession(c)
  PROVE  IInv'
<1>1. call[c].id \in Requests
  BY DEF InsertSession, IInv, CallsOK, CallOK
<1>2. call' \in [Calls -> CallState] /\ CallsOK'
  BY Returned DEF InsertSession
<1> QED BY <1>1, <1>2 DEF InsertSession, IInv, TypeOK, RowsOK, clock

LEMMA TimeOK ==
  ASSUME IInv, Tick \/ NextYear
  PROVE  IInv'
<1>1. year' \in Years /\ now' \in Nat
  BY AmountsAssumption DEF Tick, NextYear, IInv, TypeOK, Years
<1>2. UNCHANGED <<requests, balances, options, booked, call>>
  BY DEF Tick, NextYear, db
<1> QED BY <1>1, <1>2 DEF IInv, TypeOK, RowsOK, CallsOK

LEMMA RestartOK ==
  ASSUME IInv, Restart
  PROVE  IInv'
<1>1. call' \in [Calls -> CallState] /\ CallsOK'
  BY IdleOK DEF Restart, CallsOK
<1> QED BY <1>1, OnlyCalls DEF Restart

LEMMA StutterOK ==
  ASSUME IInv, UNCHANGED vars
  PROVE  IInv'
  BY DEF IInv, TypeOK, RowsOK, CallsOK, vars

-----------------------------------------------------------------------------
(* The theorems *)

\* IInv is inductive: no step of any handler, however many are in flight, and
\* no restart leaves a stored row, or a row still to be written, inconsistent.
THEOREM Inductive == Spec => []IInv
<1>1. Init => IInv
  BY InitIInv
<1>2. IInv /\ [Next]_vars => IInv'
  <2> SUFFICES ASSUME IInv, [Next]_vars PROVE IInv'
    OBVIOUS
  <2>1. ASSUME NEW c \in Calls, NEW r \in Requests, OnRequest(c, r) PROVE IInv'
    <3>1. CASE Create(c, r)
      BY <3>1, CreateOK
    <3>2. CASE ManagerApprove(c, r)
      BY <3>2, ManagerApproveOK
    <3>3. CASE HrApprove(c, r)
      BY <3>3, HrApproveOK
    <3>4. CASE Reject(c, r)
      BY <3>4, RejectOK
    <3>5. CASE Cancel(c, r)
      BY <3>5, CancelOK
    <3>6. CASE Resubmit(c, r)
      BY <3>6, ResubmitOK
    <3>7. CASE \E actor \in Users : Undo(c, r, actor)
      BY <3>7, UndoOK
    <3>8. CASE BookSession(c, r)
      BY <3>8, BookSessionOK
    <3> QED BY <2>1, <3>1, <3>2, <3>3, <3>4, <3>5, <3>6, <3>7, <3>8 DEF OnRequest
  <2>2. ASSUME NEW c \in Calls, OnTables(c) PROVE IInv'
    <3>1. CASE \E a \in Accounts : UpdateBoost(c, a)
      BY <3>1, UpdateBoostOK
    <3>2. CASE \E t \in Offered : SetRequiresHr(c, t) \/ ToggleOption(c, t)
      BY <3>2, SetRequiresHrOK, ToggleOptionOK, RequestsAssumption
    <3>3. CASE TokenReminder(c)
      BY <3>3, TokenReminderOK
    <3>4. CASE SlaSweep(c)
      BY <3>4, SlaSweepOK
    <3> QED BY <2>2, <3>1, <3>2, <3>3, <3>4 DEF OnTables
  <2>3. ASSUME NEW c \in Calls, Continue(c) PROVE IInv'
    <3>1. CASE CheckNew(c)
      BY <3>1, CheckNewOK
    <3>2. CASE Insert(c)
      BY <3>2, InsertOK
    <3>3. CASE Recheck(c)
      BY <3>3, RecheckOK
    <3>4. CASE Save(c)
      BY <3>4, SaveOK
    <3>5. CASE Deduct(c)
      BY <3>5, DeductOK
    <3>6. CASE SaveBalance(c)
      BY <3>6, SaveBalanceOK
    <3>7. CASE RemindOne(c)
      BY <3>7, RemindOneOK
    <3>8. CASE FinalizeOne(c)
      BY <3>8, FinalizeOneOK
    <3>9. CASE SweepOne(c)
      BY <3>9, SweepOneOK
    <3>10. CASE LoopDone(c)
      BY <3>10, LoopDoneOK
    <3>11. CASE InsertSession(c)
      BY <3>11, InsertSessionOK
    <3> QED BY <2>3, <3>1, <3>2, <3>3, <3>4, <3>5, <3>6, <3>7, <3>8, <3>9, <3>10, <3>11
            DEF Continue
  <2> QED BY <2>1, <2>2, <2>3, TimeOK, RestartOK, StutterOK DEF Next
<1> QED BY <1>1, <1>2, PTL DEF Spec

\* Every table and every handler in flight always holds values of its type.
THEOREM TypeCorrect == Spec => []TypeOK
<1>1. IInv => TypeOK
  BY DEF IInv
<1> QED BY <1>1, Inductive, PTL

\* In every stored row the undo record describes the status the row is in, for
\* any number of handlers in flight: an undo never acts on a decision that the
\* row does not reflect.
THEOREM DecisionRecordsAlwaysAgree == Spec => []DecisionRecordAgrees
<1>1. IInv => DecisionRecordAgrees
  <2>1. DecisionAgrees(Vacant)
    BY VacantOK DEF RowOK
  <2> QED BY <2>1 DEF IInv, RowsOK, Stored, Good, RowOK, DecisionRecordAgrees
<1> QED BY <1>1, Inductive, PTL

\* In every stored row the approval and rejection columns describe the status,
\* for any number of handlers in flight.
THEOREM AuditColumnsAlwaysAgree == Spec => []AuditColumnsAgree
<1>1. IInv => AuditColumnsAgree
  <2>1. AuditAgrees(Vacant)
    BY VacantOK DEF RowOK
  <2> QED BY <2>1 DEF IInv, RowsOK, Stored, Good, RowOK, AuditColumnsAgree
<1> QED BY <1>1, Inductive, PTL

-----------------------------------------------------------------------------
(***************************************************************************)
(* When the workflow keeps its promises. A handler writes back a row it    *)
(* loaded earlier, and RequestRows says what it makes of that row; the     *)
(* promises of the service are about the row that is stored when it does.  *)
(* The two agree when nothing else writes the row in between: then, for    *)
(* any number of handlers in flight, the workflow implements the abstract  *)
(* RequestLifecycle, and its steps keep their promises. Handlers that run  *)
(* one at a time are a special case, and for these what is charged rests   *)
(* on approvals.                                                           *)
(*                                                                         *)
(* The code has no such protection (no version column, and only undo locks *)
(* its rows), which is why these theorems have the hypothesis: it names    *)
(* what the service relies on.                                             *)
(***************************************************************************)
\* The rows of token_requests a handler has loaded and may still write.
InHand(k, r) ==
  \/ k.step \in {"check", "insert", "recheck", "save", "book"} /\ k.id = r
  \/ k.step \in {"finalize", "sweep"} /\ \E s \in k.todo : s.id = r

\* The rows of token_balances a handler has loaded and may still write.
ReadsBalance(k, a) ==
  k.step \in {"charge", "remind"} /\ \E l \in k.ledger : l.account = a

RowsStay ==
  \A c \in Calls, r \in Requests :
    InHand(call[c], r) /\ InHand(call'[c], r) => requests'[r] = requests[r]

BalancesStay ==
  \A c \in Calls, a \in Accounts :
    ReadsBalance(call[c], a) /\ ReadsBalance(call'[c], a) => balances'[a] = balances[a]

\* While a handler has a row in hand, nobody else changes it.
RowsUndisturbed == [][RowsStay]_vars
BalancesUndisturbed == [][BalancesStay]_vars

\* Handlers are served one at a time.
OneAtATime == \A c, d \in Calls : c = d

-----------------------------------------------------------------------------
(* What a handler has in hand is one step away from what is stored *)

Back(row) == IF Live(row.decision) THEN row.decision.previous ELSE "none"

\* The first save of a new request.
Submits(old, new) ==
  /\ old = Vacant
  /\ new.status = "pending" /\ Back(new) = "none" /\ ~new.hrApproved

\* The decisions a client takes: one disjunct for each step of the lifecycle.
Decides(old, new) ==
  \/ /\ old.status = "pending" /\ new.status \in {"manager_approved", "approved"}
     /\ Back(new) = "pending"
  \/ /\ old.status = "manager_approved" /\ new.status = "approved"
     /\ Back(new) = "manager_approved"
  \/ old.status \in Pipeline /\ new.status = "rejected" /\ Back(new) = old.status
  \/ old.status \in Pipeline /\ new.status = "cancelled" /\ Back(new) = "none"
  \/ old.status = "rejected" /\ new.status = "pending" /\ Back(new) = "none"

Follows(old, new) ==
  /\ Decides(old, new)
  /\ new.type = old.type
  /\ new.hrApproved => old.status = "manager_approved"

InHandOK(table, k) ==
  /\ k.step \in {"check", "insert"} => Submits(table[k.id], k.row)
  /\ k.step \in {"recheck", "save"} => Follows(table[k.id], k.row)
  /\ k.step = "book" => table[k.id].status = "approved" /\ table[k.id].type = "coaching"
  /\ k.step \in {"finalize", "sweep"} => \A s \in k.todo : s.row = table[s.id]

BookedOK ==
  \A r \in booked : requests[r].status = "approved" /\ requests[r].type = "coaching"

UpToDate == (\A c \in Calls : InHandOK(requests, call[c])) /\ BookedOK

RInv == IInv /\ UpToDate

-----------------------------------------------------------------------------
(* The changes of RequestRows are such steps *)

LEMMA BackSame ==
  ASSUME NEW old, NEW new, new.decision = old.decision
  PROVE  Back(new) = Back(old)
  BY DEF Back

LEMMA NoDecisionBack ==
  ASSUME NEW row, row.decision = NoDecision
  PROVE  Back(row) = "none"
  BY DEF Back, Live, NoDecision

LEMMA StampBack ==
  ASSUME NEW row, NEW type \in DecisionTypes, NEW by, NEW previous, NEW at,
         row.decision = Stamp(type, by, previous, at)
  PROVE  Back(row) = previous
  BY DEF Back, Live, Stamp, DecisionTypes

LEMMA NewSubmits ==
  ASSUME NEW e, NEW t, NEW cost, NEW y, NEW approver, NEW coach
  PROVE  Submits(Vacant, NewRequest(e, t, cost, y, approver, coach))
<1> DEFINE new == NewRequest(e, t, cost, y, approver, coach)
<1>1. new.status = "pending" /\ new.decision = NoDecision /\ new.hrApproved = FALSE
  BY DEF NewRequest, Vacant
<1> HIDE DEF new
<1>2. Back(new) = "none"
  BY <1>1, NoDecisionBack
<1> QED BY <1>1, <1>2 DEF Submits, new

LEMMA ManagerApprovedFollows ==
  ASSUME NEW row, Good(row), NEW needsHr \in BOOLEAN, NEW at, NEW approver,
         CanManagerApprove(row, approver)
  PROVE  Follows(row, ManagerApproved(row, needsHr, at))
<1> DEFINE new == ManagerApproved(row, needsHr, at)
<1>1. row.status = "pending" /\ row \in Row
  BY DEF CanManagerApprove, Good
<1>2. /\ new.status \in {"manager_approved", "approved"} /\ new.type = row.type
      /\ new.hrApproved = row.hrApproved
      /\ new.decision = Stamp("manager_approve", row.manager, "pending", at)
  BY <1>1 DEF ManagerApproved, Row
<1>3. row.hrApproved = FALSE
  BY <1>1 DEF Good, RowOK, AuditAgrees, Row
<1> HIDE DEF new
<1>4. Back(new) = "pending"
  BY <1>2, StampBack DEF DecisionTypes
<1> QED BY <1>1, <1>2, <1>3, <1>4 DEF Follows, Decides, new

LEMMA HrApprovedFollows ==
  ASSUME NEW row, Good(row), NEW hr, NEW at, CanHrApprove(row)
  PROVE  Follows(row, HrApproved(row, hr, at))
<1> DEFINE new == HrApproved(row, hr, at)
<1>1. row.status = "manager_approved" /\ row \in Row
  BY DEF CanHrApprove, Good
<1>2. /\ new.status = "approved" /\ new.type = row.type
      /\ new.decision = Stamp("hr_approve", hr, "manager_approved", at)
  BY <1>1 DEF HrApproved, Row
<1> HIDE DEF new
<1>3. Back(new) = "manager_approved"
  BY <1>2, StampBack DEF DecisionTypes
<1> QED BY <1>1, <1>2, <1>3 DEF Follows, Decides, new

LEMMA RejectedFollows ==
  ASSUME NEW row, Good(row), NEW rejector, NEW level \in {"manager", "hr"}, NEW at,
         CanReject(row, rejector, level)
  PROVE  Follows(row, Rejected(row, rejector, level, at))
<1> DEFINE new == Rejected(row, rejector, level, at)
           type == IF level = "manager" THEN "manager_reject" ELSE "hr_reject"
<1>1. row.status \in Pipeline /\ row \in Row /\ type \in DecisionTypes
  BY DEF CanReject, Pipeline, Good, DecisionTypes
<1>2. /\ new.status = "rejected" /\ new.type = row.type /\ new.hrApproved = row.hrApproved
      /\ new.decision = Stamp(type, rejector, row.status, at)
  BY <1>1 DEF Rejected, Row
<1>3. row.hrApproved = FALSE
  BY <1>1 DEF Good, RowOK, AuditAgrees, Row, Pipeline
<1> HIDE DEF new, type
<1>4. Back(new) = row.status
  BY <1>1, <1>2, StampBack
<1> QED BY <1>1, <1>2, <1>3, <1>4 DEF Follows, Decides, new

LEMMA CancelledFollows ==
  ASSUME NEW row, Good(row), CanCancel(row)
  PROVE  Follows(row, Cancelled(row))
<1> DEFINE new == Cancelled(row)
<1>1. row.status \in Pipeline /\ row \in Row
  BY DEF CanCancel, Good
<1>2. /\ new.status = "cancelled" /\ new.type = row.type /\ new.hrApproved = row.hrApproved
      /\ new.decision = NoDecision
  BY <1>1 DEF Cancelled, Row
<1>3. row.hrApproved = FALSE
  BY <1>1 DEF Good, RowOK, AuditAgrees, Row, Pipeline
<1> HIDE DEF new
<1>4. Back(new) = "none"
  BY <1>2, NoDecisionBack
<1> QED BY <1>1, <1>2, <1>3, <1>4 DEF Follows, Decides, new

LEMMA ResubmittedFollows ==
  ASSUME NEW row, Good(row), CanResubmit(row), NEW cost, NEW coach
  PROVE  Follows(row, Resubmitted(row, cost, coach))
<1> DEFINE new == Resubmitted(row, cost, coach)
<1>1. row.status = "rejected" /\ row \in Row
  BY DEF CanResubmit, Good
<1>2. /\ new.status = "pending" /\ new.type = row.type /\ new.hrApproved = row.hrApproved
      /\ new.decision = NoDecision
  BY <1>1 DEF Resubmitted, Row
<1>3. row.hrApproved = FALSE
  BY <1>1 DEF Good, RowOK, AuditAgrees, Row
<1> HIDE DEF new
<1>4. Back(new) = "none"
  BY <1>2, NoDecisionBack
<1> QED BY <1>1, <1>2, <1>3, <1>4 DEF Follows, Decides, new

-----------------------------------------------------------------------------
(* Every step of the workflow changes at most one row, as the lifecycle does *)

\* HR is no longer asked for.
Settles(old, new) ==
  /\ old.status = "manager_approved" /\ new.status = "approved" /\ Back(new) = Back(old)
  /\ new.type = old.type /\ new.hrApproved = old.hrApproved

\* The sweep's stamps.
Marks(old, new) ==
  /\ new.status = old.status /\ Back(new) = Back(old)
  /\ new.type = old.type /\ new.hrApproved = old.hrApproved

TakesBack(old, new) ==
  /\ Back(old) # "none" /\ new.status = Back(old) /\ Back(new) = "none"
  /\ old.status # "cancelled"
  /\ new.type = old.type /\ (new.hrApproved => old.hrApproved)

\* An undo, which refunds, and which an approval with sessions does not allow.
Undoes(r, new) ==
  /\ TakesBack(requests[r], new)
  /\ ~(requests[r].status = "approved" /\ HasSessions(r))
  /\ balances' = [balances EXCEPT
                    ![Account(requests[r])] = Refunded(@, RefundOf(requests[r]))]

RowMoves(r, new) ==
  /\ requests' = [requests EXCEPT ![r] = new]
  /\ \/ Submits(requests[r], new)
     \/ Follows(requests[r], new)
     \/ Settles(requests[r], new)
     \/ Marks(requests[r], new)
     \/ Undoes(r, new)

OneRowMoves ==
  \/ requests' = requests
  \/ \E r \in Requests : \E new \in Row : RowMoves(r, new)

LEMMA PolicyApprovedSettles ==
  ASSUME NEW row, Good(row), row.status = "manager_approved"
  PROVE  Settles(row, PolicyApproved(row))
<1> DEFINE new == PolicyApproved(row)
<1>1. /\ new.status = "approved" /\ new.type = row.type /\ new.hrApproved = row.hrApproved
      /\ new.decision = row.decision
  BY DEF PolicyApproved, Row, Good
<1> HIDE DEF new
<1>2. Back(new) = Back(row)
  BY <1>1, BackSame
<1> QED BY <1>1, <1>2 DEF Settles, new

LEMMA StampsMark ==
  ASSUME NEW row, Good(row)
  PROVE  Marks(row, [row EXCEPT !.escalated = TRUE]) /\ Marks(row, [row EXCEPT !.reminded = TRUE])
<1> DEFINE escalated == [row EXCEPT !.escalated = TRUE]
           reminded == [row EXCEPT !.reminded = TRUE]
<1>1. /\ escalated.status = row.status /\ escalated.type = row.type
      /\ escalated.hrApproved = row.hrApproved /\ escalated.decision = row.decision
  BY DEF Row, Good
<1>2. /\ reminded.status = row.status /\ reminded.type = row.type
      /\ reminded.hrApproved = row.hrApproved /\ reminded.decision = row.decision
  BY DEF Row, Good
<1> HIDE DEF escalated, reminded
<1>3. Back(escalated) = Back(row) /\ Back(reminded) = Back(row)
  BY <1>1, <1>2, BackSame
<1> QED BY <1>1, <1>2, <1>3 DEF Marks, escalated, reminded

LEMMA UndoneTakesBack ==
  ASSUME NEW row, Good(row), NEW actor, NEW at, CanUndo(row, actor, at)
  PROVE  TakesBack(row, Undone(row))
<1> DEFINE new == Undone(row)
<1>1. row \in Row /\ row.decision \in Decision
  BY DEF Good, Row
<1>2. /\ Back(row) = row.decision.previous /\ Back(row) # "none"
      /\ row.status # "cancelled"
  BY DEF CanUndo, LeadsTo, Back, Live
<1>3. /\ new.status = row.decision.previous /\ new.type = row.type
      /\ new.hrApproved = (row.hrApproved /\ row.decision.type # "hr_approve")
      /\ new.decision = [row.decision EXCEPT !.undone = TRUE]
  BY <1>1 DEF Undone, Row
<1> HIDE DEF new
<1>4. Back(new) = "none"
  BY <1>1, <1>3 DEF Back, Live, Decision
<1> QED BY <1>2, <1>3, <1>4 DEF TakesBack, new

LEMMA InsertMoves ==
  ASSUME RInv, NEW c \in Calls, Insert(c)
  PROVE  OneRowMoves
<1>1. call[c].id \in Requests /\ Good(call[c].row)
  BY DEF RInv, IInv, CallsOK, CallOK, Insert, RowSteps
<1>2. Submits(requests[call[c].id], call[c].row)
  BY DEF RInv, UpToDate, InHandOK, Insert
<1> QED BY <1>1, <1>2 DEF Insert, OneRowMoves, RowMoves, Good

LEMMA SaveMoves ==
  ASSUME RInv, NEW c \in Calls, Save(c)
  PROVE  OneRowMoves
<1>1. call[c].id \in Requests /\ Good(call[c].row)
  BY DEF RInv, IInv, CallsOK, CallOK, Save, RowSteps
<1>2. Follows(requests[call[c].id], call[c].row)
  BY DEF RInv, UpToDate, InHandOK, Save
<1> QED BY <1>1, <1>2 DEF Save, OneRowMoves, RowMoves, Good

\* A row a loop has yet to visit is the stored one.
LEMMA Visiting ==
  ASSUME RInv, NEW c \in Calls, call[c].step \in {"finalize", "sweep"}, NEW s \in call[c].todo
  PROVE  /\ s.id \in Requests /\ s.row = requests[s.id] /\ Good(s.row)
         /\ call[c].step = "finalize" => s.row.status = "manager_approved"
  BY DEF RInv, IInv, TypeOK, CallState, Entry, CallsOK, CallOK, UpToDate, InHandOK

LEMMA FinalizeOneMoves ==
  ASSUME RInv, NEW c \in Calls, FinalizeOne(c)
  PROVE  OneRowMoves
<1>1. PICK s \in call[c].todo :
        \/ requests' = [requests EXCEPT ![s.id] = PolicyApproved(s.row)]
        \/ requests' = requests
  BY DEF FinalizeOne
<1>2. /\ s.id \in Requests /\ s.row = requests[s.id] /\ Good(s.row)
      /\ s.row.status = "manager_approved"
  BY Visiting DEF FinalizeOne
<1>3. Settles(requests[s.id], PolicyApproved(s.row)) /\ PolicyApproved(s.row) \in Row
  BY <1>2, PolicyApprovedSettles, GoodPolicyApproved DEF Good
<1> QED BY <1>1, <1>2, <1>3 DEF OneRowMoves, RowMoves

LEMMA SweepOneMoves ==
  ASSUME RInv, NEW c \in Calls, SweepOne(c)
  PROVE  OneRowMoves
<1>1. PICK s \in call[c].todo :
        \/ requests' = [requests EXCEPT ![s.id] = [s.row EXCEPT !.escalated = TRUE]]
        \/ requests' = [requests EXCEPT ![s.id] = [s.row EXCEPT !.reminded = TRUE]]
        \/ requests' = requests
  BY DEF SweepOne
<1>2. s.id \in Requests /\ s.row = requests[s.id] /\ Good(s.row)
  BY Visiting DEF SweepOne
<1>3. /\ Marks(requests[s.id], [s.row EXCEPT !.escalated = TRUE])
      /\ Marks(requests[s.id], [s.row EXCEPT !.reminded = TRUE])
      /\ [s.row EXCEPT !.escalated = TRUE] \in Row /\ [s.row EXCEPT !.reminded = TRUE] \in Row
  BY <1>2, StampsMark, GoodReminded DEF Good
<1> QED BY <1>1, <1>2, <1>3 DEF OneRowMoves, RowMoves

LEMMA Undoable ==
  ASSUME IInv, NEW r \in Requests, NEW actor \in Users, CanUndo(requests[r], actor, now)
  PROVE  Good(requests[r])
<1>1. requests[r].status # "none"
  BY DEF CanUndo, LeadsTo
<1> QED BY <1>1 DEF IInv, RowsOK, Stored, Vacant

LEMMA UndoMoves ==
  ASSUME RInv, NEW c \in Calls, NEW r \in Requests, NEW actor \in Users, Undo(c, r, actor)
  PROVE  OneRowMoves
<1>1. /\ CanUndo(requests[r], actor, now) /\ now \in Nat
      /\ requests' = [requests EXCEPT ![r] = Undone(requests[r])]
  BY DEF Undo, RInv, IInv, TypeOK
<1>2. Good(requests[r])
  BY <1>1, Undoable DEF RInv
<1>3. Undoes(r, Undone(requests[r])) /\ Undone(requests[r]) \in Row
  BY <1>1, <1>2, UndoneTakesBack, GoodUndone DEF Good, Undo, Undoes
<1> QED BY <1>1, <1>3 DEF OneRowMoves, RowMoves

LEMMA EveryStepMoves ==
  ASSUME RInv, [Next]_vars
  PROVE  OneRowMoves
<1>1. ASSUME NEW c \in Calls, NEW r \in Requests, OnRequest(c, r) PROVE OneRowMoves
  <2>1. CASE \E actor \in Users : Undo(c, r, actor)
    BY <2>1, UndoMoves
  <2>2. CASE \/ Create(c, r) \/ ManagerApprove(c, r) \/ HrApprove(c, r) \/ Reject(c, r)
             \/ Cancel(c, r) \/ Resubmit(c, r) \/ BookSession(c, r)
    BY <2>2 DEF Create, ManagerApprove, HrApprove, Reject, Cancel, Resubmit, BookSession, db,
                OneRowMoves
  <2> QED BY <1>1, <2>1, <2>2 DEF OnRequest
<1>2. ASSUME NEW c \in Calls, OnTables(c) PROVE OneRowMoves
  BY <1>2 DEF OnTables, UpdateBoost, SetRequiresHr, ToggleOption, TokenReminder, SlaSweep, db,
              OneRowMoves
<1>3. ASSUME NEW c \in Calls, Continue(c) PROVE OneRowMoves
  <2>1. CASE Insert(c) \/ Save(c) \/ FinalizeOne(c) \/ SweepOne(c)
    BY <2>1, InsertMoves, SaveMoves, FinalizeOneMoves, SweepOneMoves
  <2>2. CASE \/ CheckNew(c) \/ Recheck(c) \/ Deduct(c) \/ SaveBalance(c) \/ RemindOne(c)
             \/ LoopDone(c) \/ InsertSession(c)
    BY <2>2 DEF CheckNew, Recheck, Deduct, SaveBalance, RemindOne, LoopDone, InsertSession, db,
                OneRowMoves
  <2> QED BY <1>3, <2>1, <2>2 DEF Continue
<1>4. CASE Tick \/ NextYear \/ Restart \/ UNCHANGED vars
  BY <1>4 DEF Tick, NextYear, Restart, vars, db, OneRowMoves
<1> QED BY <1>1, <1>2, <1>3, <1>4 DEF Next

-----------------------------------------------------------------------------
(* A row's step is a step of the lifecycle *)

LEMMA LifecycleMove ==
  ASSUME requests \in [Requests -> Row], NEW r \in Requests, NEW new \in Row,
         requests' = [requests EXCEPT ![r] = new]
  PROVE  Lifecycle!Move(r, new.status, Back(new))
<1>1. [q \in Requests |-> requests'[q].status] =
        [[q \in Requests |-> requests[q].status] EXCEPT ![r] = new.status]
  OBVIOUS
<1>2. [q \in Requests |-> Back(requests'[q])] =
        [[q \in Requests |-> Back(requests[q])] EXCEPT ![r] = Back(new)]
  OBVIOUS
<1> QED BY <1>1, <1>2 DEF Lifecycle!Move, Back

LEMMA LifecycleSteps ==
  ASSUME requests \in [Requests -> Row], OneRowMoves
  PROVE  [Lifecycle!Next]_(Lifecycle!lifecycle)
<1>1. CASE requests' = requests
  BY <1>1 DEF Lifecycle!lifecycle
<1>2. ASSUME NEW r \in Requests, NEW new \in Row, RowMoves(r, new)
      PROVE  [Lifecycle!Next]_(Lifecycle!lifecycle)
  <2> DEFINE old == requests[r]
             status == [q \in Requests |-> requests[q].status]
             back == [q \in Requests |->
                        IF Live(requests[q].decision) THEN requests[q].decision.previous
                        ELSE "none"]
  <2>1. /\ requests' = [requests EXCEPT ![r] = new]
        /\ \/ Submits(old, new) \/ Follows(old, new) \/ Settles(old, new) \/ Marks(old, new)
           \/ TakesBack(old, new)
    BY <1>2 DEF RowMoves, Undoes
  <2>2. /\ status' = [status EXCEPT ![r] = new.status]
        /\ back' = [back EXCEPT ![r] = Back(new)]
    BY <2>1, LifecycleMove DEF Lifecycle!Move
  <2>3. status[r] = old.status /\ back[r] = Back(old)
    BY DEF Back
  <2>4. /\ status \in [Requests -> {requests[q].status : q \in Requests}]
        /\ back \in [Requests -> {Back(requests[q]) : q \in Requests}]
    BY DEF Back
  <2> USE DEF Lifecycle!Next, Lifecycle!Step, Lifecycle!Move
  <2> HIDE DEF status, back, old
  <2>5. CASE Submits(old, new)
    <3>1. Lifecycle!Submit(r)
      BY <2>2, <2>3, <2>5 DEF Submits, Vacant, Lifecycle!Submit, status, back
    <3> QED BY <3>1
  <2>6. CASE Follows(old, new)
    <3>1. CASE old.status = "pending" /\ Back(new) = "pending"
               /\ new.status \in {"manager_approved", "approved"}
      <4>1. Lifecycle!FirstLevel(r)
        BY <2>2, <2>3, <3>1 DEF Lifecycle!FirstLevel, status, back
      <4> QED BY <4>1
    <3>2. CASE old.status = "manager_approved" /\ new.status = "approved"
               /\ Back(new) = "manager_approved"
      <4>1. Lifecycle!SecondLevel(r)
        BY <2>2, <2>3, <3>2 DEF Lifecycle!SecondLevel, status, back
      <4> QED BY <4>1
    <3>3. CASE old.status \in Pipeline /\ new.status = "rejected" /\ Back(new) = old.status
      <4>1. Lifecycle!TurnDown(r)
        BY <2>2, <2>3, <3>3 DEF Pipeline, Lifecycle!Waiting, Lifecycle!TurnDown, status, back
      <4> QED BY <4>1
    <3>4. CASE old.status \in Pipeline /\ new.status = "cancelled" /\ Back(new) = "none"
      <4>1. Lifecycle!Withdraw(r)
        BY <2>2, <2>3, <3>4 DEF Pipeline, Lifecycle!Waiting, Lifecycle!Withdraw, status, back
      <4> QED BY <4>1
    <3>5. CASE old.status = "rejected" /\ new.status = "pending" /\ Back(new) = "none"
      <4>1. Lifecycle!TryAgain(r)
        BY <2>2, <2>3, <3>5 DEF Lifecycle!TryAgain, status, back
      <4> QED BY <4>1
    <3> QED BY <2>6, <3>1, <3>2, <3>3, <3>4, <3>5 DEF Follows, Decides
  <2>7. CASE Settles(old, new)
    <3>1. Lifecycle!Settle(r)
      BY <2>2, <2>3, <2>7 DEF Settles, Lifecycle!Settle, status, back
    <3> QED BY <3>1
  <2>8. CASE Marks(old, new)
    <3>1. status' = status /\ back' = back
      BY <2>2, <2>3, <2>4, <2>8 DEF Marks
    <3> QED BY <3>1 DEF Lifecycle!lifecycle, status, back
  <2>9. CASE TakesBack(old, new)
    <3>1. Lifecycle!TakeBack(r)
      BY <2>2, <2>3, <2>9 DEF TakesBack, Lifecycle!TakeBack, status, back
    <3> QED BY <3>1
  <2> QED BY <2>1, <2>5, <2>6, <2>7, <2>8, <2>9
<1> QED BY <1>1, <1>2 DEF OneRowMoves

LEMMA LifecycleStarts == Init => Lifecycle!Init
<1> SUFFICES ASSUME Init PROVE Lifecycle!Init
  OBVIOUS
<1>1. \A r \in Requests : requests[r].status = "none" /\ ~Live(requests[r].decision)
  BY DEF Init, Vacant, NoDecision, Live
<1> QED BY <1>1 DEF Lifecycle!Init

-----------------------------------------------------------------------------
(* What is in hand stays up to date *)

\* A call with no row in hand.
LEMMA EmptyHanded ==
  ASSUME NEW table, NEW k, k.step \in {"idle", "deduct", "charge", "remind"}
  PROVE  InHandOK(table, k)
  BY DEF InHandOK

\* A call that keeps the rows it has in hand, or some of them.
LEMMA KeptInHand ==
  ASSUME RInv, RowsStay, NEW c \in Calls,
         call'[c].step = call[c].step, call'[c].id = call[c].id, call'[c].row = call[c].row,
         call'[c].todo \subseteq call[c].todo
  PROVE  InHandOK(requests', call'[c])
<1> DEFINE k == call[c]
           kk == call'[c]
<1>1. /\ InHandOK(requests, k) /\ CallOK(k) /\ k \in CallState
      /\ kk.step = k.step /\ kk.id = k.id /\ kk.row = k.row /\ kk.todo \subseteq k.todo
  BY DEF RInv, UpToDate, IInv, CallsOK, TypeOK
<1>2. \A r \in Requests : InHand(k, r) /\ InHand(kk, r) => requests'[r] = requests[r]
  BY DEF RowsStay
<1> HIDE DEF k, kk
<1>3. ASSUME k.step \in {"check", "insert", "recheck", "save", "book"}
      PROVE  requests'[k.id] = requests[k.id]
  <2>1. k.id \in Requests
    BY <1>1, <1>3 DEF CallOK, RowSteps
  <2> QED BY <1>1, <1>2, <1>3, <2>1 DEF InHand
<1>4. ASSUME k.step \in {"finalize", "sweep"}, NEW s \in kk.todo
      PROVE  s.row = requests'[s.id]
  <2>1. s.id \in Requests /\ s \in k.todo
    BY <1>1, <1>4 DEF CallState, Entry
  <2>2. InHand(k, s.id) /\ InHand(kk, s.id)
    BY <1>1, <1>4, <2>1 DEF InHand
  <2>3. s.row = requests[s.id]
    BY <1>1, <1>4, <2>1 DEF InHandOK
  <2> QED BY <1>2, <2>1, <2>2, <2>3
<1>5. InHandOK(requests', kk)
  BY <1>1, <1>3, <1>4 DEF InHandOK
<1> QED BY <1>5 DEF kk

\* One call moves, the others keep what they have.
LEMMA OthersKeep ==
  ASSUME RInv, RowsStay, NEW c \in Calls, NEW k, call' = [call EXCEPT ![c] = k],
         InHandOK(requests', k)
  PROVE  \A d \in Calls : InHandOK(requests', call'[d])
<1>1. call \in [Calls -> CallState]
  BY DEF RInv, IInv, TypeOK
<1>2. ASSUME NEW d \in Calls PROVE InHandOK(requests', call'[d])
  <2>1. CASE d = c
    BY <1>1, <2>1
  <2>2. CASE d # c
    <3>1. call'[d] = call[d]
      BY <1>1, <2>2
    <3> QED BY <3>1, KeptInHand
  <2> QED BY <2>1, <2>2
<1> QED BY <1>2

LEMMA NobodyMoves ==
  ASSUME RInv, RowsStay, call' = call
  PROVE  \A d \in Calls : InHandOK(requests', call'[d])
  BY KeptInHand

LEMMA ReturnsKeep ==
  ASSUME RInv, RowsStay, NEW c \in Calls, Return(c)
  PROVE  \A d \in Calls : InHandOK(requests', call'[d])
<1>1. InHandOK(requests', Idle)
  BY EmptyHanded DEF Idle
<1> QED BY <1>1, OthersKeep DEF Return

LEMMA VisitsKeep ==
  ASSUME RInv, RowsStay, NEW c \in Calls, NEW s, call' = [call EXCEPT ![c].todo = @ \ {s}]
  PROVE  \A d \in Calls : InHandOK(requests', call'[d])
<1>1. call \in [Calls -> CallState]
  BY DEF RInv, IInv, TypeOK
<1>2. ASSUME NEW d \in Calls
      PROVE  /\ call'[d].step = call[d].step /\ call'[d].id = call[d].id
             /\ call'[d].row = call[d].row /\ call'[d].todo \subseteq call[d].todo
  BY <1>1 DEF CallState
<1> QED BY <1>2, KeptInHand

\* A decision is held over the row it was taken on.
LEMMA HoldKeeps ==
  ASSUME RInv, RowsStay, NEW c \in Calls, NEW r \in Requests, NEW row,
         NEW step \in {"insert", "recheck", "save", "deduct", "book"}, Hold(c, step, r, row),
         requests' = requests,
         step = "insert" => Submits(requests[r], row),
         step \in {"recheck", "save"} => Follows(requests[r], row),
         step = "book" => requests[r].status = "approved" /\ requests[r].type = "coaching"
  PROVE  \A d \in Calls : InHandOK(requests', call'[d])
<1> DEFINE k == [Idle EXCEPT !.step = step, !.id = r, !.row = row]
<1>1. k.step = step /\ k.id = r /\ k.row = row
  BY DEF Idle
<1>2. call' = [call EXCEPT ![c] = k]
  BY DEF Hold
<1> HIDE DEF k
<1>3. InHandOK(requests', k)
  BY <1>1 DEF InHandOK
<1> QED BY <1>2, <1>3, OthersKeep

LEMMA CreateKeeps ==
  ASSUME RInv, RowsStay, NEW c \in Calls, NEW r \in Requests, Create(c, r)
  PROVE  \A d \in Calls : InHandOK(requests', call'[d])
<1>1. PICK e \in Employees, t \in Offered :
        \E coach \in CoachChoices(e, t), cost \in CostsOf(t) :
          call' = [call EXCEPT ![c] =
                    [Idle EXCEPT !.step = "check", !.id = r,
                       !.row = NewRequest(e, t, cost, year, FirstApprover(e, coach), coach),
                       !.ledger = {[account |-> <<e, year>>,
                                    balance |-> balances[<<e, year>>]]}]]
  BY Zenon DEF Create
<1>2. PICK coach \in CoachChoices(e, t), cost \in CostsOf(t) :
        call' = [call EXCEPT ![c] =
                  [Idle EXCEPT !.step = "check", !.id = r,
                     !.row = NewRequest(e, t, cost, year, FirstApprover(e, coach), coach),
                     !.ledger = {[account |-> <<e, year>>,
                                  balance |-> balances[<<e, year>>]]}]]
  BY <1>1, Zenon
<1> DEFINE row == NewRequest(e, t, cost, year, FirstApprover(e, coach), coach)
           k == [Idle EXCEPT !.step = "check", !.id = r, !.row = row,
                   !.ledger = {[account |-> <<e, year>>, balance |-> balances[<<e, year>>]]}]
<1>3. k.step = "check" /\ k.id = r /\ k.row = row
  BY DEF Idle
<1>4. requests'[r] = Vacant /\ Submits(Vacant, row)
  BY NewSubmits DEF Create, db
<1>5. call' = [call EXCEPT ![c] = k]
  BY <1>2
<1> HIDE DEF row, k
<1>6. InHandOK(requests', k)
  BY <1>3, <1>4 DEF InHandOK
<1> QED BY <1>5, <1>6, OthersKeep

LEMMA CheckNewKeeps ==
  ASSUME RInv, RowsStay, NEW c \in Calls, CheckNew(c)
  PROVE  \A d \in Calls : InHandOK(requests', call'[d])
<1>1. call[c].id \in Requests /\ Submits(requests[call[c].id], call[c].row)
  BY DEF CheckNew, RInv, IInv, CallsOK, CallOK, RowSteps, UpToDate, InHandOK
<1>2. /\ Hold(c, "insert", call[c].id, call[c].row) \/ Return(c)
      /\ requests' = requests
  BY DEF CheckNew, db
<1> QED BY <1>1, <1>2, HoldKeeps, ReturnsKeep

LEMMA DecisionsKeep ==
  ASSUME RInv, RowsStay, NEW c \in Calls, NEW r \in Requests,
         \/ ManagerApprove(c, r) \/ HrApprove(c, r) \/ Reject(c, r) \/ Cancel(c, r)
         \/ Resubmit(c, r)
  PROVE  \A d \in Calls : InHandOK(requests', call'[d])
<1> DEFINE row == requests[r]
<1>1. /\ requests' = requests /\ IInv
      /\ \A t \in OptionTypes : options[t].requiresHr \in BOOLEAN
  BY DEF ManagerApprove, HrApprove, Reject, Cancel, Resubmit, db, RInv, IInv, TypeOK
<1>2. \E step \in {"recheck", "save"} : \E new : Hold(c, step, r, new) /\ Follows(row, new)
  <2>1. CASE ManagerApprove(c, r)
    <3>1. PICK approver \in Users : CanManagerApprove(row, approver)
      BY <2>1 DEF ManagerApprove
    <3>2. Good(row)
      BY <1>1, <3>1, Submitted DEF CanManagerApprove, Statuses, Pipeline
    <3>3. options[row.type].requiresHr \in BOOLEAN
      BY <1>1, <3>2 DEF Good
    <3> QED BY <2>1, <3>1, <3>2, <3>3, ManagerApprovedFollows DEF ManagerApprove
  <2>2. CASE HrApprove(c, r)
    <3>1. CanHrApprove(row)
      BY <2>2 DEF HrApprove
    <3>2. Good(row)
      BY <1>1, <3>1, Submitted DEF CanHrApprove, Statuses, Pipeline
    <3> QED BY <2>2, <3>1, <3>2, HrApprovedFollows DEF HrApprove
  <2>3. CASE Reject(c, r)
    <3>1. PICK rejector \in Users, level \in {"manager", "hr"} :
            /\ CanReject(row, rejector, level)
            /\ Hold(c, "save", r, Rejected(row, rejector, level, now))
      BY <2>3 DEF Reject
    <3>2. Good(row)
      BY <1>1, <3>1, Submitted DEF CanReject, Statuses, Pipeline
    <3> QED BY <3>1, <3>2, RejectedFollows
  <2>4. CASE Cancel(c, r)
    <3>1. CanCancel(row)
      BY <2>4 DEF Cancel
    <3>2. Good(row)
      BY <1>1, <3>1, Submitted DEF CanCancel, Statuses
    <3> QED BY <2>4, <3>1, <3>2, CancelledFollows DEF Cancel
  <2>5. CASE Resubmit(c, r)
    <3>1. CanResubmit(row)
      BY <2>5 DEF Resubmit
    <3>2. Good(row)
      BY <1>1, <3>1, Submitted DEF CanResubmit, Statuses
    <3>3. \E step \in {"recheck", "save"} : \E cost, coach :
            Hold(c, step, r, Resubmitted(row, cost, coach))
      BY <2>5 DEF Resubmit
    <3> QED BY <3>1, <3>2, <3>3, ResubmittedFollows
  <2> QED BY <2>1, <2>2, <2>3, <2>4, <2>5
<1> QED BY <1>1, <1>2, HoldKeeps

LEMMA RecheckKeeps ==
  ASSUME RInv, RowsStay, NEW c \in Calls, Recheck(c)
  PROVE  \A d \in Calls : InHandOK(requests', call'[d])
<1>1. call[c].id \in Requests /\ Follows(requests[call[c].id], call[c].row)
  BY DEF Recheck, RInv, IInv, CallsOK, CallOK, RowSteps, UpToDate, InHandOK
<1>2. /\ Hold(c, "save", call[c].id, call[c].row) \/ Return(c)
      /\ requests' = requests
  BY DEF Recheck, db
<1> QED BY <1>1, <1>2, HoldKeeps, ReturnsKeep

LEMMA SaveKeeps ==
  ASSUME RInv, RowsStay, NEW c \in Calls, Save(c)
  PROVE  \A d \in Calls : InHandOK(requests', call'[d])
<1> DEFINE k == [Idle EXCEPT !.step = "deduct", !.id = call[c].id, !.row = call[c].row]
<1>1. k.step = "deduct"
  BY DEF Idle
<1>2. call' = [call EXCEPT ![c] = k] \/ Return(c)
  BY DEF Save, Hold
<1> HIDE DEF k
<1>3. InHandOK(requests', k)
  BY <1>1, EmptyHanded
<1> QED BY <1>2, <1>3, OthersKeep, ReturnsKeep

\* Handlers of balances have no request in hand.
LEMMA BalancesKeep ==
  ASSUME RInv, RowsStay, NEW c \in Calls,
         \/ Deduct(c) \/ SaveBalance(c) \/ TokenReminder(c) \/ RemindOne(c)
         \/ \E a \in Accounts : UpdateBoost(c, a)
  PROVE  \A d \in Calls : InHandOK(requests', call'[d])
<1>1. ASSUME NEW ledger, NEW step \in {"charge", "remind"},
             call' = [call EXCEPT ![c] = [Idle EXCEPT !.step = step, !.ledger = ledger]]
      PROVE  \A d \in Calls : InHandOK(requests', call'[d])
  <2> DEFINE k == [Idle EXCEPT !.step = step, !.ledger = ledger]
  <2>1. k.step \in {"charge", "remind"} /\ call' = [call EXCEPT ![c] = k]
    BY <1>1 DEF Idle
  <2> HIDE DEF k
  <2>2. InHandOK(requests', k)
    BY <2>1, EmptyHanded
  <2> QED BY <2>1, <2>2, OthersKeep
<1>2. CASE Deduct(c)
  BY <1>1, <1>2, ReturnsKeep DEF Deduct
<1>3. CASE SaveBalance(c)
  BY <1>3, ReturnsKeep DEF SaveBalance
<1>4. CASE TokenReminder(c)
  BY <1>1, <1>4 DEF TokenReminder
<1>5. CASE RemindOne(c)
  <2>1. PICK l : call' = [call EXCEPT ![c].ledger = @ \ {l}]
    BY <1>5 DEF RemindOne
  <2> DEFINE k == [call[c] EXCEPT !.ledger = @ \ {l}]
  <2>2. call[c] \in CallState /\ call[c].step = "remind"
    BY <1>5 DEF RemindOne, RInv, IInv, TypeOK
  <2>3. k.step = "remind" /\ call' = [call EXCEPT ![c] = k]
    BY <2>1, <2>2 DEF CallState
  <2> HIDE DEF k
  <2>4. InHandOK(requests', k)
    BY <2>3, EmptyHanded
  <2> QED BY <2>3, <2>4, OthersKeep
<1>6. CASE \E a \in Accounts : UpdateBoost(c, a)
  BY <1>1, <1>6 DEF UpdateBoost
<1> QED BY <1>2, <1>3, <1>4, <1>5, <1>6

\* A loop starts with the rows it has just loaded.
LEMMA LoopsKeep ==
  ASSUME RInv, RowsStay, NEW c \in Calls,
         SlaSweep(c) \/ \E t \in Offered : SetRequiresHr(c, t)
  PROVE  \A d \in Calls : InHandOK(requests', call'[d])
<1>1. requests' = requests
  BY DEF SlaSweep, SetRequiresHr, db
<1>2. ASSUME NEW todo, NEW step \in {"finalize", "sweep"}, \A s \in todo : s.row = requests[s.id],
             call' = [call EXCEPT ![c] = [Idle EXCEPT !.step = step, !.todo = todo]]
      PROVE  \A d \in Calls : InHandOK(requests', call'[d])
  <2> DEFINE k == [Idle EXCEPT !.step = step, !.todo = todo]
  <2>1. k.step = step /\ k.todo = todo
    BY DEF Idle
  <2>2. call' = [call EXCEPT ![c] = k]
    BY <1>2
  <2> HIDE DEF k
  <2>3. InHandOK(requests', k)
    BY <1>1, <1>2, <2>1 DEF InHandOK
  <2> QED BY <2>2, <2>3, OthersKeep
<1>3. CASE SlaSweep(c)
  <2> DEFINE todo == {[id |-> r, row |-> requests[r]] :
                        r \in {q \in Requests : requests[q].status \in Pipeline}}
  <2>1. \A s \in todo : s.row = requests[s.id]
    OBVIOUS
  <2>2. call' = [call EXCEPT ![c] = [Idle EXCEPT !.step = "sweep", !.todo = todo]]
    BY <1>3 DEF SlaSweep
  <2> HIDE DEF todo
  <2> QED BY <1>2, <2>1, <2>2
<1>4. ASSUME NEW t \in Offered, SetRequiresHr(c, t)
      PROVE  \A d \in Calls : InHandOK(requests', call'[d])
  <2>1. \A s \in Stranded(t) : s.row = requests[s.id]
    BY DEF Stranded
  <2>2. \/ call' = [call EXCEPT ![c] =
                     [Idle EXCEPT !.step = "finalize", !.todo = Stranded(t)]]
        \/ call' = call
    BY <1>4 DEF SetRequiresHr
  <2> QED BY <1>2, <2>1, <2>2, NobodyMoves
<1> QED BY <1>3, <1>4

LEMMA BookSessionKeeps ==
  ASSUME RInv, RowsStay, NEW c \in Calls, NEW r \in Requests, BookSession(c, r)
  PROVE  \A d \in Calls : InHandOK(requests', call'[d])
  BY HoldKeeps DEF BookSession, db

LEMMA RestartKeeps ==
  ASSUME Restart
  PROVE  \A d \in Calls : InHandOK(requests', call'[d])
<1>1. InHandOK(requests', Idle)
  BY EmptyHanded DEF Idle
<1> QED BY <1>1 DEF Restart

LEMMA EveryStepKeeps ==
  ASSUME RInv, RowsStay, [Next]_vars
  PROVE  \A d \in Calls : InHandOK(requests', call'[d])
<1> DEFINE Kept == \A d \in Calls : InHandOK(requests', call'[d])
<1>1. ASSUME NEW c \in Calls, NEW r \in Requests, OnRequest(c, r) PROVE Kept
  <2>1. CASE \E actor \in Users : Undo(c, r, actor)
    BY <2>1, NobodyMoves DEF Undo
  <2> QED BY <1>1, <2>1, CreateKeeps, DecisionsKeep, BookSessionKeeps DEF OnRequest
<1>2. ASSUME NEW c \in Calls, OnTables(c) PROVE Kept
  <2>1. CASE \E t \in Offered : ToggleOption(c, t)
    BY <2>1, NobodyMoves DEF ToggleOption
  <2> QED BY <1>2, <2>1, BalancesKeep, LoopsKeep DEF OnTables
<1>3. ASSUME NEW c \in Calls, Continue(c) PROVE Kept
  <2>1. CASE Insert(c) \/ LoopDone(c) \/ InsertSession(c)
    BY <2>1, ReturnsKeep DEF Insert, LoopDone, InsertSession
  <2>2. CASE FinalizeOne(c) \/ SweepOne(c)
    BY <2>2, VisitsKeep DEF FinalizeOne, SweepOne
  <2> QED BY <1>3, <2>1, <2>2, CheckNewKeeps, RecheckKeeps, SaveKeeps, BalancesKeep
          DEF Continue
<1>4. CASE Restart
  BY <1>4, RestartKeeps
<1>5. CASE Tick \/ NextYear \/ UNCHANGED vars
  BY <1>5, NobodyMoves DEF Tick, NextYear, vars
<1> QED BY <1>1, <1>2, <1>3, <1>4, <1>5 DEF Next

LEMMA BookedStay ==
  ASSUME RInv, [Next]_vars
  PROVE  BookedOK'
<1>1. requests \in [Requests -> Row] /\ BookedOK /\ booked \subseteq Requests
  BY DEF RInv, UpToDate, IInv, TypeOK
<1>2. \/ booked' = booked
      \/ requests' = requests /\ \E r \in Requests :
           /\ booked' = booked \cup {r}
           /\ requests[r].status = "approved" /\ requests[r].type = "coaching"
  <2>1. ASSUME NEW c \in Calls, InsertSession(c)
        PROVE  requests' = requests /\ \E r \in Requests :
                 /\ booked' = booked \cup {r}
                 /\ requests[r].status = "approved" /\ requests[r].type = "coaching"
    <3>1. /\ call[c].step = "book" /\ requests' = requests
          /\ booked' = booked \cup {call[c].id}
      BY <2>1 DEF InsertSession
    <3>2. /\ call[c].id \in Requests
          /\ requests[call[c].id].status = "approved"
          /\ requests[call[c].id].type = "coaching"
      BY <3>1 DEF RInv, IInv, CallsOK, CallOK, UpToDate, InHandOK
    <3> QED BY <3>1, <3>2
  <2>2. ASSUME NEW c \in Calls, NEW r \in Requests, OnRequest(c, r) PROVE booked' = booked
    BY <2>2 DEF OnRequest, Create, ManagerApprove, HrApprove, Reject, Cancel, Resubmit, Undo,
                BookSession, db
  <2>3. ASSUME NEW c \in Calls, OnTables(c) PROVE booked' = booked
    BY <2>3 DEF OnTables, UpdateBoost, SetRequiresHr, ToggleOption, TokenReminder, SlaSweep, db
  <2>4. ASSUME NEW c \in Calls, Continue(c), ~InsertSession(c) PROVE booked' = booked
    BY <2>4 DEF Continue, CheckNew, Insert, Recheck, Save, Deduct, SaveBalance, RemindOne,
                FinalizeOne, SweepOne, LoopDone, db
  <2>5. CASE Tick \/ NextYear \/ Restart \/ UNCHANGED vars
    BY <2>5 DEF Tick, NextYear, Restart, vars, db
  <2> QED BY <2>1, <2>2, <2>3, <2>4, <2>5 DEF Next
<1>3. ASSUME NEW r \in booked
      PROVE  requests'[r].status = "approved" /\ requests'[r].type = "coaching"
  <2>1. r \in Requests /\ requests[r].status = "approved" /\ requests[r].type = "coaching"
    BY <1>1 DEF BookedOK
  <2>2. HasSessions(r)
    BY <2>1 DEF HasSessions
  <2>3. CASE requests' = requests
    BY <2>1, <2>3
  <2>4. ASSUME NEW q \in Requests, NEW new \in Row, RowMoves(q, new)
        PROVE  requests'[r].status = "approved" /\ requests'[r].type = "coaching"
    <3>1. requests' = [requests EXCEPT ![q] = new]
      BY <2>4 DEF RowMoves
    <3>2. CASE q # r
      BY <1>1, <2>1, <3>1, <3>2
    <3>3. CASE q = r
      <4>1. Marks(requests[r], new)
        BY <2>1, <2>2, <2>4, <3>3 DEF RowMoves, Submits, Vacant, Follows, Decides, Pipeline,
                                      Settles, Undoes
      <4> QED BY <1>1, <2>1, <3>1, <3>3, <4>1 DEF Marks
    <3> QED BY <3>2, <3>3
  <2> QED BY <2>3, <2>4, EveryStepMoves DEF OneRowMoves
<1> QED BY <1>2, <1>3 DEF BookedOK

LEMMA UpToDateStarts == Init => UpToDate
<1> SUFFICES ASSUME Init PROVE UpToDate
  OBVIOUS
<1>1. InHandOK(requests, Idle)
  BY EmptyHanded DEF Idle
<1> QED BY <1>1 DEF Init, UpToDate, BookedOK

LEMMA UpToDateStays ==
  ASSUME RInv, RowsStay, [Next]_vars
  PROVE  UpToDate'
  BY EveryStepKeeps, BookedStay DEF UpToDate

-----------------------------------------------------------------------------
(* Balances *)

\* A balance in hand differs from the stored one by a deduction the employee can
\* pay, or not in what is used.
LedgerOK(table, k) ==
  /\ k.step = "charge" =>
       \A l \in k.ledger : \/ Remaining(l.balance) >= 0
                           \/ l.balance.used = table[l.account].used
  /\ k.step = "remind" => \A l \in k.ledger : l.balance = table[l.account]

LedgersOK == \A c \in Calls : LedgerOK(balances, call[c])

BInv == IInv /\ LedgersOK

LEMMA NoLedger ==
  ASSUME NEW table, NEW k, k.step \notin {"charge", "remind"}
  PROVE  LedgerOK(table, k)
  BY DEF LedgerOK

LEMMA LedgerKept ==
  ASSUME BInv, BalancesStay, NEW c \in Calls,
         call'[c].step = call[c].step, call'[c].ledger \subseteq call[c].ledger
  PROVE  LedgerOK(balances', call'[c])
<1> DEFINE k == call[c]
           kk == call'[c]
<1>1. /\ LedgerOK(balances, k) /\ k \in CallState
      /\ kk.step = k.step /\ kk.ledger \subseteq k.ledger
  BY DEF BInv, LedgersOK, IInv, TypeOK
<1>2. \A a \in Accounts :
        ReadsBalance(k, a) /\ ReadsBalance(kk, a) => balances'[a] = balances[a]
  BY DEF BalancesStay
<1> HIDE DEF k, kk
<1>3. ASSUME k.step \in {"charge", "remind"}, NEW l \in kk.ledger
      PROVE  l \in k.ledger /\ balances'[l.account] = balances[l.account]
  <2>1. l \in k.ledger /\ l.account \in Accounts
    BY <1>1, <1>3 DEF CallState, LedgerEntry
  <2>2. ReadsBalance(k, l.account) /\ ReadsBalance(kk, l.account)
    BY <1>1, <1>3, <2>1 DEF ReadsBalance
  <2> QED BY <1>2, <2>1, <2>2
<1>4. LedgerOK(balances', kk)
  BY <1>1, <1>3 DEF LedgerOK
<1> QED BY <1>4 DEF kk

LEMMA OtherLedgers ==
  ASSUME BInv, BalancesStay, NEW c \in Calls, NEW k, call' = [call EXCEPT ![c] = k],
         LedgerOK(balances', k)
  PROVE  LedgersOK'
<1>1. call \in [Calls -> CallState]
  BY DEF BInv, IInv, TypeOK
<1>2. ASSUME NEW d \in Calls PROVE LedgerOK(balances', call'[d])
  <2>1. CASE d = c
    BY <1>1, <2>1
  <2>2. CASE d # c
    <3>1. call'[d] = call[d]
      BY <1>1, <2>2
    <3> QED BY <3>1, LedgerKept
  <2> QED BY <2>1, <2>2
<1> QED BY <1>2 DEF LedgersOK

\* A handler that has no balance in hand afterwards.
LEMMA WithoutLedger ==
  ASSUME BInv, BalancesStay, NEW c \in Calls, NEW k, call' = [call EXCEPT ![c] = k],
         k.step \notin {"charge", "remind"}
  PROVE  LedgersOK'
  BY NoLedger, OtherLedgers

LEMMA HeldWithoutLedger ==
  ASSUME BInv, BalancesStay, NEW c \in Calls, NEW r, NEW row,
         NEW step \in {"insert", "recheck", "save", "deduct", "book"}, Hold(c, step, r, row)
  PROVE  LedgersOK'
<1> DEFINE k == [Idle EXCEPT !.step = step, !.id = r, !.row = row]
<1>1. k.step \notin {"charge", "remind"} /\ call' = [call EXCEPT ![c] = k]
  BY DEF Idle, Hold
<1> HIDE DEF k
<1> QED BY <1>1, WithoutLedger

LEMMA ReturnedWithoutLedger ==
  ASSUME BInv, BalancesStay, NEW c \in Calls, Return(c)
  PROVE  LedgersOK'
<1>1. Idle.step \notin {"charge", "remind"}
  BY DEF Idle
<1> QED BY <1>1, WithoutLedger DEF Return

LEMMA LoopsWithoutLedger ==
  ASSUME BInv, BalancesStay, NEW c \in Calls, NEW todo, NEW step \in {"finalize", "sweep"},
         call' = [call EXCEPT ![c] = [Idle EXCEPT !.step = step, !.todo = todo]]
  PROVE  LedgersOK'
<1> DEFINE k == [Idle EXCEPT !.step = step, !.todo = todo]
<1>1. k.step \notin {"charge", "remind"} /\ call' = [call EXCEPT ![c] = k]
  BY DEF Idle
<1> HIDE DEF k
<1> QED BY <1>1, WithoutLedger

LEMMA VisitsWithoutLedger ==
  ASSUME BInv, BalancesStay, NEW c \in Calls, call[c].step \in {"finalize", "sweep"}, NEW s,
         call' = [call EXCEPT ![c].todo = @ \ {s}]
  PROVE  LedgersOK'
<1> DEFINE k == [call[c] EXCEPT !.todo = @ \ {s}]
<1>1. call[c] \in CallState
  BY DEF BInv, IInv, TypeOK
<1>2. k.step \notin {"charge", "remind"} /\ call' = [call EXCEPT ![c] = k]
  BY <1>1 DEF CallState
<1> HIDE DEF k
<1> QED BY <1>2, WithoutLedger

LEMMA SameCalls ==
  ASSUME BInv, BalancesStay, call' = call
  PROVE  LedgersOK'
  BY LedgerKept DEF LedgersOK

LEMMA CreateLedgers ==
  ASSUME BInv, BalancesStay, NEW c \in Calls, NEW r \in Requests, Create(c, r)
  PROVE  LedgersOK'
<1>1. \E row, ledger :
        call' = [call EXCEPT ![c] = [Idle EXCEPT !.step = "check", !.id = r, !.row = row,
                                                 !.ledger = ledger]]
  BY Zenon DEF Create
<1>2. PICK row, ledger :
        call' = [call EXCEPT ![c] = [Idle EXCEPT !.step = "check", !.id = r, !.row = row,
                                                 !.ledger = ledger]]
  BY <1>1, Zenon
<1> DEFINE k == [Idle EXCEPT !.step = "check", !.id = r, !.row = row, !.ledger = ledger]
<1>3. k.step \notin {"charge", "remind"} /\ call' = [call EXCEPT ![c] = k]
  BY <1>2 DEF Idle
<1> HIDE DEF k
<1> QED BY <1>3, WithoutLedger

\* A handler that goes on with a balance to save.
LEMMA WithLedger ==
  ASSUME BInv, BalancesStay, NEW c \in Calls, NEW ledger,
         call' = [call EXCEPT ![c] = [Idle EXCEPT !.step = "charge", !.ledger = ledger]],
         \A l \in ledger : \/ Remaining(l.balance) >= 0
                           \/ l.balance.used = balances'[l.account].used
  PROVE  LedgersOK'
<1> DEFINE k == [Idle EXCEPT !.step = "charge", !.ledger = ledger]
<1>1. k.step = "charge" /\ k.ledger = ledger /\ call' = [call EXCEPT ![c] = k]
  BY DEF Idle
<1> HIDE DEF k
<1>2. LedgerOK(balances', k)
  BY <1>1 DEF LedgerOK
<1> QED BY <1>1, <1>2, OtherLedgers

\* A deduction goes on only when the employee can pay.
LEMMA DeductLedgers ==
  ASSUME BInv, BalancesStay, NEW c \in Calls, Deduct(c)
  PROVE  LedgersOK'
<1> DEFINE row == call[c].row
           a == Account(row)
           charged == [balances[a] EXCEPT !.used = @ + row.cost]
           ledger == {[account |-> a, balance |-> charged]}
<1>1. CASE Return(c)
  BY <1>1, ReturnedWithoutLedger
<1>2. CASE CanPay(balances[a], row.cost)
  <2>1. a \in Accounts /\ row.cost \in Nat /\ balances[a] \in Balance
    BY DEF Deduct, BInv, IInv, TypeOK, CallsOK, CallOK, RowSteps, Good, Row
  <2>2. Remaining(charged) >= 0
    BY <1>2, <2>1, AmountsAssumption DEF CanPay, Remaining, Balance
  <2>3. \A l \in ledger : Remaining(l.balance) >= 0
    BY <2>2
  <2>4. call' = [call EXCEPT ![c] = [Idle EXCEPT !.step = "charge", !.ledger = ledger]]
    BY <1>2 DEF Deduct
  <2> HIDE DEF ledger, charged
  <2> QED BY <2>3, <2>4, WithLedger
<1> QED BY <1>1, <1>2 DEF Deduct

LEMMA UpdateBoostLedgers ==
  ASSUME BInv, BalancesStay, NEW c \in Calls, NEW a \in Accounts, UpdateBoost(c, a)
  PROVE  LedgersOK'
<1>1. PICK boost \in Boosts :
        call' = [call EXCEPT ![c] =
                  [Idle EXCEPT !.step = "charge",
                     !.ledger = {[account |-> a,
                                  balance |-> [balances[a] EXCEPT !.boost = boost]]}]]
  BY DEF UpdateBoost
<1> DEFINE boosted == [balances[a] EXCEPT !.boost = boost]
           ledger == {[account |-> a, balance |-> boosted]}
<1>2. balances' = balances /\ balances[a] \in Balance
  BY DEF UpdateBoost, db, BInv, IInv, TypeOK
<1>3. boosted.used = balances'[a].used
  BY <1>2 DEF Balance
<1> HIDE DEF boosted
<1>4. \A l \in ledger : l.balance.used = balances'[l.account].used
  BY <1>3
<1>5. call' = [call EXCEPT ![c] = [Idle EXCEPT !.step = "charge", !.ledger = ledger]]
  BY <1>1 DEF boosted
<1> HIDE DEF ledger
<1> QED BY <1>4, <1>5, WithLedger

LEMMA TokenReminderLedgers ==
  ASSUME BInv, BalancesStay, NEW c \in Calls, TokenReminder(c)
  PROVE  LedgersOK'
<1> DEFINE ledger == {[account |-> <<e, year>>, balance |-> balances[<<e, year>>]] :
                        e \in Employees}
           k == [Idle EXCEPT !.step = "remind", !.ledger = ledger]
<1>1. balances' = balances
  BY DEF TokenReminder, db
<1>2. ASSUME NEW l \in ledger PROVE l.balance = balances'[l.account]
  <2>1. PICK e \in Employees : l = [account |-> <<e, year>>, balance |-> balances[<<e, year>>]]
    OBVIOUS
  <2> QED BY <1>1, <2>1
<1>3. call' = [call EXCEPT ![c] = k]
  BY DEF TokenReminder
<1> HIDE DEF ledger
<1>4. k.step = "remind" /\ k.ledger = ledger
  BY DEF Idle
<1> HIDE DEF k
<1>5. LedgerOK(balances', k)
  BY <1>2, <1>4 DEF LedgerOK
<1> QED BY <1>3, <1>5, OtherLedgers

LEMMA RemindOneLedgers ==
  ASSUME BInv, BalancesStay, NEW c \in Calls, RemindOne(c)
  PROVE  LedgersOK'
<1>1. PICK l : call' = [call EXCEPT ![c].ledger = @ \ {l}]
  BY DEF RemindOne
<1>2. call \in [Calls -> CallState]
  BY DEF BInv, IInv, TypeOK
<1>3. ASSUME NEW d \in Calls
      PROVE  call'[d].step = call[d].step /\ call'[d].ledger \subseteq call[d].ledger
  BY <1>1, <1>2 DEF CallState
<1> QED BY <1>3, LedgerKept DEF LedgersOK

LEMMA LedgersStay ==
  ASSUME BInv, BalancesStay, [Next]_vars
  PROVE  LedgersOK'
<1>1. ASSUME NEW c \in Calls, NEW r \in Requests, OnRequest(c, r) PROVE LedgersOK'
  <2>1. CASE \E actor \in Users : Undo(c, r, actor)
    BY <2>1, SameCalls DEF Undo
  <2>2. CASE \/ ManagerApprove(c, r) \/ HrApprove(c, r) \/ Reject(c, r) \/ Cancel(c, r)
             \/ Resubmit(c, r) \/ BookSession(c, r)
    BY <2>2, HeldWithoutLedger DEF ManagerApprove, HrApprove, Reject, Cancel, Resubmit,
                                   BookSession
  <2> QED BY <1>1, <2>1, <2>2, CreateLedgers DEF OnRequest
<1>2. ASSUME NEW c \in Calls, OnTables(c) PROVE LedgersOK'
  <2>1. CASE \E t \in Offered : ToggleOption(c, t)
    BY <2>1, SameCalls DEF ToggleOption
  <2>2. CASE SlaSweep(c) \/ \E t \in Offered : SetRequiresHr(c, t)
    BY <2>2, LoopsWithoutLedger, SameCalls DEF SlaSweep, SetRequiresHr
  <2> QED BY <1>2, <2>1, <2>2, UpdateBoostLedgers, TokenReminderLedgers DEF OnTables
<1>3. ASSUME NEW c \in Calls, Continue(c) PROVE LedgersOK'
  <2>1. CASE \/ CheckNew(c) \/ Insert(c) \/ Recheck(c) \/ Save(c) \/ SaveBalance(c)
             \/ LoopDone(c) \/ InsertSession(c)
    BY <2>1, HeldWithoutLedger, ReturnedWithoutLedger
       DEF CheckNew, Insert, Recheck, Save, SaveBalance, LoopDone, InsertSession
  <2>2. CASE FinalizeOne(c) \/ SweepOne(c)
    BY <2>2, VisitsWithoutLedger DEF FinalizeOne, SweepOne
  <2> QED BY <1>3, <2>1, <2>2, DeductLedgers, RemindOneLedgers DEF Continue
<1>4. CASE Restart
  <2>1. LedgerOK(balances', Idle)
    BY NoLedger DEF Idle
  <2> QED BY <1>4, <2>1 DEF Restart, LedgersOK
<1>5. CASE Tick \/ NextYear \/ UNCHANGED vars
  BY <1>5, SameCalls DEF Tick, NextYear, vars
<1> QED BY <1>1, <1>2, <1>3, <1>4, <1>5 DEF Next

\* Whoever takes tokens leaves the balance within the allocation.
LEMMA StepsStayWithin ==
  ASSUME BInv, [Next]_vars
  PROVE  TakesWithinAllocation
<1>1. balances \in [Accounts -> Balance]
  BY DEF BInv, IInv, TypeOK
<1>2. CASE balances' = balances
  BY <1>1, <1>2 DEF TakesWithinAllocation, Balance
<1>3. ASSUME NEW a \in Accounts, NEW new \in Balance, balances' = [balances EXCEPT ![a] = new],
             Remaining(new) >= 0 \/ new.used <= balances[a].used
      PROVE  TakesWithinAllocation
  <2>1. balances[a] \in Balance
    BY <1>1
  <2>2. ASSUME NEW b \in Accounts, balances'[b].used > balances[b].used
        PROVE  Remaining(balances'[b]) >= 0
    <3>1. CASE b = a
      BY <1>1, <1>3, <2>1, <2>2, <3>1 DEF Balance
    <3>2. CASE b # a
      <4>1. balances'[b] = balances[b] /\ balances[b] \in Balance
        BY <1>1, <1>3, <3>2
      <4> QED BY <2>2, <4>1 DEF Balance
    <3> QED BY <3>1, <3>2
  <2> QED BY <2>2 DEF TakesWithinAllocation
<1>4. ASSUME NEW c \in Calls, SaveBalance(c) PROVE TakesWithinAllocation
  <2>1. PICK l \in call[c].ledger : balances' = [balances EXCEPT ![l.account] = l.balance]
    BY <1>4 DEF SaveBalance
  <2>2. l.account \in Accounts /\ l.balance \in Balance
    BY DEF BInv, IInv, TypeOK, CallState, LedgerEntry
  <2>3. Remaining(l.balance) >= 0 \/ l.balance.used = balances[l.account].used
    BY <1>4 DEF SaveBalance, BInv, LedgersOK, LedgerOK
  <2>4. Remaining(l.balance) >= 0 \/ l.balance.used <= balances[l.account].used
    BY <2>2, <2>3 DEF Balance
  <2> HIDE DEF TakesWithinAllocation
  <2> QED BY <1>3, <2>1, <2>2, <2>4
<1>5. ASSUME NEW c \in Calls, RemindOne(c) PROVE TakesWithinAllocation
  <2>1. PICK l \in call[c].ledger :
          balances' = balances \/ balances' = [balances EXCEPT ![l.account] = l.balance]
    BY <1>5 DEF RemindOne
  <2>2. l.account \in Accounts /\ l.balance = balances[l.account]
    BY <1>5 DEF RemindOne, BInv, IInv, TypeOK, CallState, LedgerEntry, LedgersOK, LedgerOK
  <2>3. balances' = balances
    BY <1>1, <2>1, <2>2
  <2> QED BY <1>2, <2>3
<1>6. ASSUME NEW c \in Calls, FinalizeOne(c) PROVE TakesWithinAllocation
  <2>1. PICK s \in call[c].todo :
          \/ /\ CanPay(balances[Account(s.row)], s.row.cost)
             /\ balances' = [balances EXCEPT ![Account(s.row)].used = @ + s.row.cost]
          \/ balances' = balances
    BY <1>6 DEF FinalizeOne
  <2> DEFINE a == Account(s.row)
             new == [balances[a] EXCEPT !.used = @ + s.row.cost]
  <2>2. Good(s.row)
    BY DEF BInv, IInv, CallsOK, CallOK
  <2>3. a \in Accounts /\ s.row.cost \in Nat
    BY <2>2 DEF Good, Row
  <2>4. balances[a] \in Balance
    BY <1>1, <2>3
  <2>5. new \in Balance
    BY <2>3, <2>4 DEF Balance
  <2>6. CASE CanPay(balances[a], s.row.cost) /\ balances' = [balances EXCEPT ![a] = new]
    <3>1. Remaining(new) >= 0
      BY <2>3, <2>4, <2>6, AmountsAssumption DEF CanPay, Remaining, Balance
    <3> QED BY <1>3, <2>3, <2>5, <2>6, <3>1
  <2> QED BY <1>2, <2>1, <2>6
<1>7. ASSUME NEW c \in Calls, NEW r \in Requests, NEW actor \in Users, Undo(c, r, actor)
      PROVE  TakesWithinAllocation
  <2> DEFINE a == Account(requests[r])
             amount == RefundOf(requests[r])
             new == Refunded(balances[a], amount)
  <2>1. Good(requests[r])
    BY <1>7, Undoable DEF Undo, BInv
  <2>2. a \in Accounts /\ amount \in Nat
    BY <2>1 DEF Good, Row, RefundOf
  <2>3. balances[a] \in Balance
    BY <1>1, <2>2
  <2>4. balances' = [balances EXCEPT ![a] = new]
    BY <1>7 DEF Undo
  <2> HIDE DEF a, amount
  <2>5. new \in Balance /\ new.used <= balances[a].used
    BY <2>2, <2>3 DEF Refunded, Balance
  <2> QED BY <1>3, <2>2, <2>4, <2>5
<1>8. ASSUME NEW c \in Calls, NEW r \in Requests, OnRequest(c, r),
             ~\E actor \in Users : Undo(c, r, actor)
      PROVE  balances' = balances
  BY <1>8 DEF OnRequest, Create, ManagerApprove, HrApprove, Reject, Cancel, Resubmit,
              BookSession, db
<1>9. ASSUME NEW c \in Calls, OnTables(c) PROVE balances' = balances
  BY <1>9 DEF OnTables, UpdateBoost, SetRequiresHr, ToggleOption, TokenReminder, SlaSweep, db
<1>10. ASSUME NEW c \in Calls, Continue(c), ~SaveBalance(c), ~RemindOne(c), ~FinalizeOne(c)
       PROVE  balances' = balances
  BY <1>10 DEF Continue, CheckNew, Insert, Recheck, Save, Deduct, SweepOne, LoopDone,
               InsertSession, db
<1>11. CASE Tick \/ NextYear \/ Restart \/ UNCHANGED vars
  <2>1. balances' = balances
    BY <1>11 DEF Tick, NextYear, Restart, vars, db
  <2> QED BY <1>2, <2>1
<1> QED BY <1>2, <1>4, <1>5, <1>6, <1>7, <1>8, <1>9, <1>10, <1>11 DEF Next

-----------------------------------------------------------------------------
(* One at a time *)

LEMMA RequestsWait ==
  ASSUME NEW c \in Calls, NEW r \in Requests, OnRequest(c, r)
  PROVE  Free(c)
  BY DEF OnRequest, Create, ManagerApprove, HrApprove, Reject, Cancel, Resubmit, Undo,
         BookSession

LEMMA SerialRows ==
  ASSUME OneAtATime, RInv, [Next]_vars
  PROVE  RowsStay
<1> SUFFICES ASSUME NEW c \in Calls, NEW r \in Requests,
                    InHand(call[c], r), InHand(call'[c], r)
             PROVE  requests'[r] = requests[r]
  BY DEF RowsStay
<1>1. call \in [Calls -> CallState] /\ requests \in [Requests -> Row]
  BY DEF RInv, IInv, TypeOK
<1>2. ~Free(c)
  BY DEF InHand, Free
<1>3. ASSUME NEW d \in Calls, NEW q \in Requests, OnRequest(d, q) PROVE FALSE
  BY <1>2, <1>3, RequestsWait DEF OneAtATime
<1>4. ASSUME NEW d \in Calls, OnTables(d) PROVE requests' = requests
  BY <1>4 DEF OnTables, UpdateBoost, SetRequiresHr, ToggleOption, TokenReminder, SlaSweep, db
<1>5. ASSUME NEW d \in Calls, Continue(d) PROVE requests'[r] = requests[r]
  <2>1. d = c
    BY DEF OneAtATime
  <2>2. CASE Insert(d) \/ Save(d)
    <3>1. Return(c) \/ Hold(c, "deduct", call[c].id, call[c].row)
      BY <2>1, <2>2 DEF Insert, Save
    <3>2. CASE Return(c)
      <4>1. call'[c].step = "idle"
        BY <1>1, <3>2 DEF Return, Idle
      <4> QED BY <4>1 DEF InHand
    <3>3. CASE Hold(c, "deduct", call[c].id, call[c].row)
      <4>1. call'[c].step = "deduct"
        BY <1>1, <3>3 DEF Hold, Idle
      <4> QED BY <4>1 DEF InHand
    <3> QED BY <3>1, <3>2, <3>3
  <2>3. CASE FinalizeOne(d) \/ SweepOne(d)
    <3>1. PICK s \in call[c].todo : \E new :
            /\ requests' = [requests EXCEPT ![s.id] = new] \/ requests' = requests
            /\ call' = [call EXCEPT ![c].todo = @ \ {s}]
      BY <2>1, <2>3 DEF FinalizeOne, SweepOne
    <3>2. call[c].step \in {"finalize", "sweep"}
      BY <2>1, <2>3 DEF FinalizeOne, SweepOne
    <3>3. /\ call'[c].step = call[c].step /\ call'[c].todo = call[c].todo \ {s}
      BY <1>1, <3>1 DEF CallState
    <3>4. PICK t \in call[c].todo : t # s /\ t.id = r
      BY <3>2, <3>3 DEF InHand
    <3>5. s.row = requests[s.id] /\ t.row = requests[t.id] /\ s \in Entry /\ t \in Entry
      BY <1>1, <3>2, Visiting DEF CallState
    <3>6. s.id # t.id
      BY <3>4, <3>5 DEF Entry
    <3> QED BY <1>1, <3>1, <3>4, <3>6
  <2>4. CASE \/ CheckNew(d) \/ Recheck(d) \/ Deduct(d) \/ SaveBalance(d) \/ RemindOne(d)
             \/ LoopDone(d) \/ InsertSession(d)
    BY <2>4 DEF CheckNew, Recheck, Deduct, SaveBalance, RemindOne, LoopDone, InsertSession, db
  <2> QED BY <1>5, <2>2, <2>3, <2>4 DEF Continue
<1>6. CASE Tick \/ NextYear \/ Restart \/ UNCHANGED vars
  BY <1>6 DEF Tick, NextYear, Restart, vars, db
<1> QED BY <1>3, <1>4, <1>5, <1>6 DEF Next

LEMMA SerialBalances ==
  ASSUME OneAtATime, BInv, [Next]_vars
  PROVE  BalancesStay
<1> SUFFICES ASSUME NEW c \in Calls, NEW a \in Accounts,
                    ReadsBalance(call[c], a), ReadsBalance(call'[c], a)
             PROVE  balances'[a] = balances[a]
  BY DEF BalancesStay
<1>1. call \in [Calls -> CallState] /\ balances \in [Accounts -> Balance]
  BY DEF BInv, IInv, TypeOK
<1>2. call[c].step \in {"charge", "remind"}
  BY DEF ReadsBalance
<1>3. ASSUME NEW d \in Calls, NEW q \in Requests, OnRequest(d, q) PROVE FALSE
  BY <1>2, <1>3, RequestsWait DEF OneAtATime, Free
<1>4. ASSUME NEW d \in Calls, OnTables(d) PROVE balances' = balances
  BY <1>4 DEF OnTables, UpdateBoost, SetRequiresHr, ToggleOption, TokenReminder, SlaSweep, db
<1>5. ASSUME NEW d \in Calls, Continue(d) PROVE balances' = balances
  <2>1. d = c
    BY DEF OneAtATime
  <2>2. CASE SaveBalance(d)
    <3>1. call'[c].step = "idle"
      BY <1>1, <2>1, <2>2 DEF SaveBalance, Return, Idle
    <3> QED BY <3>1 DEF ReadsBalance
  <2>3. CASE RemindOne(d)
    <3>1. PICK l \in call[d].ledger :
            balances' = balances \/ balances' = [balances EXCEPT ![l.account] = l.balance]
      BY <2>3 DEF RemindOne
    <3>2. l.account \in Accounts /\ l.balance = balances[l.account]
      BY <2>3 DEF RemindOne, BInv, IInv, TypeOK, CallState, LedgerEntry, LedgersOK, LedgerOK
    <3> QED BY <1>1, <3>1, <3>2
  <2>4. CASE FinalizeOne(d)
    BY <1>2, <2>1, <2>4 DEF FinalizeOne
  <2>5. CASE \/ CheckNew(d) \/ Insert(d) \/ Recheck(d) \/ Save(d) \/ Deduct(d) \/ SweepOne(d)
             \/ LoopDone(d) \/ InsertSession(d)
    BY <2>5 DEF CheckNew, Insert, Recheck, Save, Deduct, SweepOne, LoopDone, InsertSession, db
  <2> QED BY <1>5, <2>2, <2>3, <2>4, <2>5 DEF Continue
<1>6. CASE Tick \/ NextYear \/ Restart \/ UNCHANGED vars
  BY <1>6 DEF Tick, NextYear, Restart, vars, db
<1> QED BY <1>3, <1>4, <1>5, <1>6 DEF Next

-----------------------------------------------------------------------------
(* The theorems *)

LEMMA LedgersStart == Init => LedgersOK
<1> SUFFICES ASSUME Init PROVE LedgersOK
  OBVIOUS
<1>1. LedgerOK(balances, Idle)
  BY NoLedger DEF Idle
<1> QED BY <1>1 DEF Init, LedgersOK

\* As long as no handler's row is changed by another before it saves it, what every
\* handler is about to save is a decision on the row that is stored.
THEOREM RowsUpToDate == Spec /\ RowsUndisturbed => []RInv
<1>1. RInv /\ [Next]_vars /\ [RowsStay]_vars => UpToDate'
  <2>1. UNCHANGED vars => RowsStay
    BY DEF vars, RowsStay
  <2> QED BY <2>1, UpToDateStays
<1>2. RInv <=> IInv /\ UpToDate
  BY DEF RInv
<1> QED BY <1>1, <1>2, UpToDateStarts, Inductive, PTL DEF Spec, RowsUndisturbed

\* The workflow implements the abstract lifecycle for any number of handlers in
\* flight, as long as no handler's row is changed by another before it saves it.
THEOREM UndisturbedLifecycle == Spec /\ RowsUndisturbed => ImplementsLifecycle
<1>1. RInv /\ [Next]_vars => [Lifecycle!Next]_(Lifecycle!lifecycle)
  <2>1. RInv => requests \in [Requests -> Row]
    BY DEF RInv, IInv, TypeOK
  <2> QED BY <2>1, EveryStepMoves, LifecycleSteps
<1> QED BY <1>1, LifecycleStarts, RowsUpToDate, PTL DEF Spec, ImplementsLifecycle, Lifecycle!Spec

-----------------------------------------------------------------------------
(* The promises *)

LEMMA RowPromises ==
  ASSUME RInv, OneRowMoves, NEW r \in Requests
  PROVE  /\ requests[r].status = "cancelled" => requests'[r].status = "cancelled"
         /\ requests[r].status = "approved" => requests'[r].status # "cancelled"
         /\ requests'[r].hrApproved /\ ~requests[r].hrApproved
              => requests[r].status = "manager_approved"
         /\ requests[r].status = "approved" /\ requests'[r].status # "approved"
              => Undoes(r, requests'[r])
<1>1. requests \in [Requests -> Row]
  BY DEF RInv, IInv, TypeOK
<1>2. CASE requests' = requests
  BY <1>2
<1>3. ASSUME NEW q \in Requests, NEW new \in Row, RowMoves(q, new), q # r
      PROVE  requests'[r] = requests[r]
  BY <1>1, <1>3 DEF RowMoves
<1>4. ASSUME NEW new \in Row, RowMoves(r, new)
      PROVE  /\ requests[r].status = "cancelled" => requests'[r].status = "cancelled"
             /\ requests[r].status = "approved" => requests'[r].status # "cancelled"
             /\ requests'[r].hrApproved /\ ~requests[r].hrApproved
                  => requests[r].status = "manager_approved"
             /\ requests[r].status = "approved" /\ requests'[r].status # "approved"
                  => Undoes(r, requests'[r])
  <2> DEFINE old == requests[r]
  <2>1. requests'[r] = new
    BY <1>1, <1>4 DEF RowMoves
  <2>2. CASE Submits(old, new)
    BY <2>1, <2>2 DEF Submits, Vacant
  <2>3. CASE Follows(old, new)
    BY <2>1, <2>3 DEF Follows, Decides, Pipeline
  <2>4. CASE Settles(old, new)
    BY <2>1, <2>4 DEF Settles
  <2>5. CASE Marks(old, new)
    BY <2>1, <2>5 DEF Marks
  <2>6. CASE Undoes(r, new)
    <3>1. old.decision \in Decision
      BY <1>1 DEF Row
    <3>2. Back(old) \in Pipeline
      BY <2>6, <3>1 DEF Undoes, TakesBack, Back, Decision
    <3> QED BY <2>1, <2>6, <3>2 DEF Undoes, TakesBack, Pipeline
  <2> QED BY <1>4, <2>2, <2>3, <2>4, <2>5, <2>6 DEF RowMoves
<1> QED BY <1>2, <1>3, <1>4 DEF OneRowMoves

LEMMA UndoesRefunds ==
  ASSUME RInv, NEW r \in Requests, NEW new, Undoes(r, new), requests[r].status = "approved"
  PROVE  LET a == Account(requests[r]) IN
         balances'[a].used = IF balances[a].used < requests[r].cost
                             THEN 0 ELSE balances[a].used - requests[r].cost
<1> DEFINE a == Account(requests[r])
<1>1. Good(requests[r])
  BY DEF RInv, IInv, RowsOK, Stored, Vacant
<1>2. a \in Accounts
  BY <1>1 DEF Good
<1>3. balances \in [Accounts -> Balance]
  BY DEF RInv, IInv, TypeOK
<1>4. RefundOf(requests[r]) = requests[r].cost
  BY DEF RefundOf
<1>5. balances'[a] = Refunded(balances[a], requests[r].cost)
  BY <1>2, <1>3, <1>4 DEF Undoes
<1>6. balances[a] \in Balance
  BY <1>2, <1>3
<1> QED BY <1>5, <1>6 DEF Refunded, Balance

\* A withdrawal that no other handler writes over is final.
THEOREM UndisturbedWithdrawals == Spec /\ RowsUndisturbed => CancelledIsFinal
<1>1. RInv /\ [Next]_vars =>
        [\A r \in Requests :
           requests[r].status = "cancelled" => requests'[r].status = "cancelled"]_vars
  BY EveryStepMoves, RowPromises
<1> QED BY <1>1, RowsUpToDate, PTL DEF Spec, CancelledIsFinal

\* The withdrawal of a request that the run CancelOverApproval saves over its
\* approval needs the interleaving: without it, approved requests are never withdrawn.
THEOREM UndisturbedApprovals == Spec /\ RowsUndisturbed => ApprovedNeverCancelled
<1>1. RInv /\ [Next]_vars =>
        [\A r \in Requests :
           requests[r].status = "approved" => requests'[r].status # "cancelled"]_vars
  BY EveryStepMoves, RowPromises
<1> QED BY <1>1, RowsUpToDate, PTL DEF Spec, ApprovedNeverCancelled

\* HR's approval is saved on a request that is in HR's queue at that moment.
THEOREM UndisturbedHrApprovals == Spec /\ RowsUndisturbed => HrApprovesWhatIsQueued
<1>1. RInv /\ [Next]_vars =>
        [\A r \in Requests :
           requests'[r].hrApproved /\ ~requests[r].hrApproved
             => requests[r].status = "manager_approved"]_vars
  BY EveryStepMoves, RowPromises
<1> QED BY <1>1, RowsUpToDate, PTL DEF Spec, HrApprovesWhatIsQueued

\* A request leaves "approved" only through the undo that refunds it.
THEOREM UndisturbedReversals == Spec /\ RowsUndisturbed => ReversalRefunds
<1>1. RInv /\ [Next]_vars => [RefundsWhatItReverses]_vars
  BY EveryStepMoves, RowPromises, UndoesRefunds DEF RefundsWhatItReverses
<1> QED BY <1>1, RowsUpToDate, PTL DEF Spec, ReversalRefunds

\* A session belongs to a request that is approved, whatever is undone meanwhile.
THEOREM UndisturbedSessions == Spec /\ RowsUndisturbed => []SessionsOnlyForApproved
<1>1. RInv => SessionsOnlyForApproved
  BY DEF RInv, UpToDate, BookedOK, SessionsOnlyForApproved
<1> QED BY <1>1, RowsUpToDate, PTL

\* What a handler is about to write to a balance row is within the allocation or
\* takes nothing, as long as no other handler writes that row in between.
THEOREM BalancesUpToDate == Spec /\ BalancesUndisturbed => []BInv
<1>1. BInv /\ [Next]_vars /\ [BalancesStay]_vars => LedgersOK'
  <2>1. UNCHANGED vars => BalancesStay
    BY DEF vars, BalancesStay
  <2> QED BY <2>1, LedgersStay
<1>2. BInv <=> IInv /\ LedgersOK
  BY DEF BInv
<1> QED BY <1>1, <1>2, LedgersStart, Inductive, PTL DEF Spec, BalancesUndisturbed

\* Whatever takes tokens leaves the employee within the year's allocation.
THEOREM UndisturbedBalances == Spec /\ BalancesUndisturbed => NeverOverdrawn
<1>1. BInv /\ [Next]_vars => [TakesWithinAllocation]_vars
  BY StepsStayWithin
<1> QED BY <1>1, BalancesUpToDate, PTL DEF Spec, NeverOverdrawn

\* All of the run's promises, for any number of handlers in flight.
THEOREM UndisturbedPromises ==
  Spec /\ RowsUndisturbed /\ BalancesUndisturbed => StepsKeepPromises
  BY UndisturbedWithdrawals, UndisturbedReversals, UndisturbedBalances,
     UndisturbedHrApprovals DEF StepsKeepPromises

-----------------------------------------------------------------------------
(* One handler at a time *)

\* A handler that runs alone is never disturbed.
THEOREM AloneUndisturbed ==
  ASSUME OneAtATime
  PROVE  Spec => RowsUndisturbed /\ BalancesUndisturbed
<1>1. RInv /\ [Next]_vars => RowsStay /\ UpToDate'
  <2>1. ASSUME RInv, [Next]_vars PROVE RowsStay
    BY <2>1, SerialRows
  <2> QED BY <2>1, UpToDateStays
<1>2. BInv /\ [Next]_vars => BalancesStay /\ LedgersOK'
  <2>1. ASSUME BInv, [Next]_vars PROVE BalancesStay
    BY <2>1, SerialBalances
  <2> QED BY <2>1, LedgersStay
<1>3. (RInv <=> IInv /\ UpToDate) /\ (BInv <=> IInv /\ LedgersOK)
  BY DEF RInv, BInv
<1>4. Init => UpToDate /\ LedgersOK
  BY UpToDateStarts, LedgersStart
<1> QED BY <1>1, <1>2, <1>3, <1>4, Inductive, PTL DEF Spec, RowsUndisturbed, BalancesUndisturbed

\* Served one at a time, the handlers implement the abstract lifecycle.
THEOREM SerialLifecycle ==
  ASSUME OneAtATime
  PROVE  Spec => ImplementsLifecycle
  BY AloneUndisturbed, UndisturbedLifecycle

\* Served one at a time, every handler keeps the service's promises.
THEOREM SerialPromises ==
  ASSUME OneAtATime
  PROVE  Spec => StepsKeepPromises
  BY AloneUndisturbed, UndisturbedPromises

-----------------------------------------------------------------------------
(* Sums over finite tables. The sums of the model are folds, which the     *)
(* provers see as the recursive function they are defined by: each law of  *)
(* such a sum is proved by looking at a smallest set that breaks it        *)

Cost(rows, S) == MapThenSumSet(LAMBDA r : rows[r].cost, S)

First(s) == CHOOSE x \in s : TRUE

\* g adds up the costs of every subset of S.
Sums(rows, S, g) ==
  g = [s \in SUBSET S |->
         IF s = {} THEN 0 ELSE rows[First(s)].cost + g[s \ {First(s)}]]

Agree(g, h, S) == \A s \in SUBSET S : g[s] = h[s]

Sum(rows, S) == CHOOSE g : Sums(rows, S, g)

-----------------------------------------------------------------------------
(* Sums over finite sets *)

LEMMA CostIsSum ==
  ASSUME NEW rows, NEW S
  PROVE  Cost(rows, S) = Sum(rows, S)[S]
  BY DEF Cost, Sum, Sums, First, MapThenSumSet, MapThenFoldSet

LEMMA TotalIsCost ==
  ASSUME NEW S
  PROVE  TotalCost(S) = Cost(requests, S)
  BY DEF Cost, TotalCost

\* A set of finite sets that is not empty has a member that no other is a part of.
LEMMA Smallest ==
  ASSUME NEW S, IsFiniteSet(S), NEW Bad, Bad \subseteq SUBSET S, Bad # {}
  PROVE  \E s \in Bad : \A t \in Bad : t \subseteq s => t = s
<1>1. IsWellFoundedOn(StrictSubsetOrdering(S), SUBSET S)
  BY FS_StrictSubsetOrderingWellFounded, FS_FiniteSubsetsOfFinite
<1>2. PICK s \in Bad : \A t \in Bad : ~(<<t, s>> \in StrictSubsetOrdering(S))
  BY <1>1, WFMin
<1> QED BY <1>2 DEF StrictSubsetOrdering

LEMMA FirstIn ==
  ASSUME NEW s, s # {}
  PROVE  First(s) \in s
  BY DEF First

LEMMA SumsAgree ==
  ASSUME NEW rows, NEW S, NEW T \in SUBSET S, NEW g, NEW h,
         IsFiniteSet(S), Sums(rows, S, g), Sums(rows, T, h)
  PROVE  Agree(g, h, T)
<1> USE DEF Agree
<1> DEFINE Bad == {s \in SUBSET T : g[s] # h[s]}
<1> SUFFICES ASSUME Bad # {} PROVE FALSE
  OBVIOUS
<1>1. PICK s \in Bad : \A t \in Bad : t \subseteq s => t = s
  <2>1. Bad \subseteq SUBSET S
    OBVIOUS
  <2> HIDE DEF Bad
  <2> QED BY <2>1, Smallest
<1>2. /\ g[s] = IF s = {} THEN 0 ELSE rows[First(s)].cost + g[s \ {First(s)}]
      /\ h[s] = IF s = {} THEN 0 ELSE rows[First(s)].cost + h[s \ {First(s)}]
  <2>1. s \in SUBSET S /\ s \in SUBSET T
    OBVIOUS
  <2>2. g = [t \in SUBSET S |->
               IF t = {} THEN 0 ELSE rows[First(t)].cost + g[t \ {First(t)}]]
    BY DEF Sums
  <2>3. h = [t \in SUBSET T |->
               IF t = {} THEN 0 ELSE rows[First(t)].cost + h[t \ {First(t)}]]
    BY DEF Sums
  <2>4. g[s] = IF s = {} THEN 0 ELSE rows[First(s)].cost + g[s \ {First(s)}]
    BY <2>1, <2>2
  <2>5. h[s] = IF s = {} THEN 0 ELSE rows[First(s)].cost + h[s \ {First(s)}]
    BY <2>1, <2>3
  <2> QED BY <2>4, <2>5
<1>3. s # {}
  BY <1>2
<1>4. s \ {First(s)} \in SUBSET T /\ s \ {First(s)} # s
  BY <1>3, FirstIn
<1>5. g[s \ {First(s)}] = h[s \ {First(s)}]
  BY <1>1, <1>4
<1> QED BY <1>2, <1>5

LEMMA SumExists ==
  ASSUME NEW rows, NEW S, IsFiniteSet(S)
  PROVE  Sums(rows, S, Sum(rows, S))
<1> DEFINE Bad == {T \in SUBSET S : ~Sums(rows, T, Sum(rows, T))}
<1> SUFFICES ASSUME Bad # {} PROVE FALSE
  OBVIOUS
<1>1. PICK T \in Bad : \A t \in Bad : t \subseteq T => t = T
  <2>1. Bad \subseteq SUBSET S
    OBVIOUS
  <2> HIDE DEF Bad
  <2> QED BY <2>1, Smallest
<1>2. T \in SUBSET S /\ IsFiniteSet(T) /\ ~Sums(rows, T, Sum(rows, T))
  BY FS_Subset
<1>3. ASSUME NEW t \in SUBSET T, t # T PROVE Sums(rows, t, Sum(rows, t)) /\ IsFiniteSet(t)
  BY <1>1, <1>2, <1>3, FS_Subset
<1> DEFINE g == [s \in SUBSET T |->
                   IF s = {} THEN 0
                   ELSE rows[First(s)].cost + Sum(rows, s \ {First(s)})[s \ {First(s)}]]
<1>4. ASSUME NEW s \in SUBSET T, s # T PROVE g[s] = Sum(rows, s)[s]
  <2>1. Sum(rows, s) = [t \in SUBSET s |->
          IF t = {} THEN 0 ELSE rows[First(t)].cost + Sum(rows, s)[t \ {First(t)}]]
    BY <1>3, <1>4 DEF Sums
  <2>2. Sum(rows, s)[s] =
          IF s = {} THEN 0 ELSE rows[First(s)].cost + Sum(rows, s)[s \ {First(s)}]
    BY <2>1
  <2>3. CASE s = {}
    BY <2>2, <2>3
  <2>4. CASE s # {}
    <3> DEFINE t == s \ {First(s)}
    <3>1. t \in SUBSET s /\ t \in SUBSET T /\ t # T
      BY <2>4, FirstIn
    <3>2. IsFiniteSet(s) /\ Sums(rows, s, Sum(rows, s)) /\ Sums(rows, t, Sum(rows, t))
      BY <1>3, <1>4, <3>1
    <3> HIDE DEF t
    <3>3. Agree(Sum(rows, s), Sum(rows, t), t)
      BY <3>1, <3>2, SumsAgree
    <3>4. Sum(rows, s)[t] = Sum(rows, t)[t]
      BY <3>3 DEF Agree
    <3> QED BY <2>2, <2>4, <3>4 DEF t
  <2> QED BY <2>3, <2>4
<1>5. Sums(rows, T, g)
  <2>1. ASSUME NEW s \in SUBSET T, s # {}
        PROVE  g[s \ {First(s)}] = Sum(rows, s \ {First(s)})[s \ {First(s)}]
    <3>1. s \ {First(s)} \in SUBSET T /\ s \ {First(s)} # T
      BY <2>1, FirstIn
    <3> HIDE DEF g
    <3> QED BY <1>4, <3>1
  <2>2. g = [s \in SUBSET T |->
               IF s = {} THEN 0 ELSE rows[First(s)].cost + g[s \ {First(s)}]]
    BY <2>1
  <2> QED BY <2>2 DEF Sums
<1>6. Sums(rows, T, Sum(rows, T))
  <2> HIDE DEF g
  <2> QED BY <1>5 DEF Sum
<1> QED BY <1>2, <1>6

LEMMA SumIsCost ==
  ASSUME NEW rows, NEW S, IsFiniteSet(S), NEW T \in SUBSET S
  PROVE  Sum(rows, S)[T] = Cost(rows, T)
<1>1. IsFiniteSet(T)
  BY FS_Subset
<1>2. Sums(rows, S, Sum(rows, S)) /\ Sums(rows, T, Sum(rows, T))
  BY <1>1, SumExists
<1>3. Agree(Sum(rows, S), Sum(rows, T), T)
  BY <1>2, SumsAgree
<1>4. Sum(rows, S)[T] = Sum(rows, T)[T]
  BY <1>3 DEF Agree
<1> QED BY <1>4, CostIsSum

LEMMA CostUnfolds ==
  ASSUME NEW rows, NEW S, IsFiniteSet(S)
  PROVE  /\ S = {} => Cost(rows, S) = 0
         /\ S # {} => Cost(rows, S) = rows[First(S)].cost + Cost(rows, S \ {First(S)})
<1>1. Sums(rows, S, Sum(rows, S))
  BY SumExists
<1>2. Sum(rows, S) = [s \in SUBSET S |->
        IF s = {} THEN 0 ELSE rows[First(s)].cost + Sum(rows, S)[s \ {First(s)}]]
  BY <1>1 DEF Sums
<1>3. Sum(rows, S)[S] =
        IF S = {} THEN 0 ELSE rows[First(S)].cost + Sum(rows, S)[S \ {First(S)}]
  BY <1>2
<1>4. Sum(rows, S)[S \ {First(S)}] = Cost(rows, S \ {First(S)})
  BY SumIsCost
<1> QED BY <1>3, <1>4, CostIsSum

LEMMA CostEmpty ==
  ASSUME NEW rows
  PROVE  Cost(rows, {}) = 0
  BY CostUnfolds, FS_EmptySet

LEMMA CostType ==
  ASSUME NEW S, IsFiniteSet(S), NEW rows, \A r \in S : rows[r].cost \in Nat
  PROVE  Cost(rows, S) \in Nat
<1> DEFINE Bad == {T \in SUBSET S : Cost(rows, T) \notin Nat}
<1> SUFFICES ASSUME Bad # {} PROVE FALSE
  OBVIOUS
<1>1. PICK T \in Bad : \A t \in Bad : t \subseteq T => t = T
  <2>1. Bad \subseteq SUBSET S
    OBVIOUS
  <2> HIDE DEF Bad
  <2> QED BY <2>1, Smallest
<1>2. IsFiniteSet(T) /\ T \in SUBSET S
  BY FS_Subset
<1>3. T # {}
  BY CostEmpty
<1> DEFINE x == First(T)
           U == T \ {x}
<1>4. x \in T /\ U \in SUBSET S /\ U \subseteq T /\ U # T
  BY <1>2, <1>3, FirstIn
<1>5. Cost(rows, U) \in Nat /\ rows[x].cost \in Nat
  BY <1>1, <1>2, <1>4
<1>6. Cost(rows, T) = rows[x].cost + Cost(rows, U)
  BY <1>2, <1>3, CostUnfolds
<1> HIDE DEF x, U
<1>7. Cost(rows, T) \in Nat
  BY <1>5, <1>6
<1> QED BY <1>1, <1>7

\* A sum is the same whichever member is taken out first.
LEMMA CostTakes ==
  ASSUME NEW S, IsFiniteSet(S), NEW rows, \A r \in S : rows[r].cost \in Nat, NEW x \in S
  PROVE  Cost(rows, S) = rows[x].cost + Cost(rows, S \ {x})
<1> DEFINE Bad == {T \in SUBSET S :
                     \E y \in T : Cost(rows, T) # rows[y].cost + Cost(rows, T \ {y})}
<1> SUFFICES ASSUME Bad # {} PROVE FALSE
  OBVIOUS
<1>1. PICK T \in Bad : \A t \in Bad : t \subseteq T => t = T
  <2>1. Bad \subseteq SUBSET S
    OBVIOUS
  <2> HIDE DEF Bad
  <2> QED BY <2>1, Smallest
<1>2. PICK y \in T : Cost(rows, T) # rows[y].cost + Cost(rows, T \ {y})
  OBVIOUS
<1>3. IsFiniteSet(T) /\ T \in SUBSET S
  BY FS_Subset
<1> DEFINE p == First(T)
           both == T \ {p, y}
<1>4. p \in T /\ Cost(rows, T) = rows[p].cost + Cost(rows, T \ {p})
  BY <1>3, CostUnfolds, FirstIn
<1>5. p # y
  BY <1>2, <1>4
<1>6. ASSUME NEW U \in SUBSET T, U # T, NEW z \in U
      PROVE  Cost(rows, U) = rows[z].cost + Cost(rows, U \ {z})
  BY <1>1, <1>3, <1>6
<1> HIDE DEF p
<1>7. Cost(rows, T \ {p}) = rows[y].cost + Cost(rows, both)
  <2>1. T \ {p} # T /\ y \in T \ {p} /\ (T \ {p}) \ {y} = both
    BY <1>4, <1>5
  <2> QED BY <1>6, <2>1
<1>8. Cost(rows, T \ {y}) = rows[p].cost + Cost(rows, both)
  <2>1. T \ {y} # T /\ p \in T \ {y} /\ (T \ {y}) \ {p} = both
    BY <1>4, <1>5
  <2> QED BY <1>6, <2>1
<1>9. rows[p].cost \in Nat /\ rows[y].cost \in Nat /\ Cost(rows, both) \in Nat
  <2>1. both \subseteq S
    BY <1>3
  <2> HIDE DEF both
  <2>2. IsFiniteSet(both) /\ \A r \in both : rows[r].cost \in Nat
    BY <2>1, FS_Subset
  <2>3. Cost(rows, both) \in Nat
    BY <2>2, CostType
  <2> QED BY <1>3, <1>4, <2>3
<1> QED BY <1>2, <1>4, <1>7, <1>8, <1>9

LEMMA CostAdds ==
  ASSUME NEW S, IsFiniteSet(S), NEW rows, NEW x, x \notin S,
         \A r \in S \cup {x} : rows[r].cost \in Nat
  PROVE  Cost(rows, S \cup {x}) = Cost(rows, S) + rows[x].cost
<1>1. IsFiniteSet(S \cup {x}) /\ x \in S \cup {x} /\ (S \cup {x}) \ {x} = S
  BY FS_AddElement
<1>2. Cost(rows, S \cup {x}) = rows[x].cost + Cost(rows, S)
  BY <1>1, CostTakes
<1>3. Cost(rows, S) \in Nat /\ rows[x].cost \in Nat
  BY CostType
<1> QED BY <1>2, <1>3

\* A part of a set costs no more than the set.
LEMMA CostPart ==
  ASSUME NEW S, IsFiniteSet(S), NEW rows, \A r \in S : rows[r].cost \in Nat, NEW P \in SUBSET S
  PROVE  Cost(rows, P) <= Cost(rows, S)
<1> DEFINE Bad == {T \in SUBSET S : P \subseteq T /\ ~(Cost(rows, P) <= Cost(rows, T))}
<1> SUFFICES ASSUME Bad # {} PROVE FALSE
  OBVIOUS
<1>1. PICK T \in Bad : \A t \in Bad : t \subseteq T => t = T
  <2>1. Bad \subseteq SUBSET S
    OBVIOUS
  <2> HIDE DEF Bad
  <2> QED BY <2>1, Smallest
<1>2. IsFiniteSet(T) /\ IsFiniteSet(P) /\ T \in SUBSET S
  BY FS_Subset
<1>3. Cost(rows, P) \in Nat /\ Cost(rows, T) \in Nat
  BY <1>2, CostType
<1>4. PICK x \in T : x \notin P
  BY <1>3
<1> DEFINE U == T \ {x}
<1>5. U \in SUBSET S /\ P \subseteq U /\ U \subseteq T /\ U # T
  BY <1>2, <1>4
<1>6. Cost(rows, P) <= Cost(rows, U)
  BY <1>1, <1>5
<1>7. Cost(rows, T) = rows[x].cost + Cost(rows, U)
  BY <1>2, CostTakes
<1>8. Cost(rows, U) \in Nat /\ rows[x].cost \in Nat
  <2> HIDE DEF U
  <2>1. IsFiniteSet(U)
    BY <1>5, FS_Subset
  <2> QED BY <1>2, <1>5, <2>1, CostType
<1> QED BY <1>1, <1>3, <1>6, <1>7, <1>8

\* The sum only looks at the costs of the rows it is over.
LEMMA CostSame ==
  ASSUME NEW S, IsFiniteSet(S), NEW rows, NEW other, \A r \in S : rows[r].cost = other[r].cost
  PROVE  Cost(rows, S) = Cost(other, S)
<1> DEFINE Bad == {T \in SUBSET S : Cost(rows, T) # Cost(other, T)}
<1> SUFFICES ASSUME Bad # {} PROVE FALSE
  OBVIOUS
<1>1. PICK T \in Bad : \A t \in Bad : t \subseteq T => t = T
  <2>1. Bad \subseteq SUBSET S
    OBVIOUS
  <2> HIDE DEF Bad
  <2> QED BY <2>1, Smallest
<1>2. IsFiniteSet(T) /\ T \in SUBSET S
  BY FS_Subset
<1>3. T # {}
  BY CostEmpty
<1>4. First(T) \in T /\ T \ {First(T)} \in SUBSET S /\ T \ {First(T)} # T
  BY <1>2, <1>3, FirstIn
<1>5. Cost(rows, T \ {First(T)}) = Cost(other, T \ {First(T)})
  BY <1>1, <1>4
<1>6. rows[First(T)].cost = other[First(T)].cost
  BY <1>2, <1>4
<1>7. /\ Cost(rows, T) = rows[First(T)].cost + Cost(rows, T \ {First(T)})
      /\ Cost(other, T) = other[First(T)].cost + Cost(other, T \ {First(T)})
  BY <1>2, <1>3, CostUnfolds
<1> QED BY <1>1, <1>5, <1>6, <1>7

-----------------------------------------------------------------------------
(* The approved requests of a year, after one row has changed *)

ApprovedIn(rows, a) == {r \in Requests : Account(rows[r]) = a /\ rows[r].status = "approved"}

\* What a row adds to the approved cost of account a.
Share(row, a) == IF row.status = "approved" /\ Account(row) = a THEN row.cost ELSE 0

CostIn(rows, a) == Cost(rows, ApprovedIn(rows, a))

\* What the other requests add to it.
Rest(rows, r, a) == Cost(rows, ApprovedIn(rows, a) \ {r})

LEMMA ApprovedCostIs ==
  ASSUME NEW a
  PROVE  ApprovedCost(a) = CostIn(requests, a)
  BY DEF ApprovedCost, TotalCost, Cost, CostIn, ApprovedIn

LEMMA CostInType ==
  ASSUME NEW rows \in [Requests -> Row], NEW a
  PROVE  CostIn(rows, a) \in Nat
<1> DEFINE S == ApprovedIn(rows, a)
<1>1. IsFiniteSet(S) /\ \A q \in S : rows[q].cost \in Nat
  BY KeysAssumption, FS_Subset DEF ApprovedIn, Row
<1> HIDE DEF S
<1>2. Cost(rows, S) \in Nat
  BY <1>1, CostType
<1> QED BY <1>2 DEF S, CostIn

LEMMA CostInShare ==
  ASSUME NEW rows \in [Requests -> Row], NEW a, NEW r \in Requests
  PROVE  /\ Cost(rows, ApprovedIn(rows, a) \ {r}) \in Nat
         /\ CostIn(rows, a) = Cost(rows, ApprovedIn(rows, a) \ {r}) + Share(rows[r], a)
<1> DEFINE S == ApprovedIn(rows, a)
<1>1. /\ IsFiniteSet(S) /\ IsFiniteSet(S \ {r})
      /\ \A q \in S : rows[q].cost \in Nat
  BY KeysAssumption, FS_Subset DEF ApprovedIn, Row
<1>2. rows[r].cost \in Nat
  BY DEF Row
<1>3. r \in S <=> rows[r].status = "approved" /\ Account(rows[r]) = a
  BY DEF ApprovedIn
<1>4. CostIn(rows, a) = Cost(rows, S)
  BY DEF CostIn
<1> HIDE DEF S
<1>5. Cost(rows, S \ {r}) \in Nat
  BY <1>1, CostType
<1>6. CASE r \in S
  <2>1. Cost(rows, S) = rows[r].cost + Cost(rows, S \ {r})
    BY <1>1, <1>6, CostTakes
  <2> QED BY <1>2, <1>3, <1>4, <1>5, <1>6, <2>1 DEF Share, S
<1>7. CASE r \notin S
  <2>1. S \ {r} = S
    BY <1>7
  <2>2. Cost(rows, S \ {r}) = Cost(rows, S)
    BY <2>1
  <2>3. Share(rows[r], a) = 0
    BY <1>3, <1>7 DEF Share
  <2>4. CostIn(rows, a) = Cost(rows, S \ {r}) + Share(rows[r], a)
    BY <1>4, <1>5, <2>2, <2>3
  <2> QED BY <1>5, <2>4 DEF S
<1> QED BY <1>6, <1>7

\* When one row changes, the approved cost changes by that row's share.
LEMMA CostInMoves ==
  ASSUME NEW rows \in [Requests -> Row], NEW r \in Requests, NEW a,
         NEW later \in [Requests -> Row], \A q \in Requests : q # r => later[q] = rows[q]
  PROVE  /\ Rest(rows, r, a) \in Nat
         /\ CostIn(rows, a) = Rest(rows, r, a) + Share(rows[r], a)
         /\ CostIn(later, a) = Rest(rows, r, a) + Share(later[r], a)
<1> DEFINE S == ApprovedIn(rows, a) \ {r}
           T == ApprovedIn(later, a) \ {r}
<1>2. S = T
  BY DEF ApprovedIn
<1>3. IsFiniteSet(S) /\ \A q \in S : rows[q].cost = later[q].cost
  BY KeysAssumption, FS_Subset DEF ApprovedIn
<1>4. Cost(rows, S) \in Nat /\ CostIn(rows, a) = Cost(rows, S) + Share(rows[r], a)
  BY CostInShare
<1>5. CostIn(later, a) = Cost(later, T) + Share(later[r], a)
  BY CostInShare
<1>6. Cost(rows, S) = Cost(later, S)
  <2> HIDE DEF S
  <2> QED BY <1>3, CostSame
<1> QED BY <1>2, <1>4, <1>5, <1>6 DEF Rest

-----------------------------------------------------------------------------
(* What is charged, and what a handler is about to charge *)

Covered(rows, table) == \A a \in Accounts : table[a].used <= CostIn(rows, a)

ChargeOK(rows, table, k) ==
  /\ k.step = "deduct" =>
       table[Account(k.row)].used + k.row.cost <= CostIn(rows, Account(k.row))
  /\ k.step = "charge" => \A l \in k.ledger : l.balance.used <= CostIn(rows, l.account)

ChargesOK ==
  Covered(requests, balances) /\ \A c \in Calls : ChargeOK(requests, balances, call[c])

CInv == RInv /\ LedgersOK /\ ChargesOK

LEMMA NoCharge ==
  ASSUME NEW rows, NEW table, NEW k, k.step \notin {"deduct", "charge"}
  PROVE  ChargeOK(rows, table, k)
  BY DEF ChargeOK

\* The only handler goes on as k.
LEMMA AloneCharges ==
  ASSUME OneAtATime, CInv, NEW c \in Calls, NEW k, call' = [call EXCEPT ![c] = k],
         Covered(requests', balances'), ChargeOK(requests', balances', k)
  PROVE  ChargesOK'
<1>1. call \in [Calls -> CallState]
  BY DEF CInv, RInv, IInv, TypeOK
<1>2. ASSUME NEW d \in Calls PROVE ChargeOK(requests', balances', call'[d])
  <2>1. d = c
    BY DEF OneAtATime
  <2>2. call'[d] = k
    BY <1>1, <2>1
  <2> QED BY <2>2
<1> QED BY <1>2 DEF ChargesOK

LEMMA WithoutCharge ==
  ASSUME OneAtATime, CInv, NEW c \in Calls, NEW k, call' = [call EXCEPT ![c] = k],
         Covered(requests', balances'), k.step \notin {"deduct", "charge"}
  PROVE  ChargesOK'
  BY NoCharge, AloneCharges

LEMMA HeldWithoutCharge ==
  ASSUME OneAtATime, CInv, NEW c \in Calls, NEW r, NEW row,
         NEW step \in {"insert", "recheck", "save", "book"}, Hold(c, step, r, row),
         Covered(requests', balances')
  PROVE  ChargesOK'
<1> DEFINE k == [Idle EXCEPT !.step = step, !.id = r, !.row = row]
<1>1. k.step \notin {"deduct", "charge"} /\ call' = [call EXCEPT ![c] = k]
  BY DEF Idle, Hold
<1> HIDE DEF k
<1> QED BY <1>1, WithoutCharge

LEMMA ReturnedWithoutCharge ==
  ASSUME OneAtATime, CInv, NEW c \in Calls, Return(c), Covered(requests', balances')
  PROVE  ChargesOK'
<1>1. Idle.step \notin {"deduct", "charge"}
  BY DEF Idle
<1> QED BY <1>1, WithoutCharge DEF Return

LEMMA LoopsWithoutCharge ==
  ASSUME OneAtATime, CInv, NEW c \in Calls, NEW todo, NEW step \in {"finalize", "sweep"},
         call' = [call EXCEPT ![c] = [Idle EXCEPT !.step = step, !.todo = todo]],
         Covered(requests', balances')
  PROVE  ChargesOK'
<1> DEFINE k == [Idle EXCEPT !.step = step, !.todo = todo]
<1>1. k.step \notin {"deduct", "charge"} /\ call' = [call EXCEPT ![c] = k]
  BY DEF Idle
<1> HIDE DEF k
<1> QED BY <1>1, WithoutCharge

LEMMA VisitsWithoutCharge ==
  ASSUME OneAtATime, CInv, NEW c \in Calls, call[c].step \in {"finalize", "sweep"}, NEW s,
         call' = [call EXCEPT ![c].todo = @ \ {s}], Covered(requests', balances')
  PROVE  ChargesOK'
<1> DEFINE k == [call[c] EXCEPT !.todo = @ \ {s}]
<1>1. call[c] \in CallState
  BY DEF CInv, RInv, IInv, TypeOK
<1>2. k.step \notin {"deduct", "charge"} /\ call' = [call EXCEPT ![c] = k]
  BY <1>1 DEF CallState
<1> HIDE DEF k
<1> QED BY <1>2, WithoutCharge

LEMMA SameTables ==
  ASSUME CInv, requests' = requests, balances' = balances
  PROVE  Covered(requests', balances')
  BY DEF CInv, ChargesOK

LEMMA NothingMoves ==
  ASSUME CInv, requests' = requests, balances' = balances, call' = call
  PROVE  ChargesOK'
  BY DEF CInv, ChargesOK

\* Covered tables stay so when the row that changes, and its account, are.
LEMMA CoveredAfter ==
  ASSUME NEW rows \in [Requests -> Row], NEW later \in [Requests -> Row],
         NEW table \in [Accounts -> Balance], NEW after \in [Accounts -> Balance],
         NEW r \in Requests, \A q \in Requests : q # r => later[q] = rows[q],
         Covered(rows, table),
         \A a \in Accounts :
           \/ after[a].used = 0
           \/ after[a].used + Share(rows[r], a) <= table[a].used + Share(later[r], a)
  PROVE  Covered(later, after)
<1>1. ASSUME NEW a \in Accounts PROVE after[a].used <= CostIn(later, a)
  <2>1. /\ Rest(rows, r, a) \in Nat
        /\ CostIn(rows, a) = Rest(rows, r, a) + Share(rows[r], a)
        /\ CostIn(later, a) = Rest(rows, r, a) + Share(later[r], a)
    BY CostInMoves
  <2>2. table[a].used <= CostIn(rows, a)
    BY DEF Covered
  <2>3. /\ Share(rows[r], a) \in Nat /\ Share(later[r], a) \in Nat
        /\ table[a].used \in Nat /\ after[a].used \in Nat
    BY DEF Share, Row, Balance
  <2>4. \/ after[a].used + Share(rows[r], a) <= table[a].used + Share(later[r], a)
        \/ after[a].used = 0
    OBVIOUS
  <2> QED BY <2>1, <2>2, <2>3, <2>4
<1> QED BY <1>1 DEF Covered

LEMMA NoShare ==
  ASSUME NEW row, row.status # "approved", NEW a
  PROVE  Share(row, a) = 0
  BY DEF Share

LEMMA ShareType ==
  ASSUME NEW row \in Row, NEW a
  PROVE  Share(row, a) \in Nat
  BY DEF Share, Row

LEMMA RowCovered ==
  ASSUME CInv, NEW r \in Requests, NEW new \in Row, requests' = [requests EXCEPT ![r] = new],
         NEW after \in [Accounts -> Balance],
         \A a \in Accounts :
           \/ after[a].used = 0
           \/ after[a].used + Share(requests[r], a) <= balances[a].used + Share(new, a)
  PROVE  Covered(requests', after)
<1>1. /\ requests \in [Requests -> Row] /\ balances \in [Accounts -> Balance]
      /\ Covered(requests, balances)
  BY DEF CInv, RInv, IInv, TypeOK, ChargesOK
<1>2. /\ requests' \in [Requests -> Row] /\ requests'[r] = new
      /\ \A q \in Requests : q # r => requests'[q] = requests[q]
  BY <1>1
<1> QED BY <1>1, <1>2, CoveredAfter

\* A row that is not approved yet, and the tokens it will be charged.
LEMMA ApprovalCovered ==
  ASSUME CInv, NEW r \in Requests, NEW new \in Row, requests' = [requests EXCEPT ![r] = new],
         requests[r].status # "approved"
  PROVE  /\ Covered(requests', balances)
         /\ new.status = "approved" /\ Account(new) \in Accounts =>
              Covered(requests', [balances EXCEPT ![Account(new)].used = @ + new.cost])
<1>1. balances \in [Accounts -> Balance] /\ \A a \in Accounts : balances[a].used \in Nat
  BY DEF CInv, RInv, IInv, TypeOK, Balance
<1>2. Covered(requests', balances)
  <2>1. ASSUME NEW a \in Accounts
        PROVE  balances[a].used + Share(requests[r], a) <= balances[a].used + Share(new, a)
    BY <1>1, NoShare, ShareType
  <2> QED BY <1>1, <2>1, RowCovered
<1>3. ASSUME new.status = "approved", Account(new) \in Accounts
      PROVE  Covered(requests', [balances EXCEPT ![Account(new)].used = @ + new.cost])
  <2> DEFINE b == Account(new)
             after == [balances EXCEPT ![b].used = @ + new.cost]
  <2>1. after \in [Accounts -> Balance]
    BY <1>1, <1>3 DEF Row, Balance
  <2>2. ASSUME NEW a \in Accounts
        PROVE  after[a].used + Share(requests[r], a) <= balances[a].used + Share(new, a)
    <3>1. Share(requests[r], a) = 0
      BY NoShare
    <3>2. CASE a = b
      <4>1. Share(new, a) = new.cost /\ new.cost \in Nat
        BY <1>3, <3>2 DEF Share, Row
      <4>2. after[a].used = balances[a].used + new.cost
        BY <1>1, <1>3, <3>2 DEF Balance
      <4> QED BY <1>1, <3>1, <4>1, <4>2
    <3>3. CASE a # b
      <4>1. after[a] = balances[a]
        BY <1>1, <3>3
      <4>2. Share(new, a) \in Nat
        BY ShareType
      <4> HIDE DEF after
      <4> QED BY <1>1, <3>1, <4>1, <4>2
    <3> QED BY <3>2, <3>3
  <2> HIDE DEF after
  <2>3. Covered(requests', after)
    BY <2>1, <2>2, RowCovered
  <2> QED BY <2>3 DEF after
<1> QED BY <1>2, <1>3

LEMMA InsertCharges ==
  ASSUME OneAtATime, CInv, NEW c \in Calls, Insert(c)
  PROVE  ChargesOK'
<1>1. call[c].id \in Requests /\ Good(call[c].row)
  BY DEF CInv, RInv, IInv, CallsOK, CallOK, Insert, RowSteps
<1>2. requests[call[c].id].status # "approved"
  BY DEF CInv, RInv, UpToDate, InHandOK, Insert, Submits, Vacant
<1>3. Covered(requests', balances')
  BY <1>1, <1>2, ApprovalCovered DEF Insert, Good
<1> QED BY <1>3, ReturnedWithoutCharge DEF Insert

LEMMA SaveCharges ==
  ASSUME OneAtATime, CInv, NEW c \in Calls, Save(c)
  PROVE  ChargesOK'
<1> DEFINE new == call[c].row
           r == call[c].id
           a == Account(new)
           k == [Idle EXCEPT !.step = "deduct", !.id = r, !.row = new]
<1>1. r \in Requests /\ Good(new) /\ new \in Row /\ a \in Accounts
  BY DEF CInv, RInv, IInv, CallsOK, CallOK, Save, RowSteps, Good
<1>2. requests[r].status # "approved"
  BY DEF CInv, RInv, UpToDate, InHandOK, Save, Follows, Decides, Pipeline
<1>3. requests' = [requests EXCEPT ![r] = new] /\ balances' = balances
  BY DEF Save
<1>4. CASE Return(c)
  <2>1. Covered(requests', balances')
    BY <1>1, <1>2, <1>3, ApprovalCovered
  <2> QED BY <1>4, <2>1, ReturnedWithoutCharge
<1>5. CASE new.status = "approved" /\ Hold(c, "deduct", r, new)
  <2>1. /\ Covered(requests', balances')
        /\ Covered(requests', [balances EXCEPT ![a].used = @ + new.cost])
    BY <1>1, <1>2, <1>3, <1>5, ApprovalCovered
  <2>2. balances'[a].used + new.cost <= CostIn(requests', a)
    <3>1. balances \in [Accounts -> Balance]
      BY DEF CInv, RInv, IInv, TypeOK
    <3>2. [balances EXCEPT ![a].used = @ + new.cost][a].used = balances[a].used + new.cost
      BY <1>1, <3>1 DEF Balance
    <3> QED BY <1>1, <1>3, <2>1, <3>2 DEF Covered
  <2>3. k.step = "deduct" /\ k.row = new
    BY DEF Idle
  <2>4. call' = [call EXCEPT ![c] = k]
    BY <1>5 DEF Hold
  <2> HIDE DEF k
  <2>5. ChargeOK(requests', balances', k)
    BY <2>2, <2>3 DEF ChargeOK
  <2> QED BY <2>1, <2>4, <2>5, AloneCharges
<1> QED BY <1>4, <1>5 DEF Save

\* A handler that goes on with a balance to save that is covered.
LEMMA WithCharge ==
  ASSUME OneAtATime, CInv, NEW c \in Calls, NEW a, NEW new,
         call' = [call EXCEPT ![c] = [Idle EXCEPT !.step = "charge",
                                        !.ledger = {[account |-> a, balance |-> new]}]],
         Covered(requests', balances'), new.used <= CostIn(requests', a)
  PROVE  ChargesOK'
<1> DEFINE ledger == {[account |-> a, balance |-> new]}
           k == [Idle EXCEPT !.step = "charge", !.ledger = ledger]
<1>1. \A l \in ledger : l.balance.used <= CostIn(requests', l.account)
  OBVIOUS
<1>2. call' = [call EXCEPT ![c] = k]
  OBVIOUS
<1> HIDE DEF ledger
<1>3. k.step = "charge" /\ k.ledger = ledger
  BY DEF Idle
<1> HIDE DEF k
<1>4. ChargeOK(requests', balances', k)
  BY <1>1, <1>3 DEF ChargeOK
<1> QED BY <1>2, <1>4, AloneCharges

LEMMA DeductCharges ==
  ASSUME OneAtATime, CInv, NEW c \in Calls, Deduct(c)
  PROVE  ChargesOK'
<1> DEFINE row == call[c].row
           a == Account(row)
           new == [balances[a] EXCEPT !.used = @ + row.cost]
<1>1. Covered(requests', balances') /\ requests' = requests
  BY SameTables DEF Deduct, db
<1>2. CASE Return(c)
  BY <1>1, <1>2, ReturnedWithoutCharge
<1>3. CASE call' = [call EXCEPT ![c] = [Idle EXCEPT !.step = "charge",
                                           !.ledger = {[account |-> a, balance |-> new]}]]
  <2>1. a \in Accounts /\ balances[a] \in Balance
    BY DEF Deduct, CInv, RInv, IInv, TypeOK, CallsOK, CallOK, RowSteps, Good
  <2>2. new.used = balances[a].used + row.cost
    BY <2>1 DEF Balance
  <2>3. balances[a].used + row.cost <= CostIn(requests, a)
    BY DEF Deduct, CInv, ChargesOK, ChargeOK
  <2>4. new.used <= CostIn(requests', a)
    BY <1>1, <2>2, <2>3
  <2> HIDE DEF new, a
  <2> QED BY <1>1, <1>3, <2>4, WithCharge
<1> QED BY <1>2, <1>3 DEF Deduct

LEMMA UpdateBoostCharges ==
  ASSUME OneAtATime, CInv, NEW c \in Calls, NEW a \in Accounts, UpdateBoost(c, a)
  PROVE  ChargesOK'
<1>1. PICK boost \in Boosts :
        call' = [call EXCEPT ![c] =
                  [Idle EXCEPT !.step = "charge",
                     !.ledger = {[account |-> a,
                                  balance |-> [balances[a] EXCEPT !.boost = boost]]}]]
  BY DEF UpdateBoost
<1> DEFINE new == [balances[a] EXCEPT !.boost = boost]
<1>2. Covered(requests', balances') /\ requests' = requests
  BY SameTables DEF UpdateBoost, db
<1>3. balances[a] \in Balance /\ balances[a].used <= CostIn(requests, a)
  BY DEF CInv, RInv, IInv, TypeOK, ChargesOK, Covered
<1>4. new.used <= CostIn(requests', a)
  BY <1>2, <1>3 DEF Balance
<1>5. call' = [call EXCEPT ![c] = [Idle EXCEPT !.step = "charge",
                                     !.ledger = {[account |-> a, balance |-> new]}]]
  BY <1>1
<1> HIDE DEF new
<1> QED BY <1>2, <1>4, <1>5, WithCharge

LEMMA SaveBalanceCharges ==
  ASSUME OneAtATime, CInv, NEW c \in Calls, SaveBalance(c)
  PROVE  ChargesOK'
<1>1. PICK l \in call[c].ledger : balances' = [balances EXCEPT ![l.account] = l.balance]
  BY DEF SaveBalance
<1>2. l.account \in Accounts /\ balances \in [Accounts -> Balance]
  BY DEF CInv, RInv, IInv, TypeOK, CallState, LedgerEntry
<1>3. l.balance.used <= CostIn(requests, l.account) /\ Covered(requests, balances)
  BY DEF SaveBalance, CInv, ChargesOK, ChargeOK
<1>4. Covered(requests, balances')
  BY <1>1, <1>2, <1>3 DEF Covered
<1>5. Covered(requests', balances')
  BY <1>4 DEF SaveBalance
<1> QED BY <1>5, ReturnedWithoutCharge DEF SaveBalance

LEMMA RemindOneCharges ==
  ASSUME OneAtATime, CInv, NEW c \in Calls, RemindOne(c)
  PROVE  ChargesOK'
<1>1. PICK l \in call[c].ledger :
        /\ balances' = balances \/ balances' = [balances EXCEPT ![l.account] = l.balance]
        /\ call' = [call EXCEPT ![c].ledger = @ \ {l}]
  BY DEF RemindOne
<1>2. /\ l.account \in Accounts /\ balances \in [Accounts -> Balance] /\ call[c] \in CallState
      /\ l.balance = balances[l.account]
  BY DEF RemindOne, CInv, RInv, IInv, TypeOK, CallState, LedgerEntry, LedgersOK, LedgerOK
<1>3. balances' = balances /\ requests' = requests
  BY <1>1, <1>2 DEF RemindOne
<1>4. Covered(requests', balances')
  BY <1>3, SameTables
<1> DEFINE k == [call[c] EXCEPT !.ledger = @ \ {l}]
<1>5. k.step \notin {"deduct", "charge"} /\ call' = [call EXCEPT ![c] = k]
  BY <1>1, <1>2 DEF CallState, RemindOne
<1> HIDE DEF k
<1> QED BY <1>4, <1>5, WithoutCharge

LEMMA FinalizeOneCharges ==
  ASSUME OneAtATime, CInv, NEW c \in Calls, FinalizeOne(c)
  PROVE  ChargesOK'
<1>1. PICK s \in call[c].todo :
        /\ \/ /\ requests' = [requests EXCEPT ![s.id] = PolicyApproved(s.row)]
              /\ balances' = [balances EXCEPT ![Account(s.row)].used = @ + s.row.cost]
           \/ requests' = requests /\ balances' = balances
        /\ call' = [call EXCEPT ![c].todo = @ \ {s}]
  BY DEF FinalizeOne
<1>2. /\ s.id \in Requests /\ s.row = requests[s.id] /\ Good(s.row)
      /\ s.row.status = "manager_approved"
  BY Visiting DEF FinalizeOne, CInv
<1> DEFINE new == PolicyApproved(s.row)
<1>3. /\ new \in Row /\ new.status = "approved" /\ Account(new) = Account(s.row)
      /\ new.cost = s.row.cost /\ Account(new) \in Accounts
  <2>1. new.status = "approved" /\ new.cost = s.row.cost /\ Account(new) = Account(s.row)
    BY <1>2 DEF Good, PolicyApproved, Row, Account
  <2>2. Good(new)
    BY <1>2, GoodPolicyApproved
  <2> QED BY <2>1, <2>2 DEF Good
<1>4. Covered(requests', balances')
  <2>1. CASE requests' = requests /\ balances' = balances
    BY <2>1, SameTables
  <2>2. CASE /\ requests' = [requests EXCEPT ![s.id] = new]
             /\ balances' = [balances EXCEPT ![Account(s.row)].used = @ + s.row.cost]
    <3> HIDE DEF new
    <3>1. Covered(requests', [balances EXCEPT ![Account(new)].used = @ + new.cost])
      BY <1>2, <1>3, <2>2, ApprovalCovered
    <3> QED BY <1>3, <2>2, <3>1
  <2> QED BY <1>1, <2>1, <2>2
<1> QED BY <1>1, <1>4, VisitsWithoutCharge DEF FinalizeOne

LEMMA SweepOneCharges ==
  ASSUME OneAtATime, CInv, NEW c \in Calls, SweepOne(c)
  PROVE  ChargesOK'
<1>1. PICK s \in call[c].todo :
        /\ \/ requests' = [requests EXCEPT ![s.id] = [s.row EXCEPT !.escalated = TRUE]]
           \/ requests' = [requests EXCEPT ![s.id] = [s.row EXCEPT !.reminded = TRUE]]
           \/ requests' = requests
        /\ call' = [call EXCEPT ![c].todo = @ \ {s}]
  BY DEF SweepOne
<1>2. s.id \in Requests /\ s.row = requests[s.id] /\ s.row \in Row
  BY Visiting DEF SweepOne, CInv, Good
<1>3. balances' = balances /\ balances \in [Accounts -> Balance]
  BY DEF SweepOne, CInv, RInv, IInv, TypeOK
<1>4. ASSUME NEW new \in Row, requests' = [requests EXCEPT ![s.id] = new],
             new.status = s.row.status, Account(new) = Account(s.row), new.cost = s.row.cost
      PROVE  Covered(requests', balances')
  <2>1. ASSUME NEW a \in Accounts
        PROVE  balances[a].used + Share(requests[s.id], a) <= balances[a].used + Share(new, a)
    <3>1. Share(requests[s.id], a) = Share(new, a)
      BY <1>2, <1>4 DEF Share
    <3>2. Share(new, a) \in Nat /\ balances[a].used \in Nat
      BY <1>3, ShareType DEF Balance
    <3> QED BY <3>1, <3>2
  <2> QED BY <1>2, <1>3, <1>4, <2>1, RowCovered
<1>5. ASSUME requests' = [requests EXCEPT ![s.id] = [s.row EXCEPT !.escalated = TRUE]]
      PROVE  Covered(requests', balances')
  <2> DEFINE new == [s.row EXCEPT !.escalated = TRUE]
  <2>1. /\ new \in Row /\ new.status = s.row.status /\ Account(new) = Account(s.row)
        /\ new.cost = s.row.cost
    BY <1>2 DEF Row, Account
  <2> HIDE DEF new
  <2> QED BY <1>4, <1>5, <2>1 DEF new
<1>6. ASSUME requests' = [requests EXCEPT ![s.id] = [s.row EXCEPT !.reminded = TRUE]]
      PROVE  Covered(requests', balances')
  <2> DEFINE new == [s.row EXCEPT !.reminded = TRUE]
  <2>1. /\ new \in Row /\ new.status = s.row.status /\ Account(new) = Account(s.row)
        /\ new.cost = s.row.cost
    BY <1>2 DEF Row, Account
  <2> HIDE DEF new
  <2> QED BY <1>4, <1>6, <2>1 DEF new
<1>7. Covered(requests', balances')
  BY <1>1, <1>3, <1>5, <1>6, SameTables
<1> QED BY <1>1, <1>7, VisitsWithoutCharge DEF SweepOne

LEMMA UndoCharges ==
  ASSUME OneAtATime, CInv, NEW c \in Calls, NEW r \in Requests, NEW actor \in Users,
         Undo(c, r, actor)
  PROVE  ChargesOK'
<1> DEFINE old == requests[r]
           new == Undone(old)
           b == Account(old)
           after == [balances EXCEPT ![b] = Refunded(@, RefundOf(old))]
<1>1. /\ CanUndo(old, actor, now) /\ now \in Nat /\ IInv
      /\ requests' = [requests EXCEPT ![r] = new] /\ balances' = after /\ call' = call
  BY DEF Undo, CInv, RInv, IInv, TypeOK
<1>2. Good(old) /\ old \in Row /\ b \in Accounts /\ old.cost \in Nat
  BY <1>1, Undoable DEF Good, Row
<1>3. new \in Row
  BY <1>1, <1>2, GoodUndone DEF Good
<1>4. new.status = old.decision.previous /\ new.status # "approved"
  BY <1>1, <1>2 DEF Undone, Row, Decision, Pipeline
<1>5. balances \in [Accounts -> Balance]
  BY <1>1 DEF IInv, TypeOK
<1>6. after \in [Accounts -> Balance]
  BY <1>2, <1>5 DEF Refunded, RefundOf, Balance
<1>7. ASSUME NEW a \in Accounts
      PROVE  \/ after[a].used = 0
             \/ after[a].used + Share(old, a) <= balances[a].used + Share(new, a)
  <2>1. Share(new, a) = 0 /\ balances[a].used \in Nat
    BY <1>4, <1>5, NoShare DEF Balance
  <2>2. CASE a = b
    <3>1. Share(old, a) = RefundOf(old) /\ RefundOf(old) \in Nat
      BY <1>2, <2>2 DEF Share, RefundOf
    <3>2. after[a].used = IF balances[a].used < RefundOf(old)
                          THEN 0 ELSE balances[a].used - RefundOf(old)
      BY <1>5, <2>2 DEF Refunded, Balance
    <3> HIDE DEF after
    <3> QED BY <2>1, <3>1, <3>2
  <2>3. CASE a # b
    <3>1. after[a] = balances[a] /\ Share(old, a) = 0
      BY <1>5, <2>3 DEF Share
    <3> HIDE DEF after
    <3> QED BY <2>1, <3>1
  <2> QED BY <2>2, <2>3
<1> HIDE DEF after, new
<1>8. Covered(requests', balances')
  BY <1>1, <1>3, <1>6, <1>7, RowCovered
<1>9. ASSUME NEW d \in Calls PROVE ChargeOK(requests', balances', call'[d])
  <2>1. d = c
    BY DEF OneAtATime
  <2>2. call[d].step = "idle"
    BY <2>1 DEF Undo, Free
  <2> QED BY <1>1, <2>2, NoCharge
<1> QED BY <1>8, <1>9 DEF ChargesOK

LEMMA CreateCharges ==
  ASSUME OneAtATime, CInv, NEW c \in Calls, NEW r \in Requests, Create(c, r)
  PROVE  ChargesOK'
<1>1. \E row, ledger :
        call' = [call EXCEPT ![c] = [Idle EXCEPT !.step = "check", !.id = r, !.row = row,
                                                 !.ledger = ledger]]
  BY Zenon DEF Create
<1>2. PICK row, ledger :
        call' = [call EXCEPT ![c] = [Idle EXCEPT !.step = "check", !.id = r, !.row = row,
                                                 !.ledger = ledger]]
  BY <1>1, Zenon
<1> DEFINE k == [Idle EXCEPT !.step = "check", !.id = r, !.row = row, !.ledger = ledger]
<1>3. k.step \notin {"deduct", "charge"} /\ call' = [call EXCEPT ![c] = k]
  BY <1>2 DEF Idle
<1>4. Covered(requests', balances')
  BY SameTables DEF Create, db
<1> HIDE DEF k
<1> QED BY <1>3, <1>4, WithoutCharge

LEMMA TokenReminderCharges ==
  ASSUME OneAtATime, CInv, NEW c \in Calls, TokenReminder(c)
  PROVE  ChargesOK'
<1> DEFINE ledger == {[account |-> <<e, year>>, balance |-> balances[<<e, year>>]] :
                        e \in Employees}
           k == [Idle EXCEPT !.step = "remind", !.ledger = ledger]
<1>1. call' = [call EXCEPT ![c] = k] /\ Covered(requests', balances')
  BY SameTables DEF TokenReminder, db
<1> HIDE DEF ledger
<1>2. k.step \notin {"deduct", "charge"}
  BY DEF Idle
<1> HIDE DEF k
<1> QED BY <1>1, <1>2, WithoutCharge

LEMMA ChargesStay ==
  ASSUME OneAtATime, CInv, [Next]_vars
  PROVE  ChargesOK'
<1>1. ASSUME NEW c \in Calls, NEW r \in Requests, OnRequest(c, r) PROVE ChargesOK'
  <2>1. CASE \E actor \in Users : Undo(c, r, actor)
    BY <2>1, UndoCharges
  <2>2. CASE \/ ManagerApprove(c, r) \/ HrApprove(c, r) \/ Reject(c, r) \/ Cancel(c, r)
             \/ Resubmit(c, r) \/ BookSession(c, r)
    <3>1. Covered(requests', balances')
      BY <2>2, SameTables DEF ManagerApprove, HrApprove, Reject, Cancel, Resubmit,
                              BookSession, db
    <3> QED BY <2>2, <3>1, HeldWithoutCharge DEF ManagerApprove, HrApprove, Reject, Cancel,
                                                 Resubmit, BookSession
  <2> QED BY <1>1, <2>1, <2>2, CreateCharges DEF OnRequest
<1>2. ASSUME NEW c \in Calls, OnTables(c) PROVE ChargesOK'
  <2>1. CASE \E t \in Offered : ToggleOption(c, t)
    BY <2>1, NothingMoves DEF ToggleOption
  <2>2. CASE SlaSweep(c) \/ \E t \in Offered : SetRequiresHr(c, t)
    <3>1. requests' = requests /\ balances' = balances
      BY <2>2 DEF SlaSweep, SetRequiresHr, db
    <3>2. Covered(requests', balances')
      BY <3>1, SameTables
    <3> QED BY <2>2, <3>1, <3>2, LoopsWithoutCharge, NothingMoves DEF SlaSweep, SetRequiresHr
  <2> QED BY <1>2, <2>1, <2>2, UpdateBoostCharges, TokenReminderCharges DEF OnTables
<1>3. ASSUME NEW c \in Calls, Continue(c) PROVE ChargesOK'
  <2>1. CASE CheckNew(c) \/ Recheck(c) \/ LoopDone(c) \/ InsertSession(c)
    <3>1. Covered(requests', balances')
      BY <2>1, SameTables DEF CheckNew, Recheck, LoopDone, InsertSession, db
    <3> QED BY <2>1, <3>1, HeldWithoutCharge, ReturnedWithoutCharge
            DEF CheckNew, Recheck, LoopDone, InsertSession
  <2> QED BY <1>3, <2>1, InsertCharges, SaveCharges, DeductCharges, SaveBalanceCharges,
             RemindOneCharges, FinalizeOneCharges, SweepOneCharges DEF Continue
<1>4. CASE Restart
  <2>1. Covered(requests', balances')
    BY <1>4, SameTables DEF Restart, db
  <2>2. ASSUME NEW d \in Calls PROVE ChargeOK(requests', balances', call'[d])
    <3>1. call'[d] = Idle /\ Idle.step \notin {"deduct", "charge"}
      BY <1>4 DEF Restart, Idle
    <3> QED BY <3>1, NoCharge
  <2> QED BY <2>1, <2>2 DEF ChargesOK
<1>5. CASE Tick \/ NextYear \/ UNCHANGED vars
  BY <1>5, NothingMoves DEF Tick, NextYear, vars, db
<1> QED BY <1>1, <1>2, <1>3, <1>4, <1>5 DEF Next

LEMMA ChargesStart == Init => ChargesOK
<1> SUFFICES ASSUME Init PROVE ChargesOK
  OBVIOUS
<1>1. requests \in [Requests -> Row]
  BY VacantOK DEF Init
<1>2. ASSUME NEW a \in Accounts PROVE balances[a].used <= CostIn(requests, a)
  <2>1. balances[a].used = 0
    BY DEF Init
  <2>2. CostIn(requests, a) \in Nat
    BY <1>1, CostInType
  <2> QED BY <2>1, <2>2
<1>3. ASSUME NEW c \in Calls PROVE ChargeOK(requests, balances, call[c])
  <2>1. call[c].step \notin {"deduct", "charge"}
    BY DEF Init, Idle
  <2> QED BY <2>1, NoCharge
<1> QED BY <1>2, <1>3 DEF ChargesOK, Covered

-----------------------------------------------------------------------------
(* The theorems *)

\* The inductive invariant of the charges, with handlers served one at a time.
THEOREM SerialCharges ==
  ASSUME OneAtATime
  PROVE  Spec => []CInv
<1>1. RInv /\ LedgersOK /\ ChargesOK /\ [Next]_vars => ChargesOK'
  BY ChargesStay DEF CInv
<1>2. (CInv <=> RInv /\ LedgersOK /\ ChargesOK) /\ (BInv <=> IInv /\ LedgersOK)
  BY DEF CInv, BInv
<1> QED BY <1>1, <1>2, ChargesStart, AloneUndisturbed, RowsUpToDate, BalancesUpToDate, PTL
        DEF Spec

\* `used` never counts a token for which no approved request of that employee and
\* year stands, and every session belongs to an approved request.
THEOREM SerialApprovals ==
  ASSUME OneAtATime
  PROVE  Spec => []ApprovalsBackThem
<1>1. CInv => ApprovalsBackThem
  <2> SUFFICES ASSUME CInv PROVE ApprovalsBackThem
    OBVIOUS
  <2>1. ASSUME NEW a \in Accounts PROVE balances[a].used <= ApprovedCost(a)
    BY ApprovedCostIs DEF CInv, ChargesOK, Covered
  <2>2. SessionsOnlyForApproved
    BY DEF CInv, RInv, UpToDate, BookedOK, SessionsOnlyForApproved
  <2> QED BY <2>1, <2>2 DEF ApprovalsBackThem, ChargedOnlyForApproved
<1> QED BY <1>1, SerialCharges, PTL

=============================================================================
