-------------------------- MODULE RequestRulesProofs --------------------------
(***************************************************************************)
(* What the rules of a submission come to. The routes of the requests and  *)
(* the history of decisions hold whatever runs beside what: every handler  *)
(* keeps them in the row it saves. The rules about several requests (the   *)
(* yearly cap, one project, one coaching request, enough tokens for all    *)
(* that waits) are checked at submission, and of them only the cap again,  *)
(* when an amount is changed. They last when handlers are served one at a  *)
(* time and a request is decided once: an undone decision or a             *)
(* resubmission brings a request back beside the one that took its place,  *)
(* a boost that is lowered takes tokens away from what waits, and a        *)
(* restart between an approval and its charge leaves tokens to spend that  *)
(* are spent.                                                              *)
(***************************************************************************)
EXTENDS TokenRequestsProofs, ApprovalViews

-----------------------------------------------------------------------------
(* Whom a request is routed to, whatever runs beside it *)

\* A coaching request waits for a coach, the one the employee asked for as long as
\* nobody resubmits it with another; any other waits for an approver.
Routed(row) ==
  /\ row.type = "coaching" =>
       row.manager \in Coaches /\ ("resubmit" \notin Ops => row.manager = row.coach)
  /\ row.type \in {"task_offloading", "learning_subsidy"} => row.manager \in Approvers

CallRouted(k) == Routed(k.row) /\ \A s \in k.todo : Routed(s.row)

RowsRouted == \A r \in Requests : Routed(requests[r])
RoutesOK == RowsRouted /\ \A c \in Calls : CallRouted(call[c])

VInv == IInv /\ RoutesOK

LEMMA VacantRouted == Routed(Vacant)
  BY DEF Routed, Vacant

LEMMA IdleRouted == CallRouted(Idle)
  BY VacantRouted DEF CallRouted, Idle

LEMMA NewRouted ==
  ASSUME NEW e \in Employees, NEW t \in OptionTypes, NEW coach \in CoachChoices(e, t),
         NEW cost, NEW y
  PROVE  Routed(NewRequest(e, t, cost, y, FirstApprover(e, coach), coach))
<1> DEFINE row == NewRequest(e, t, cost, y, FirstApprover(e, coach), coach)
<1>1. row.type = t /\ row.manager = FirstApprover(e, coach) /\ row.coach = coach
  BY DEF NewRequest, Vacant
<1> HIDE DEF row
<1>2. ASSUME t = "coaching" PROVE Routed(row)
  <2>1. coach \in Coaches /\ coach # Nobody
    BY <1>2, UsersAssumption, RequestsAssumption DEF CoachChoices
  <2> QED BY <1>1, <1>2, <2>1 DEF Routed, FirstApprover
<1>3. ASSUME t # "coaching" PROVE Routed(row)
  <2>1. FirstApprover(e, coach) \in Approvers
    BY <1>3, ReviewersAssumption DEF CoachChoices, FirstApprover
  <2> QED BY <1>1, <1>3, <2>1 DEF Routed
<1> QED BY <1>2, <1>3 DEF row

\* What a handler makes of a row it has loaded.
LEMMA SameRoute ==
  ASSUME NEW row, NEW new, Routed(row), new.type = row.type, new.manager = row.manager,
         "resubmit" \notin Ops => new.coach = row.coach
  PROVE  Routed(new)
  BY DEF Routed

LEMMA DecisionsRouted ==
  ASSUME NEW row \in Row, Routed(row), NEW by, NEW at, NEW b, NEW level
  PROVE  /\ Routed(ManagerApproved(row, b, at)) /\ Routed(HrApproved(row, by, at))
         /\ Routed(PolicyApproved(row)) /\ Routed(Rejected(row, by, level, at))
         /\ Routed(Cancelled(row)) /\ Routed(Undone(row))
         /\ Routed([row EXCEPT !.escalated = TRUE]) /\ Routed([row EXCEPT !.reminded = TRUE])
<1> DEFINE Same(new) == new.type = row.type /\ new.manager = row.manager /\ new.coach = row.coach
<1>1. Same(ManagerApproved(row, b, at)) /\ Same(HrApproved(row, by, at))
  BY DEF ManagerApproved, HrApproved, Row
<1>2. Same(PolicyApproved(row)) /\ Same(Rejected(row, by, level, at))
  BY DEF PolicyApproved, Rejected, Row
<1>3. Same(Cancelled(row)) /\ Same(Undone(row))
  BY DEF Cancelled, Undone, Row
<1>4. Same([row EXCEPT !.escalated = TRUE]) /\ Same([row EXCEPT !.reminded = TRUE])
  BY DEF Row
<1> QED BY <1>1, <1>2, <1>3, <1>4, SameRoute

LEMMA ResubmittedRouted ==
  ASSUME NEW row \in Row, Routed(row), "resubmit" \in Ops, NEW cost, NEW coach
  PROVE  Routed(Resubmitted(row, cost, coach))
<1>1. /\ Resubmitted(row, cost, coach).type = row.type
      /\ Resubmitted(row, cost, coach).manager = row.manager
  BY DEF Resubmitted, Row
<1> QED BY <1>1, SameRoute

-----------------------------------------------------------------------------
(* The steps keep the routes *)

LEMMA CallsRouted ==
  ASSUME VInv, NEW c \in Calls, NEW k, CallRouted(k), call' = [call EXCEPT ![c] = k]
  PROVE  \A d \in Calls : CallRouted(call'[d])
  BY DEF VInv, IInv, TypeOK, RoutesOK

LEMMA HeldRouted ==
  ASSUME VInv, NEW c \in Calls, NEW step, NEW r, NEW row, Routed(row), Hold(c, step, r, row)
  PROVE  \A d \in Calls : CallRouted(call'[d])
<1> DEFINE k == [Idle EXCEPT !.step = step, !.id = r, !.row = row]
<1>1. k.row = row /\ k.todo = {}
  BY DEF Idle
<1>2. call' = [call EXCEPT ![c] = k]
  BY DEF Hold
<1> HIDE DEF k
<1>3. CallRouted(k)
  BY <1>1 DEF CallRouted
<1> QED BY <1>2, <1>3, CallsRouted

LEMMA ReturnedRouted ==
  ASSUME VInv, NEW c \in Calls, Return(c)
  PROVE  \A d \in Calls : CallRouted(call'[d])
  BY IdleRouted, CallsRouted DEF Return

LEMMA LoopsRouted ==
  ASSUME VInv, NEW c \in Calls, NEW step, NEW todo, \A s \in todo : Routed(s.row),
         call' = [call EXCEPT ![c] = [Idle EXCEPT !.step = step, !.todo = todo]]
  PROVE  \A d \in Calls : CallRouted(call'[d])
<1> DEFINE k == [Idle EXCEPT !.step = step, !.todo = todo]
<1>1. k.row = Vacant /\ k.todo = todo /\ call' = [call EXCEPT ![c] = k]
  BY DEF Idle
<1> HIDE DEF k
<1>2. CallRouted(k)
  BY <1>1, VacantRouted DEF CallRouted
<1> QED BY <1>1, <1>2, CallsRouted

LEMMA LedgersRouted ==
  ASSUME VInv, NEW c \in Calls, NEW step, NEW ledger,
         call' = [call EXCEPT ![c] = [Idle EXCEPT !.step = step, !.ledger = ledger]]
  PROVE  \A d \in Calls : CallRouted(call'[d])
<1> DEFINE k == [Idle EXCEPT !.step = step, !.ledger = ledger]
<1>1. k.row = Vacant /\ k.todo = {} /\ call' = [call EXCEPT ![c] = k]
  BY DEF Idle
<1> HIDE DEF k
<1>2. CallRouted(k)
  BY <1>1, VacantRouted DEF CallRouted
<1> QED BY <1>1, <1>2, CallsRouted

LEMMA RowRouted ==
  ASSUME VInv, NEW r, NEW new, Routed(new), requests' = [requests EXCEPT ![r] = new]
  PROVE  RowsRouted'
  BY DEF VInv, IInv, TypeOK, RoutesOK, RowsRouted

LEMMA CreateRouted ==
  ASSUME VInv, NEW c \in Calls, NEW r \in Requests, Create(c, r)
  PROVE  RoutesOK'
<1>1. PICK e \in Employees, t \in Offered :
        \E coach \in CoachChoices(e, t), cost \in CostsOf(t) :
          call' = [call EXCEPT ![c] =
                    [Idle EXCEPT !.step = "check", !.id = r,
                       !.row = NewRequest(e, t, cost, year, FirstApprover(e, coach), coach),
                       !.ledger = {[account |-> <<e, year>>,
                                    balance |-> balances[<<e, year>>]]}]]
  BY Zenon DEF Create
<1>2. PICK coach \in CoachChoices(e, t), cost \in CostsOf(t) :
        call' = [call EXCEPT ![c] =
                  [Idle EXCEPT !.step = "check", !.id = r,
                     !.row = NewRequest(e, t, cost, year, FirstApprover(e, coach), coach),
                     !.ledger = {[account |-> <<e, year>>,
                                  balance |-> balances[<<e, year>>]]}]]
  BY <1>1, Zenon
<1> DEFINE row == NewRequest(e, t, cost, year, FirstApprover(e, coach), coach)
           k == [Idle EXCEPT !.step = "check", !.id = r, !.row = row,
                   !.ledger = {[account |-> <<e, year>>, balance |-> balances[<<e, year>>]]}]
<1>3. Routed(row)
  BY NewRouted, RequestsAssumption
<1>4. k.row = row /\ k.todo = {} /\ call' = [call EXCEPT ![c] = k]
  BY <1>2 DEF Idle
<1> HIDE DEF row, k
<1>5. CallRouted(k)
  BY <1>3, <1>4 DEF CallRouted
<1>6. RowsRouted'
  BY DEF Create, db, VInv, RoutesOK, RowsRouted
<1> QED BY <1>4, <1>5, <1>6, CallsRouted DEF RoutesOK

LEMMA RoutesStay ==
  ASSUME VInv, [Next]_vars
  PROVE  RoutesOK'
<1>1. /\ requests \in [Requests -> Row] /\ call \in [Calls -> CallState]
      /\ \A r \in Requests : Routed(requests[r])
      /\ \A c \in Calls : /\ Routed(call[c].row) /\ call[c].row \in Row
                          /\ \A s \in call[c].todo : Routed(s.row) /\ s.row \in Row
  BY DEF VInv, IInv, TypeOK, RoutesOK, RowsRouted, CallRouted, CallState, Entry
<1>2. ASSUME requests' = requests PROVE RowsRouted'
  BY <1>2, <1>1 DEF RowsRouted
<1>3. ASSUME NEW c \in Calls, NEW r \in Requests, OnRequest(c, r) PROVE RoutesOK'
  <2> DEFINE row == requests[r]
  <2>1. row \in Row /\ Routed(row)
    BY <1>1
  <2> HIDE DEF row
  <2>2. CASE ManagerApprove(c, r) \/ HrApprove(c, r) \/ Reject(c, r) \/ Cancel(c, r)
    <3>1. \E step, new : Hold(c, step, r, new) /\ Routed(new)
      BY <2>1, <2>2, DecisionsRouted DEF ManagerApprove, HrApprove, Reject, Cancel, row
    <3>2. RowsRouted'
      BY <1>2, <2>2 DEF ManagerApprove, HrApprove, Reject, Cancel, db
    <3> QED BY <3>1, <3>2, HeldRouted DEF RoutesOK
  <2>3. CASE Resubmit(c, r)
    <3>1. \E step, new : Hold(c, step, r, new) /\ Routed(new)
      BY <2>1, <2>3, ResubmittedRouted DEF Resubmit, row
    <3>2. RowsRouted'
      BY <1>2, <2>3 DEF Resubmit, db
    <3> QED BY <3>1, <3>2, HeldRouted DEF RoutesOK
  <2>4. CASE \E actor \in Users : Undo(c, r, actor)
    <3>1. requests' = [requests EXCEPT ![r] = Undone(row)] /\ call' = call
      BY <2>4 DEF Undo, row
    <3>2. Routed(Undone(row))
      BY <2>1, DecisionsRouted
    <3>3. RowsRouted'
      BY <3>1, <3>2, RowRouted
    <3> QED BY <3>1, <3>3 DEF VInv, RoutesOK
  <2>5. CASE BookSession(c, r)
    <3>1. RowsRouted'
      BY <1>2, <2>5 DEF BookSession, db
    <3> QED BY <2>5, <3>1, VacantRouted, HeldRouted DEF BookSession, RoutesOK
  <2> QED BY <1>3, <2>2, <2>3, <2>4, <2>5, CreateRouted DEF OnRequest
<1>4. ASSUME NEW c \in Calls, OnTables(c) PROVE RoutesOK'
  <2>1. RowsRouted'
    BY <1>2, <1>4 DEF OnTables, UpdateBoost, SetRequiresHr, ToggleOption, TokenReminder,
                      SlaSweep, db
  <2>2. CASE TokenReminder(c) \/ \E a \in Accounts : UpdateBoost(c, a)
    BY <2>1, <2>2, LedgersRouted DEF TokenReminder, UpdateBoost, RoutesOK
  <2>3. CASE SlaSweep(c)
    <3> DEFINE todo == {[id |-> r, row |-> requests[r]] :
                          r \in {q \in Requests : requests[q].status \in Pipeline}}
    <3>1. \A s \in todo : Routed(s.row)
      BY <1>1
    <3>2. call' = [call EXCEPT ![c] = [Idle EXCEPT !.step = "sweep", !.todo = todo]]
      BY <2>3 DEF SlaSweep
    <3> HIDE DEF todo
    <3> QED BY <2>1, <3>1, <3>2, LoopsRouted DEF RoutesOK
  <2>4. ASSUME NEW t \in Offered, SetRequiresHr(c, t) \/ ToggleOption(c, t) PROVE RoutesOK'
    <3>1. \A s \in Stranded(t) : Routed(s.row)
      BY <1>1 DEF Stranded
    <3>2. \/ call' = call
          \/ call' = [call EXCEPT ![c] = [Idle EXCEPT !.step = "finalize", !.todo = Stranded(t)]]
      BY <2>4 DEF SetRequiresHr, ToggleOption
    <3>3. \A d \in Calls : CallRouted(call'[d])
      BY <3>1, <3>2, LoopsRouted DEF VInv, RoutesOK
    <3> QED BY <2>1, <3>3 DEF RoutesOK
  <2> QED BY <1>4, <2>2, <2>3, <2>4 DEF OnTables
<1>5. ASSUME NEW c \in Calls, Continue(c) PROVE RoutesOK'
  <2>1. CASE \/ CheckNew(c) \/ Recheck(c) \/ Deduct(c) \/ SaveBalance(c) \/ LoopDone(c)
             \/ InsertSession(c)
    <3>1. RowsRouted'
      BY <1>2, <2>1 DEF CheckNew, Recheck, Deduct, SaveBalance, LoopDone, InsertSession, db
    <3>2. \A d \in Calls : CallRouted(call'[d])
      BY <1>1, <2>1, HeldRouted, ReturnedRouted, LedgersRouted
         DEF CheckNew, Recheck, Deduct, SaveBalance, LoopDone, InsertSession
    <3> QED BY <3>1, <3>2 DEF RoutesOK
  <2>2. CASE Insert(c) \/ Save(c)
    <3>1. RowsRouted'
      BY <1>1, <2>2, RowRouted DEF Insert, Save
    <3>2. \A d \in Calls : CallRouted(call'[d])
      BY <1>1, <2>2, HeldRouted, ReturnedRouted DEF Insert, Save
    <3> QED BY <3>1, <3>2 DEF RoutesOK
  <2>3. CASE RemindOne(c)
    <3>1. PICK l : call' = [call EXCEPT ![c].ledger = @ \ {l}]
      BY <2>3 DEF RemindOne
    <3> DEFINE k == [call[c] EXCEPT !.ledger = @ \ {l}]
    <3>2. k.row = call[c].row /\ k.todo = call[c].todo /\ call' = [call EXCEPT ![c] = k]
      BY <1>1, <3>1 DEF CallState
    <3> HIDE DEF k
    <3>3. CallRouted(k)
      BY <1>1, <3>2 DEF CallRouted
    <3>4. RowsRouted'
      BY <1>2, <2>3 DEF RemindOne
    <3> QED BY <3>2, <3>3, <3>4, CallsRouted DEF RoutesOK
  <2>4. CASE FinalizeOne(c) \/ SweepOne(c)
    <3>1. PICK s \in call[c].todo :
            /\ \/ requests' = requests
               \/ requests' = [requests EXCEPT ![s.id] = PolicyApproved(s.row)]
               \/ requests' = [requests EXCEPT ![s.id] = [s.row EXCEPT !.escalated = TRUE]]
               \/ requests' = [requests EXCEPT ![s.id] = [s.row EXCEPT !.reminded = TRUE]]
            /\ call' = [call EXCEPT ![c].todo = @ \ {s}]
      BY <2>4 DEF FinalizeOne, SweepOne
    <3>2. /\ Routed(PolicyApproved(s.row))
          /\ Routed([s.row EXCEPT !.escalated = TRUE]) /\ Routed([s.row EXCEPT !.reminded = TRUE])
      BY <1>1, DecisionsRouted
    <3>3. RowsRouted'
      BY <1>2, <3>1, <3>2, RowRouted
    <3> DEFINE k == [call[c] EXCEPT !.todo = @ \ {s}]
    <3>4. /\ k.row = call[c].row /\ k.todo = call[c].todo \ {s}
          /\ call' = [call EXCEPT ![c] = k]
      BY <1>1, <3>1 DEF CallState
    <3> HIDE DEF k
    <3>5. CallRouted(k)
      BY <1>1, <3>4 DEF CallRouted
    <3> QED BY <3>3, <3>4, <3>5, CallsRouted DEF RoutesOK
  <2> QED BY <1>5, <2>1, <2>2, <2>3, <2>4 DEF Continue
<1>6. CASE Restart
  <2>1. RowsRouted'
    BY <1>2, <1>6 DEF Restart, db
  <2> QED BY <1>6, <2>1, IdleRouted DEF Restart, RoutesOK
<1>7. CASE Tick \/ NextYear \/ UNCHANGED vars
  <2>1. requests' = requests /\ call' = call
    BY <1>7 DEF Tick, NextYear, vars, db
  <2> QED BY <1>2, <2>1 DEF VInv, RoutesOK
<1> QED BY <1>3, <1>4, <1>5, <1>6, <1>7 DEF Next

LEMMA RoutesStart == Init => RoutesOK
  BY VacantRouted, IdleRouted DEF Init, RoutesOK, RowsRouted

THEOREM RoutesStand == Spec => []VInv
<1>1. IInv /\ RoutesOK /\ [Next]_vars => RoutesOK'
  BY RoutesStay DEF VInv
<1>2. VInv <=> IInv /\ RoutesOK
  BY DEF VInv
<1> QED BY <1>1, <1>2, RoutesStart, Inductive, PTL DEF Spec

\* A request that waits is in the queue of somebody the service lets decide it.
THEOREM QueuesAlwaysDecidable == Spec => []QueuesAreDecidable
<1>1. VInv => QueuesAreDecidable
  <2> SUFFICES ASSUME VInv PROVE QueuesAreDecidable
    OBVIOUS
  <2>1. ASSUME NEW r \in Requests, requests[r].status = "pending"
        PROVE  \E u \in Reviewers : r \in ManagerQueue(u) /\ CanManagerApprove(requests[r], u)
    <3>1. Good(requests[r]) /\ Routed(requests[r])
      BY <2>1, Submitted DEF VInv, RoutesOK, RowsRouted, Statuses, Pipeline
    <3> DEFINE u == requests[r].manager
    <3>2. \/ requests[r].type = "coaching" /\ u \in Coaches
          \/ u \in Approvers
      BY <3>1 DEF Good, OptionTypes, Routed
    <3>3. u \in Reviewers /\ r \in ManagerQueue(u)
      BY <2>1, <3>2 DEF Reviewers, ManagerQueue, AssignedTo
    <3> QED BY <2>1, <3>3 DEF CanManagerApprove
  <2>2. ASSUME NEW u
        PROVE  /\ \A r \in ManagerQueue(u) : CanManagerApprove(requests[r], u)
               /\ \A r \in HrQueue(u) : CanHrApprove(requests[r])
    BY DEF ManagerQueue, AssignedTo, CanManagerApprove, HrQueue, WithStatus, CanHrApprove
  <2>3. AllRequests("active") = WithStatus({"pending"}) \cup WithStatus({"manager_approved"})
    BY DEF AllRequests, AllStatuses, WithStatus, Pipeline
  <2>4. \A u : /\ ManagerQueue(u) \subseteq WithStatus({"pending"})
               /\ HrQueue(u) \subseteq WithStatus({"manager_approved"})
    BY DEF ManagerQueue, AssignedTo, WithStatus, HrQueue
  <2>5. PICK u \in Reviewers : HrQueue(u) = WithStatus({"manager_approved"})
    BY ReviewersAssumption DEF HrQueue, Reviewers
  <2>6. \A r \in WithStatus({"pending"}) : \E w \in Reviewers :
          r \in ManagerQueue(w) /\ CanManagerApprove(requests[r], w)
    BY <2>1 DEF WithStatus
  <2> HIDE DEF VInv
  <2>7. AllRequests("active") = UNION {ManagerQueue(w) \cup HrQueue(w) : w \in Reviewers}
    BY <2>3, <2>4, <2>5, <2>6
  <2> QED BY <2>2, <2>6, <2>7 DEF QueuesAreDecidable
<1> QED BY <1>1, RoutesStand, PTL

\* As long as nobody resubmits, the coach an employee asked for decides first.
THEOREM CoachAlwaysFirst ==
  ASSUME "resubmit" \notin Ops
  PROVE  Spec => []CoachIsFirstApprover
<1>1. VInv => CoachIsFirstApprover
  BY DEF VInv, RoutesOK, RowsRouted, Routed, CoachIsFirstApprover
<1> QED BY <1>1, RoutesStand, PTL

\* The history of an HR approver shows the decisions of theirs that stand.
THEOREM HistoryAlwaysFollows == Spec => []HistoryFollowsDecisions
<1>1. IInv => HistoryFollowsDecisions
  <2> SUFFICES ASSUME IInv, NEW r \in Requests, NEW u \in HrApprovers, u \notin Admins
               PROVE  LET mine(type) ==
                            /\ Live(requests[r].decision)
                            /\ requests[r].decision.by = u /\ requests[r].decision.type = type
                      IN /\ r \in HrHistory(u, "rejected") <=> mine("hr_reject")
                         /\ r \in HrHistory(u, "approved") <=> mine("hr_approve")
                         /\ mine("hr_reject") \/ mine("hr_approve")
                              => r \in ApprovalHistory(u, "none")
    BY DEF HistoryFollowsDecisions
  <2> DEFINE row == requests[r]
  <2>1. row \in Row /\ RowOK(row)
    BY VacantOK DEF IInv, TypeOK, RowsOK, Stored, Good
  <2>2. /\ row.rejectedBy = "hr" <=> row.decision.type = "hr_reject" /\ Live(row.decision)
        /\ row.hrApproved <=> row.decision.type = "hr_approve" /\ Live(row.decision)
        /\ row.hrApproved => row.status = "approved"
    BY <2>1 DEF RowOK, DecisionAgrees, AuditAgrees, Live, LeadsTo, Row
  <2>3. r \in HrHistory(u, "rejected") <=> row.rejectedBy = "hr" /\ row.decision.by = u
    BY DEF HrHistory, HrRejectedBy
  <2>4. r \in HrHistory(u, "approved") <=>
          row.status = "approved" /\ row.hrApproved /\ row.decision.by = u
    BY DEF HrHistory, HrApprovedBy, WithStatus
  <2>5. /\ row.rejectedBy = "hr" /\ row.decision.by = u => r \in HrHistory(u, "none")
        /\ row.hrApproved /\ row.decision.by = u => r \in HrHistory(u, "none")
    BY DEF HrHistory, HrRejectedBy, HrApprovedBy
  <2>6. r \in HrHistory(u, "none") => r \in ApprovalHistory(u, "none")
    BY DEF ApprovalHistory
  <2> QED BY <2>2, <2>3, <2>4, <2>5, <2>6
<1> QED BY <1>1, Inductive, PTL

-----------------------------------------------------------------------------
(* The rules of a submission, over given tables *)

\* A request that was decided stays decided, a handler that began ends.
DecidedOnce == {"resubmit", "undo", "restart"} \cap Ops = {}

\* Admins raise the boost of a balance and do not lower it.
BoostsStand == \A a \in Accounts : balances'[a].boost >= balances[a].boost
BoostsOnlyGrow == [][BoostsStand]_vars

Types == OptionTypes \cup {"none"}
HeldStatuses == Pipeline \cup {"approved"}

\* The requests of account a with one of these types and statuses.
Chosen(rows, a, T, X) ==
  {r \in Requests : Account(rows[r]) = a /\ rows[r].type \in T /\ rows[r].status \in X}

SumOf(rows, a, T, X) == Cost(rows, Chosen(rows, a, T, X))

Waiting(rows, a) == SumOf(rows, a, Types, Pipeline)
Granted(rows, a) == SumOf(rows, a, Types, {"approved"})
Subsidy(rows, a) == SumOf(rows, a, {"learning_subsidy"}, HeldStatuses)

\* Projects that are held, and coaching requests that wait, exclude each other.
Rival(row, other) ==
  \/ /\ row.type = "task_offloading" /\ row.status \in HeldStatuses
     /\ other.type = "task_offloading" /\ other.status \in HeldStatuses
     /\ Account(row) = Account(other)
  \/ /\ row.type = "coaching" /\ row.status \in Pipeline
     /\ other.type = "coaching" /\ other.status \in Pipeline
     /\ row.employee = other.employee

Fair(rows, table) ==
  /\ \A q, r \in Requests : Rival(rows[q], rows[r]) => q = r
  /\ \A a \in Accounts :
       /\ Subsidy(rows, a) <= MaxSubsidy
       /\ Granted(rows, a) + Waiting(rows, a) <= TokensPerYear + table[a].boost

\* Exactly what is granted has been charged.
Settled(rows, table) == \A a \in Accounts : table[a].used = Granted(rows, a)

\* What waits for HR, of an option that skips it.
SkipsHr(rows, settings, r) ==
  rows[r].status = "manager_approved" /\ ~settings[rows[r].type].requiresHr

\* A decision on a request that waits.
Kin(old, new) ==
  /\ old.status \in Pipeline
  /\ new.type = old.type /\ new.cost = old.cost /\ Account(new) = Account(old)

Charge(table, a, amount) == [table EXCEPT ![a].used = @ + amount]

\* What holds of the tables while the only handler is at k.
Rules(rows, table, settings, k) ==
  /\ Fair(rows, table)
  /\ \A r \in Requests : SkipsHr(rows, settings, r) =>
       k.step = "finalize" /\ \E s \in k.todo : s.id = r
  /\ k.step \notin {"deduct", "charge"} => Settled(rows, table)
  /\ k.step = "check" =>
       k.ledger # {} /\ \A l \in k.ledger : l.balance = table[Account(k.row)]
  /\ k.step = "insert" => Fair([rows EXCEPT ![k.id] = k.row], table)
  /\ k.step # "recheck"
  /\ k.step = "save" =>
       /\ Kin(rows[k.id], k.row)
       /\ k.row.status = "manager_approved" => settings[k.row.type].requiresHr
  /\ k.step = "deduct" => Settled(rows, Charge(table, Account(k.row), k.row.cost))
  /\ k.step = "charge" =>
       \A l \in k.ledger : Settled(rows, [table EXCEPT ![l.account] = l.balance])

RulesOK ==
  /\ \A c \in Calls : Rules(requests, balances, options, call[c])
  /\ Calls = {} => Rules(requests, balances, options, Idle)

SInv == CInv /\ RulesOK

-----------------------------------------------------------------------------
(* Sums, when one row changes *)

\* What one row adds to such a sum.
Part(row, a, T, X) ==
  IF Account(row) = a /\ row.type \in T /\ row.status \in X THEN row.cost ELSE 0

LEMMA PartType ==
  ASSUME NEW row \in Row, NEW a, NEW T, NEW X
  PROVE  Part(row, a, T, X) \in Nat
  BY DEF Part, Row

LEMMA SumType ==
  ASSUME NEW rows \in [Requests -> Row], NEW a, NEW T, NEW X
  PROVE  SumOf(rows, a, T, X) \in Nat
<1> DEFINE S == Chosen(rows, a, T, X)
<1>1. IsFiniteSet(S) /\ \A q \in S : rows[q].cost \in Nat
  BY KeysAssumption, FS_Subset DEF Chosen, Row
<1> HIDE DEF S
<1>2. Cost(rows, S) \in Nat
  BY <1>1, CostType
<1> QED BY <1>2 DEF S, SumOf

LEMMA SumParts ==
  ASSUME NEW rows \in [Requests -> Row], NEW a, NEW T, NEW X, NEW r \in Requests
  PROVE  /\ Cost(rows, Chosen(rows, a, T, X) \ {r}) \in Nat
         /\ SumOf(rows, a, T, X) =
              Cost(rows, Chosen(rows, a, T, X) \ {r}) + Part(rows[r], a, T, X)
<1> DEFINE S == Chosen(rows, a, T, X)
           p == Part(rows[r], a, T, X)
<1>1. /\ IsFiniteSet(S) /\ IsFiniteSet(S \ {r})
      /\ \A q \in S : rows[q].cost \in Nat
  BY KeysAssumption, FS_Subset DEF Chosen, Row
<1>2. p = IF r \in S THEN rows[r].cost ELSE 0
  BY DEF Part, Chosen
<1>3. SumOf(rows, a, T, X) = Cost(rows, S)
  BY DEF SumOf
<1> HIDE DEF S, p
<1>4. Cost(rows, S \ {r}) \in Nat
  BY <1>1, CostType
<1>5. CASE r \in S
  <2>1. Cost(rows, S) = rows[r].cost + Cost(rows, S \ {r}) /\ rows[r].cost \in Nat
    BY <1>1, <1>5, CostTakes
  <2>2. Cost(rows, S) = Cost(rows, S \ {r}) + p
    BY <1>2, <1>4, <1>5, <2>1
  <2> QED BY <1>3, <1>4, <2>2 DEF S, p
<1>6. CASE r \notin S
  <2>1. S \ {r} = S
    BY <1>6
  <2>2. Cost(rows, S) = Cost(rows, S \ {r}) + p
    BY <1>2, <1>4, <1>6, <2>1
  <2> QED BY <1>3, <1>4, <2>2 DEF S, p
<1> QED BY <1>5, <1>6

\* When one row changes, a sum changes by what that row adds to it.
LEMMA SumMoves ==
  ASSUME NEW rows \in [Requests -> Row], NEW later \in [Requests -> Row], NEW r \in Requests,
         \A q \in Requests : q # r => later[q] = rows[q], NEW a, NEW T, NEW X
  PROVE  \E rest \in Nat : /\ SumOf(rows, a, T, X) = rest + Part(rows[r], a, T, X)
                           /\ SumOf(later, a, T, X) = rest + Part(later[r], a, T, X)
<1> DEFINE S == Chosen(rows, a, T, X) \ {r}
           U == Chosen(later, a, T, X) \ {r}
<1>1. S = U
  BY DEF Chosen
<1>2. IsFiniteSet(S) /\ \A q \in S : rows[q].cost = later[q].cost
  BY KeysAssumption, FS_Subset DEF Chosen
<1>3. Cost(rows, S) \in Nat /\ SumOf(rows, a, T, X) = Cost(rows, S) + Part(rows[r], a, T, X)
  BY SumParts
<1>4. SumOf(later, a, T, X) = Cost(later, U) + Part(later[r], a, T, X)
  BY SumParts
<1>5. Cost(rows, S) = Cost(later, S)
  <2> HIDE DEF S
  <2> QED BY <1>2, CostSame
<1> QED BY <1>1, <1>3, <1>4, <1>5

\* The sums of the model.
LEMMA GrantedIs ==
  ASSUME NEW rows \in [Requests -> Row], NEW a
  PROVE  Granted(rows, a) = CostIn(rows, a)
<1>1. Chosen(rows, a, Types, {"approved"}) = ApprovedIn(rows, a)
  BY DEF Chosen, Types, ApprovedIn, Row
<1> QED BY <1>1 DEF Granted, SumOf, CostIn

LEMMA CommittedIs ==
  ASSUME requests \in [Requests -> Row], NEW e, NEW y
  PROVE  Committed(e, y) = Waiting(requests, <<e, y>>)
<1>1. {r \in RequestsOf(e) : requests[r].year = y /\ requests[r].status \in Pipeline}
        = Chosen(requests, <<e, y>>, Types, Pipeline)
  BY DEF RequestsOf, Chosen, Account, Types, Row
<1> QED BY <1>1, TotalIsCost DEF Committed, Waiting, SumOf

LEMMA SubsidiesAre ==
  ASSUME NEW a
  PROVE  TotalCost(Subsidies(a)) = Subsidy(requests, a)
<1>1. Subsidies(a) = Chosen(requests, a, {"learning_subsidy"}, HeldStatuses)
  BY DEF Subsidies, Held, HeldStatuses, Chosen
<1> QED BY <1>1, TotalIsCost DEF Subsidy, SumOf

LEMMA SubsidyCounted ==
  ASSUME requests \in [Requests -> Row], NEW e, NEW y
  PROVE  Subsidy(requests, <<e, y>>) <= SubsidyHeld(e, y, {})
<1> DEFINE S == {r \in RequestsOf(e) \ {} :
                   /\ requests[r].type = "learning_subsidy"
                   /\ requests[r].year = y
                   /\ requests[r].status \notin {"cancelled", "rejected"}}
           P == Chosen(requests, <<e, y>>, {"learning_subsidy"}, HeldStatuses)
<1>1. P \in SUBSET S
  BY DEF Chosen, RequestsOf, Account, HeldStatuses, Pipeline
<1>2. IsFiniteSet(S) /\ \A r \in S : requests[r].cost \in Nat
  BY KeysAssumption, FS_Subset DEF RequestsOf, Row
<1>3. SubsidyHeld(e, y, {}) = Cost(requests, S)
  BY TotalIsCost DEF SubsidyHeld
<1>4. Subsidy(requests, <<e, y>>) = Cost(requests, P)
  BY DEF Subsidy, SumOf
<1> HIDE DEF S, P
<1> QED BY <1>1, <1>2, <1>3, <1>4, CostPart

-----------------------------------------------------------------------------
(* A fair table stays fair *)

\* A request that waits is decided, or a row that changes keeps its status.
LEMMA FairDecided ==
  ASSUME NEW rows \in [Requests -> Row], NEW later \in [Requests -> Row], NEW r \in Requests,
         \A q \in Requests : q # r => later[q] = rows[q],
         NEW table \in [Accounts -> Balance], Fair(rows, table),
         later[r].type = rows[r].type, later[r].cost = rows[r].cost,
         Account(later[r]) = Account(rows[r]),
         later[r].status = rows[r].status \/ rows[r].status \in Pipeline
  PROVE  Fair(later, table)
<1>1. later[r].status \in Pipeline => rows[r].status \in Pipeline
  OBVIOUS
<1>2. later[r].status \in HeldStatuses => rows[r].status \in HeldStatuses
  BY DEF HeldStatuses
<1>3. ASSUME NEW q \in Requests
      PROVE  /\ later[q].type = rows[q].type /\ Account(later[q]) = Account(rows[q])
             /\ later[q].employee = rows[q].employee
             /\ later[q].status \in Pipeline => rows[q].status \in Pipeline
             /\ later[q].status \in HeldStatuses => rows[q].status \in HeldStatuses
  BY <1>1, <1>2 DEF Account
<1>4. \A p, q \in Requests : Rival(later[p], later[q]) => p = q
  <2>1. \A p, q \in Requests : Rival(later[p], later[q]) => Rival(rows[p], rows[q])
    BY <1>3 DEF Rival
  <2> QED BY <2>1 DEF Fair
<1>5. ASSUME NEW a \in Accounts
      PROVE  /\ Subsidy(later, a) <= MaxSubsidy
             /\ Granted(later, a) + Waiting(later, a) <= TokensPerYear + table[a].boost
  <2> DEFINE gained(T, X) == Part(later[r], a, T, X)
             had(T, X) == Part(rows[r], a, T, X)
  <2>1. /\ Subsidy(rows, a) <= MaxSubsidy
        /\ Granted(rows, a) + Waiting(rows, a) <= TokensPerYear + table[a].boost
    BY DEF Fair
  <2>2. PICK s \in Nat : /\ Subsidy(rows, a) = s + had({"learning_subsidy"}, HeldStatuses)
                         /\ Subsidy(later, a) = s + gained({"learning_subsidy"}, HeldStatuses)
    BY SumMoves DEF Subsidy
  <2>3. PICK w \in Nat : /\ Waiting(rows, a) = w + had(Types, Pipeline)
                         /\ Waiting(later, a) = w + gained(Types, Pipeline)
    BY SumMoves DEF Waiting
  <2>4. PICK g \in Nat : /\ Granted(rows, a) = g + had(Types, {"approved"})
                         /\ Granted(later, a) = g + gained(Types, {"approved"})
    BY SumMoves DEF Granted
  <2>5. /\ gained({"learning_subsidy"}, HeldStatuses) <= had({"learning_subsidy"}, HeldStatuses)
        /\ gained(Types, Pipeline) + gained(Types, {"approved"})
             <= had(Types, Pipeline) + had(Types, {"approved"})
    <3>1. rows[r].cost \in Nat /\ later[r].cost \in Nat
      BY DEF Row
    <3>2. ~(later[r].status \in Pipeline /\ later[r].status = "approved")
      BY DEF Pipeline
    <3> QED BY <1>2, <3>1, <3>2 DEF Part
  <2>6. /\ gained({"learning_subsidy"}, HeldStatuses) \in Nat
        /\ had({"learning_subsidy"}, HeldStatuses) \in Nat
        /\ gained(Types, Pipeline) \in Nat /\ had(Types, Pipeline) \in Nat
        /\ gained(Types, {"approved"}) \in Nat /\ had(Types, {"approved"}) \in Nat
    BY PartType
  <2>7. MaxSubsidy \in Nat /\ TokensPerYear \in Nat /\ table[a].boost \in Nat
    BY AmountsAssumption DEF Balance
  <2> HIDE DEF gained, had
  <2> QED BY <2>1, <2>2, <2>3, <2>4, <2>5, <2>6, <2>7
<1> QED BY <1>4, <1>5 DEF Fair

\* A request that passes the checks of its submission is added.
LEMMA FairSubmitted ==
  ASSUME NEW rows \in [Requests -> Row], NEW later \in [Requests -> Row], NEW r \in Requests,
         \A q \in Requests : q # r => later[q] = rows[q],
         NEW table \in [Accounts -> Balance], Fair(rows, table),
         rows[r] = Vacant, later[r].status = "pending",
         \A q \in Requests : q # r => ~Rival(later[r], rows[q]) /\ ~Rival(rows[q], later[r]),
         later[r].type = "learning_subsidy" =>
           Subsidy(rows, Account(later[r])) + later[r].cost <= MaxSubsidy,
         Granted(rows, Account(later[r])) + Waiting(rows, Account(later[r])) + later[r].cost
           <= TokensPerYear + table[Account(later[r])].boost
  PROVE  Fair(later, table)
<1> DEFINE new == later[r]
<1>1. \A p, q \in Requests : Rival(later[p], later[q]) => p = q
  BY DEF Fair
<1>2. ASSUME NEW a \in Accounts
      PROVE  /\ Subsidy(later, a) <= MaxSubsidy
             /\ Granted(later, a) + Waiting(later, a) <= TokensPerYear + table[a].boost
  <2> DEFINE gained(T, X) == Part(new, a, T, X)
             had(T, X) == Part(rows[r], a, T, X)
  <2>1. /\ Subsidy(rows, a) <= MaxSubsidy
        /\ Granted(rows, a) + Waiting(rows, a) <= TokensPerYear + table[a].boost
    BY DEF Fair
  <2>2. PICK s \in Nat : /\ Subsidy(rows, a) = s + had({"learning_subsidy"}, HeldStatuses)
                         /\ Subsidy(later, a) = s + gained({"learning_subsidy"}, HeldStatuses)
    BY SumMoves DEF Subsidy
  <2>3. PICK w \in Nat : /\ Waiting(rows, a) = w + had(Types, Pipeline)
                         /\ Waiting(later, a) = w + gained(Types, Pipeline)
    BY SumMoves DEF Waiting
  <2>4. PICK g \in Nat : /\ Granted(rows, a) = g + had(Types, {"approved"})
                         /\ Granted(later, a) = g + gained(Types, {"approved"})
    BY SumMoves DEF Granted
  <2>5. /\ had({"learning_subsidy"}, HeldStatuses) = 0
        /\ had(Types, Pipeline) = 0 /\ had(Types, {"approved"}) = 0
    BY DEF Part, Vacant, HeldStatuses, Pipeline
  <2>6. /\ gained(Types, {"approved"}) = 0
        /\ \/ gained(Types, Pipeline) = 0
           \/ Account(new) = a /\ gained(Types, Pipeline) = new.cost
        /\ \/ gained({"learning_subsidy"}, HeldStatuses) = 0
           \/ /\ Account(new) = a /\ new.type = "learning_subsidy"
              /\ gained({"learning_subsidy"}, HeldStatuses) = new.cost
    BY DEF Part
  <2>7. MaxSubsidy \in Nat /\ TokensPerYear \in Nat /\ table[a].boost \in Nat /\ new.cost \in Nat
    BY AmountsAssumption DEF Balance, Row
  <2> HIDE DEF gained, had, new
  <2>8. Subsidy(later, a) <= MaxSubsidy
    BY <2>1, <2>2, <2>5, <2>6, <2>7 DEF new
  <2>9. Granted(later, a) + Waiting(later, a) <= TokensPerYear + table[a].boost
    BY <2>1, <2>3, <2>4, <2>5, <2>6, <2>7 DEF new
  <2> QED BY <2>8, <2>9
<1> QED BY <1>1, <1>2 DEF Fair

\* More tokens to spend do no harm.
LEMMA FairBoosted ==
  ASSUME NEW rows \in [Requests -> Row], NEW table \in [Accounts -> Balance],
         NEW after \in [Accounts -> Balance], Fair(rows, table),
         \A a \in Accounts : after[a].boost >= table[a].boost
  PROVE  Fair(rows, after)
<1>1. ASSUME NEW a \in Accounts
      PROVE  Granted(rows, a) + Waiting(rows, a) <= TokensPerYear + after[a].boost
  <2>1. Granted(rows, a) + Waiting(rows, a) <= TokensPerYear + table[a].boost
    BY DEF Fair
  <2>2. /\ Granted(rows, a) \in Nat /\ Waiting(rows, a) \in Nat /\ TokensPerYear \in Nat
        /\ table[a].boost \in Nat /\ after[a].boost \in Nat
    BY SumType, AmountsAssumption DEF Granted, Waiting, Balance
  <2> QED BY <2>1, <2>2
<1> QED BY <1>1 DEF Fair

-----------------------------------------------------------------------------
(* A settled table stays settled *)

LEMMA GrantedMoves ==
  ASSUME NEW rows \in [Requests -> Row], NEW later \in [Requests -> Row], NEW r \in Requests,
         \A q \in Requests : q # r => later[q] = rows[q], NEW a
  PROVE  \E rest \in Nat : /\ Granted(rows, a) = rest + Share(rows[r], a)
                           /\ Granted(later, a) = rest + Share(later[r], a)
<1>1. /\ Part(rows[r], a, Types, {"approved"}) = Share(rows[r], a)
      /\ Part(later[r], a, Types, {"approved"}) = Share(later[r], a)
  BY DEF Part, Share, Types, Row
<1> QED BY <1>1, SumMoves DEF Granted

LEMMA SettledSame ==
  ASSUME NEW rows \in [Requests -> Row], NEW later \in [Requests -> Row], NEW r \in Requests,
         \A q \in Requests : q # r => later[q] = rows[q], NEW table, Settled(rows, table),
         \A a \in Accounts : Share(later[r], a) = Share(rows[r], a)
  PROVE  Settled(later, table)
<1>1. ASSUME NEW a \in Accounts PROVE Granted(later, a) = Granted(rows, a)
  <2>1. PICK rest \in Nat : /\ Granted(rows, a) = rest + Share(rows[r], a)
                            /\ Granted(later, a) = rest + Share(later[r], a)
    BY GrantedMoves
  <2> QED BY <2>1
<1> QED BY <1>1 DEF Settled

LEMMA SettledApproved ==
  ASSUME NEW rows \in [Requests -> Row], NEW later \in [Requests -> Row], NEW r \in Requests,
         \A q \in Requests : q # r => later[q] = rows[q],
         NEW table \in [Accounts -> Balance], Settled(rows, table),
         rows[r].status # "approved", later[r].status = "approved"
  PROVE  Settled(later, Charge(table, Account(later[r]), later[r].cost))
<1> DEFINE b == Account(later[r])
           amount == later[r].cost
           after == Charge(table, b, amount)
<1>1. ASSUME NEW a \in Accounts PROVE after[a].used = Granted(later, a)
  <2>1. PICK rest \in Nat : /\ Granted(rows, a) = rest + Share(rows[r], a)
                            /\ Granted(later, a) = rest + Share(later[r], a)
    BY GrantedMoves
  <2>2. Share(rows[r], a) = 0 /\ Share(later[r], a) = IF b = a THEN amount ELSE 0
    BY DEF Share
  <2>3. amount \in Nat /\ table[a].used = Granted(rows, a)
    BY DEF Row, Settled
  <2>4. after[a].used = IF b = a THEN table[a].used + amount ELSE table[a].used
    BY DEF Charge, Balance
  <2> HIDE DEF after, b, amount
  <2> QED BY <2>1, <2>2, <2>3, <2>4
<1> QED BY <1>1 DEF Settled

-----------------------------------------------------------------------------
(* The only handler goes on *)

\* What the rules come to when no handler is about to change the tables.
Calm(rows, table, settings) ==
  /\ Fair(rows, table) /\ Settled(rows, table)
  /\ \A r \in Requests : ~SkipsHr(rows, settings, r)

Quiet == {"idle", "sweep", "remind", "book"}

LEMMA CalmRules ==
  ASSUME NEW rows, NEW table, NEW settings, NEW k, k.step \in Quiet,
         Calm(rows, table, settings)
  PROVE  Rules(rows, table, settings, k)
  BY DEF Quiet, Calm, Rules

LEMMA RulesCalm ==
  ASSUME NEW rows, NEW table, NEW settings, NEW k, Rules(rows, table, settings, k),
         k.step \in Quiet \cup {"check", "insert", "save"}
  PROVE  Calm(rows, table, settings)
  BY DEF Quiet, Calm, Rules

LEMMA AloneRules ==
  ASSUME OneAtATime, SInv, NEW c \in Calls, NEW k, call' = [call EXCEPT ![c] = k],
         Rules(requests', balances', options', k)
  PROVE  RulesOK'
<1>1. call \in [Calls -> CallState]
  BY DEF SInv, CInv, RInv, IInv, TypeOK
<1>2. ASSUME NEW d \in Calls PROVE Rules(requests', balances', options', call'[d])
  <2>1. d = c
    BY DEF OneAtATime
  <2>2. call'[d] = k
    BY <1>1, <2>1
  <2> QED BY <2>2
<1> QED BY <1>2 DEF RulesOK

LEMMA QuietRules ==
  ASSUME OneAtATime, SInv, NEW c \in Calls, NEW k, call' = [call EXCEPT ![c] = k],
         k.step \in Quiet, Calm(requests', balances', options')
  PROVE  RulesOK'
  BY CalmRules, AloneRules

LEMMA ReturnedRules ==
  ASSUME OneAtATime, SInv, NEW c \in Calls, Return(c), Calm(requests', balances', options')
  PROVE  RulesOK'
<1>1. Idle.step \in Quiet
  BY DEF Idle, Quiet
<1> QED BY <1>1, QuietRules DEF Return

LEMMA CalmNow ==
  ASSUME SInv, NEW c \in Calls, call[c].step \in Quiet \cup {"check", "insert", "save"}
  PROVE  Calm(requests, balances, options)
  BY RulesCalm DEF SInv, RulesOK

LEMMA Tables ==
  ASSUME SInv
  PROVE  /\ requests \in [Requests -> Row] /\ balances \in [Accounts -> Balance]
         /\ call \in [Calls -> CallState]
         /\ options \in [OptionTypes -> [requiresHr : BOOLEAN, active : BOOLEAN]]
         /\ IInv /\ RInv
  BY DEF SInv, CInv, RInv, IInv, TypeOK

\* A call that is idle, or still has its request's row as it was submitted.
LEMMA InHandNow ==
  ASSUME SInv, NEW c \in Calls, call[c].step \in {"check", "insert", "save", "deduct"}
  PROVE  /\ call[c].id \in Requests /\ Good(call[c].row)
         /\ call[c].step \in {"check", "insert"} =>
              Submits(requests[call[c].id], call[c].row)
         /\ Rules(requests, balances, options, call[c])
  BY DEF SInv, RulesOK, CInv, RInv, UpToDate, InHandOK, IInv, CallsOK, CallOK, RowSteps

-----------------------------------------------------------------------------
(* Submitting *)

LEMMA CreateRules ==
  ASSUME OneAtATime, SInv, NEW c \in Calls, NEW r \in Requests, Create(c, r)
  PROVE  RulesOK'
<1>1. PICK e \in Employees, t \in Offered :
        \E coach \in CoachChoices(e, t), cost \in CostsOf(t) :
          call' = [call EXCEPT ![c] =
                    [Idle EXCEPT !.step = "check", !.id = r,
                       !.row = NewRequest(e, t, cost, year, FirstApprover(e, coach), coach),
                       !.ledger = {[account |-> <<e, year>>,
                                    balance |-> balances[<<e, year>>]]}]]
  BY Zenon DEF Create
<1>2. PICK coach \in CoachChoices(e, t), cost \in CostsOf(t) :
        call' = [call EXCEPT ![c] =
                  [Idle EXCEPT !.step = "check", !.id = r,
                     !.row = NewRequest(e, t, cost, year, FirstApprover(e, coach), coach),
                     !.ledger = {[account |-> <<e, year>>,
                                  balance |-> balances[<<e, year>>]]}]]
  BY <1>1, Zenon
<1> DEFINE row == NewRequest(e, t, cost, year, FirstApprover(e, coach), coach)
           ledger == {[account |-> <<e, year>>, balance |-> balances[<<e, year>>]]}
           k == [Idle EXCEPT !.step = "check", !.id = r, !.row = row, !.ledger = ledger]
<1>3. Account(row) = <<e, year>>
  BY DEF NewRequest, Vacant, Account
<1>4. ledger # {} /\ \A l \in ledger : l.balance = balances[Account(row)]
  BY <1>3
<1>5. call' = [call EXCEPT ![c] = k]
  BY <1>2
<1> HIDE DEF row, ledger
<1>6. k.step = "check" /\ k.row = row /\ k.ledger = ledger
  BY DEF Idle
<1> HIDE DEF k
<1>7. Calm(requests, balances, options)
  BY CalmNow DEF Create, Free, Quiet
<1>8. Rules(requests, balances, options, k)
  BY <1>4, <1>6, <1>7 DEF Rules, Calm
<1>9. requests' = requests /\ balances' = balances /\ options' = options
  BY DEF Create, db
<1> QED BY <1>5, <1>8, <1>9, AloneRules

\* The checks of a submission, as far as they are about the rules.
LEMMA ChecksMean ==
  ASSUME SInv, NEW c \in Calls, call[c].step = "check", Allowed(call[c].row),
         \A l \in call[c].ledger :
           Spendable(l.balance, call[c].row.employee, call[c].row.year) >= call[c].row.cost
  PROVE  LET row == call[c].row IN
         /\ \A q \in Requests : ~Rival(row, requests[q]) /\ ~Rival(requests[q], row)
         /\ row.type = "learning_subsidy" =>
              Subsidy(requests, Account(row)) + row.cost <= MaxSubsidy
         /\ Committed(row.employee, row.year) + row.cost <= Remaining(balances[Account(row)])
         /\ Granted(requests, Account(row)) + Waiting(requests, Account(row)) + row.cost
              <= TokensPerYear + balances[Account(row)].boost
<1> DEFINE row == call[c].row
           a == Account(row)
<1>1. /\ Good(row) /\ Submits(requests[call[c].id], row)
      /\ Rules(requests, balances, options, call[c])
  BY InHandNow
<1>2. /\ row \in Row /\ a \in Accounts /\ a = <<row.employee, row.year>>
      /\ row.status = "pending" /\ row.cost \in Nat
  BY <1>1 DEF Good, Submits, Account, Row
<1>3. /\ requests \in [Requests -> Row] /\ balances[a] \in Balance
      /\ Settled(requests, balances)
  BY <1>1, <1>2, Tables DEF Rules
<1>4. Allowed(row)
  OBVIOUS
<1>5. PICK l \in call[c].ledger : l.balance = balances[a]
  BY <1>1 DEF Rules
<1>6. Spendable(balances[a], row.employee, row.year) >= row.cost
  BY <1>5
<1>7. Committed(row.employee, row.year) = Waiting(requests, a)
  BY <1>2, <1>3, CommittedIs
<1>8. Subsidy(requests, a) <= SubsidyHeld(row.employee, row.year, {})
  BY <1>2, <1>3, SubsidyCounted
<1>9. /\ Subsidy(requests, a) \in Nat /\ Waiting(requests, a) \in Nat
      /\ Granted(requests, a) \in Nat /\ balances[a].used = Granted(requests, a)
      /\ balances[a].boost \in Nat /\ TokensPerYear \in Nat
  BY <1>2, <1>3, SumType, AmountsAssumption DEF Subsidy, Waiting, Granted, Balance, Settled
<1> HIDE DEF row, a
<1>10. SubsidyHeld(row.employee, row.year, {}) \in Int
  <2> DEFINE S == {r \in RequestsOf(row.employee) \ {} :
                     /\ requests[r].type = "learning_subsidy"
                     /\ requests[r].year = row.year
                     /\ requests[r].status \notin {"cancelled", "rejected"}}
  <2>1. IsFiniteSet(S) /\ \A r \in S : requests[r].cost \in Nat
    BY <1>3, KeysAssumption, FS_Subset DEF RequestsOf, Row
  <2>2. SubsidyHeld(row.employee, row.year, {}) = Cost(requests, S)
    BY TotalIsCost DEF SubsidyHeld
  <2> HIDE DEF S
  <2> QED BY <2>1, <2>2, CostType
<1>11. row.type = "learning_subsidy" => Subsidy(requests, a) + row.cost <= MaxSubsidy
  <2> SUFFICES ASSUME row.type = "learning_subsidy"
               PROVE  Subsidy(requests, a) + row.cost <= MaxSubsidy
    OBVIOUS
  <2>1. SubsidyHeld(row.employee, row.year, {}) + row.cost <= MaxSubsidy
    BY <1>4 DEF Allowed
  <2> QED BY <1>2, <1>8, <1>9, <1>10, <2>1, AmountsAssumption
<1>12. /\ Committed(row.employee, row.year) + row.cost <= Remaining(balances[a])
       /\ Granted(requests, a) + Waiting(requests, a) + row.cost
            <= TokensPerYear + balances[a].boost
  BY <1>2, <1>6, <1>7, <1>9 DEF Spendable, Remaining
<1>13. ASSUME NEW q \in Requests PROVE ~Rival(row, requests[q]) /\ ~Rival(requests[q], row)
  <2> SUFFICES ASSUME Rival(row, requests[q]) \/ Rival(requests[q], row) PROVE FALSE
    OBVIOUS
  <2>1. CASE row.type = "coaching"
    <3>1. /\ requests[q].type = "coaching" /\ requests[q].status \in Pipeline
          /\ requests[q].employee = row.employee
      BY <2>1 DEF Rival
    <3> QED BY <1>4, <2>1, <3>1 DEF Allowed, CoachingAllowed, RequestsOf
  <2>2. CASE row.type = "task_offloading"
    <3>1. /\ requests[q].type = "task_offloading"
          /\ requests[q].status \in Pipeline \cup {"approved"}
          /\ Account(requests[q]) = Account(row)
      BY <2>2 DEF Rival, HeldStatuses
    <3>2. requests[q].employee = row.employee /\ requests[q].year = row.year
      BY <3>1 DEF Account
    <3> QED BY <1>4, <2>2, <3>1, <3>2 DEF Allowed, ProjectAllowed, ProjectIn, RequestsOf
  <2> QED BY <2>1, <2>2 DEF Rival
<1> QED BY <1>11, <1>12, <1>13 DEF row, a

LEMMA CheckNewRules ==
  ASSUME OneAtATime, SInv, NEW c \in Calls, CheckNew(c)
  PROVE  RulesOK'
<1> DEFINE row == call[c].row
           r == call[c].id
           later == [requests EXCEPT ![r] = row]
           k == [Idle EXCEPT !.step = "insert", !.id = r, !.row = row]
<1>1. /\ requests' = requests /\ balances' = balances /\ options' = options
      /\ call[c].step = "check"
  BY DEF CheckNew, db
<1>2. Calm(requests, balances, options)
  BY <1>1, CalmNow
<1>3. CASE Return(c)
  BY <1>1, <1>2, <1>3, ReturnedRules
<1>4. CASE /\ Hold(c, "insert", r, row) /\ Allowed(row)
           /\ \A l \in call[c].ledger : Spendable(l.balance, row.employee, row.year) >= row.cost
  <2>1. /\ r \in Requests /\ Good(row) /\ Submits(requests[r], row)
        /\ requests \in [Requests -> Row] /\ balances \in [Accounts -> Balance]
    BY <1>1, InHandNow, Tables
  <2>2. /\ later \in [Requests -> Row] /\ later[r] = row
        /\ \A q \in Requests : q # r => later[q] = requests[q]
        /\ requests[r] = Vacant /\ row.status = "pending"
    BY <2>1 DEF Submits, Good
  <2>3. /\ \A q \in Requests : ~Rival(row, requests[q]) /\ ~Rival(requests[q], row)
        /\ row.type = "learning_subsidy" =>
             Subsidy(requests, Account(row)) + row.cost <= MaxSubsidy
        /\ Granted(requests, Account(row)) + Waiting(requests, Account(row)) + row.cost
             <= TokensPerYear + balances[Account(row)].boost
    BY <1>1, <1>4, ChecksMean
  <2>4. Fair(requests, balances)
    BY <1>2 DEF Calm
  <2>5. k.step = "insert" /\ k.id = r /\ k.row = row /\ call' = [call EXCEPT ![c] = k]
    BY <1>4 DEF Idle, Hold
  <2> HIDE DEF later, row, r, k
  <2>6. Fair(later, balances)
    BY <2>1, <2>2, <2>3, <2>4, FairSubmitted
  <2>7. Rules(requests, balances, options, k)
    BY <1>2, <2>5, <2>6 DEF Rules, Calm, later
  <2> QED BY <1>1, <2>5, <2>7, AloneRules
<1> QED BY <1>3, <1>4 DEF CheckNew

LEMMA InsertRules ==
  ASSUME OneAtATime, SInv, NEW c \in Calls, Insert(c)
  PROVE  RulesOK'
<1> DEFINE row == call[c].row
           r == call[c].id
<1>1. /\ requests' = [requests EXCEPT ![r] = row]
      /\ balances' = balances /\ options' = options /\ Return(c) /\ call[c].step = "insert"
  BY DEF Insert
<1>2. /\ r \in Requests /\ Good(row) /\ requests[r] = Vacant /\ row.status = "pending"
      /\ requests \in [Requests -> Row] /\ Calm(requests, balances, options)
  BY <1>1, InHandNow, Tables, CalmNow DEF Submits
<1>3. Fair(requests', balances)
  BY <1>1, InHandNow DEF Rules
<1>4. /\ requests' \in [Requests -> Row] /\ requests'[r] = row
      /\ \A q \in Requests : q # r => requests'[q] = requests[q]
  BY <1>1, <1>2 DEF Good
<1>5. Settled(requests', balances)
  <2>1. \A a \in Accounts : Share(requests'[r], a) = 0 /\ Share(requests[r], a) = 0
    BY <1>2, <1>4 DEF Share, Vacant
  <2> QED BY <1>2, <1>4, <2>1, SettledSame DEF Calm
<1>6. \A q \in Requests : ~SkipsHr(requests', options, q)
  BY <1>2, <1>4 DEF Calm, SkipsHr
<1> QED BY <1>1, <1>3, <1>5, <1>6, ReturnedRules DEF Calm

-----------------------------------------------------------------------------
(* Deciding *)

LEMMA HeldRules ==
  ASSUME OneAtATime, SInv, NEW c \in Calls, Free(c), NEW r \in Requests, NEW row,
         Hold(c, "save", r, row), Kin(requests[r], row),
         row.status = "manager_approved" => options[row.type].requiresHr,
         UNCHANGED db
  PROVE  RulesOK'
<1> DEFINE k == [Idle EXCEPT !.step = "save", !.id = r, !.row = row]
<1>1. k.step = "save" /\ k.id = r /\ k.row = row /\ call' = [call EXCEPT ![c] = k]
  BY DEF Idle, Hold
<1> HIDE DEF k
<1>2. Calm(requests, balances, options)
  BY CalmNow DEF Free, Quiet
<1>3. Rules(requests, balances, options, k)
  BY <1>1, <1>2 DEF Rules, Calm
<1> QED BY <1>1, <1>3, AloneRules DEF db

\* What a decision makes of a request that waits is a row of the same request.
LEMMA DecisionsKin ==
  ASSUME NEW row \in Row, row.status \in Pipeline, NEW by, NEW at, NEW b, NEW level
  PROVE  /\ Kin(row, ManagerApproved(row, b, at)) /\ Kin(row, HrApproved(row, by, at))
         /\ Kin(row, Rejected(row, by, level, at)) /\ Kin(row, Cancelled(row))
         /\ Kin(row, PolicyApproved(row))
<1> DEFINE Same(new) == /\ new.type = row.type /\ new.cost = row.cost
                        /\ new.employee = row.employee /\ new.year = row.year
<1>1. Same(ManagerApproved(row, b, at)) /\ Same(HrApproved(row, by, at))
  BY DEF ManagerApproved, HrApproved, Row
<1>2. Same(Rejected(row, by, level, at)) /\ Same(Cancelled(row)) /\ Same(PolicyApproved(row))
  BY DEF Rejected, Cancelled, PolicyApproved, Row
<1>3. ASSUME NEW new, Same(new) PROVE Kin(row, new)
  BY <1>3 DEF Kin, Account
<1> QED BY <1>1, <1>2, <1>3

LEMMA DecisionRules ==
  ASSUME OneAtATime, SInv, NEW c \in Calls, NEW r \in Requests,
         ManagerApprove(c, r) \/ HrApprove(c, r) \/ Reject(c, r) \/ Cancel(c, r)
  PROVE  RulesOK'
<1> DEFINE row == requests[r]
<1>1. row \in Row /\ Free(c) /\ UNCHANGED db
  BY Tables DEF ManagerApprove, HrApprove, Reject, Cancel
<1>2. row.status \in Pipeline
  BY DEF ManagerApprove, HrApprove, Reject, Cancel, CanManagerApprove, CanHrApprove, CanReject,
         CanCancel, Pipeline
<1>3. CASE ManagerApprove(c, r)
  <2> DEFINE new == ManagerApproved(row, options[row.type].requiresHr, now)
  <2>1. Good(row)
    BY <1>2, Tables, Submitted DEF Statuses
  <2>2. new.status = "manager_approved" => options[new.type].requiresHr
    BY <1>1 DEF ManagerApproved, Row
  <2>3. Kin(row, new) /\ Hold(c, "save", r, new)
    BY <1>1, <1>2, <1>3, DecisionsKin DEF ManagerApprove
  <2> HIDE DEF new
  <2> QED BY <1>1, <2>2, <2>3, HeldRules
<1>4. CASE HrApprove(c, r) \/ Reject(c, r) \/ Cancel(c, r)
  <2>1. PICK new : /\ Hold(c, "save", r, new) /\ Kin(row, new)
                   /\ new.status # "manager_approved"
    <3>1. \A hr, level : /\ HrApproved(row, hr, now).status # "manager_approved"
                         /\ Rejected(row, hr, level, now).status # "manager_approved"
                         /\ Cancelled(row).status # "manager_approved"
      BY <1>1 DEF HrApproved, Rejected, Cancelled, Row
    <3> QED BY <1>1, <1>2, <1>4, <3>1, DecisionsKin DEF HrApprove, Reject, Cancel
  <2> QED BY <1>1, <2>1, HeldRules
<1> QED BY <1>3, <1>4

LEMMA SaveRules ==
  ASSUME OneAtATime, SInv, NEW c \in Calls, Save(c)
  PROVE  RulesOK'
<1> DEFINE new == call[c].row
           r == call[c].id
           old == requests[r]
           k == [Idle EXCEPT !.step = "deduct", !.id = r, !.row = new]
<1>1. /\ requests' = [requests EXCEPT ![r] = new]
      /\ balances' = balances /\ options' = options /\ call[c].step = "save"
  BY DEF Save
<1>2. /\ r \in Requests /\ Good(new) /\ requests \in [Requests -> Row]
      /\ balances \in [Accounts -> Balance]
      /\ Kin(old, new)
      /\ new.status = "manager_approved" => options[new.type].requiresHr
      /\ Calm(requests, balances, options)
  BY <1>1, InHandNow, Tables, CalmNow DEF Rules
<1>3. /\ requests' \in [Requests -> Row] /\ requests'[r] = new
      /\ \A q \in Requests : q # r => requests'[q] = requests[q]
  BY <1>1, <1>2 DEF Good
<1>4. Fair(requests', balances)
  BY <1>2, <1>3, FairDecided DEF Calm, Kin
<1>5. \A q \in Requests : ~SkipsHr(requests', options, q)
  BY <1>2, <1>3 DEF Calm, SkipsHr
<1>6. old.status # "approved"
  BY <1>2 DEF Kin, Pipeline
<1>7. CASE new.status = "approved" /\ Hold(c, "deduct", r, new)
  <2>1. k.step = "deduct" /\ k.row = new /\ call' = [call EXCEPT ![c] = k]
    BY <1>7 DEF Idle, Hold
  <2> HIDE DEF k, new, r, old
  <2>2. Settled(requests', Charge(balances, Account(new), new.cost))
    BY <1>2, <1>3, <1>6, <1>7, SettledApproved DEF Calm, old
  <2>3. Rules(requests', balances, options, k)
    BY <1>4, <1>5, <2>1, <2>2 DEF Rules
  <2> QED BY <1>1, <2>1, <2>3, AloneRules
<1>8. CASE new.status # "approved" /\ Return(c)
  <2>1. \A a \in Accounts : Share(new, a) = 0 /\ Share(old, a) = 0
    BY <1>6, <1>8, NoShare
  <2>2. Settled(requests', balances)
    BY <1>2, <1>3, <2>1, SettledSame DEF Calm
  <2> QED BY <1>1, <1>4, <1>5, <1>8, <2>2, ReturnedRules DEF Calm
<1> QED BY <1>7, <1>8 DEF Save

-----------------------------------------------------------------------------
(* Charging *)

\* What waits, or was just approved, can be paid.
LEMMA ApprovedCanPay ==
  ASSUME SInv, NEW a \in Accounts, NEW cost \in Nat, Fair(requests, balances),
         balances[a].used + cost <= Granted(requests, a) + Waiting(requests, a)
  PROVE  CanPay(balances[a], cost)
<1>1. Granted(requests, a) + Waiting(requests, a) <= TokensPerYear + balances[a].boost
  BY DEF Fair
<1>2. /\ Granted(requests, a) \in Nat /\ Waiting(requests, a) \in Nat /\ TokensPerYear \in Nat
      /\ balances[a].used \in Nat /\ balances[a].boost \in Nat
  BY Tables, SumType, AmountsAssumption DEF Granted, Waiting, Balance
<1> QED BY <1>1, <1>2 DEF CanPay, Remaining

LEMMA DeductRules ==
  ASSUME OneAtATime, SInv, NEW c \in Calls, Deduct(c)
  PROVE  RulesOK'
<1> DEFINE row == call[c].row
           a == Account(row)
           new == [balances[a] EXCEPT !.used = @ + row.cost]
           ledger == {[account |-> a, balance |-> new]}
           k == [Idle EXCEPT !.step = "charge", !.ledger = ledger]
<1>1. /\ requests' = requests /\ balances' = balances /\ options' = options
      /\ call[c].step = "deduct"
  BY DEF Deduct, db
<1>2. /\ Good(row) /\ a \in Accounts /\ row.cost \in Nat
      /\ Rules(requests, balances, options, call[c])
      /\ requests \in [Requests -> Row] /\ balances \in [Accounts -> Balance]
  BY <1>1, InHandNow, Tables DEF Good, Row
<1>3. /\ Fair(requests, balances) /\ Settled(requests, Charge(balances, a, row.cost))
      /\ \A q \in Requests : ~SkipsHr(requests, options, q)
  BY <1>1, <1>2 DEF Rules
<1>4. CanPay(balances[a], row.cost)
  <2>1. balances[a].used + row.cost = Granted(requests, a)
    BY <1>2, <1>3 DEF Settled, Charge, Balance
  <2>2. Granted(requests, a) \in Nat /\ Waiting(requests, a) \in Nat
    BY <1>2, SumType DEF Granted, Waiting
  <2> HIDE DEF a, row
  <2>3. balances[a].used + row.cost <= Granted(requests, a) + Waiting(requests, a)
    BY <2>1, <2>2
  <2> QED BY <1>2, <1>3, <2>3, ApprovedCanPay
<1>5. call' = [call EXCEPT ![c] = k]
  BY <1>4 DEF Deduct
<1>6. Settled(requests, [balances EXCEPT ![a] = new])
  BY <1>2, <1>3 DEF Settled, Charge, Balance
<1>7. \A l \in ledger : l.account = a /\ l.balance = new
  OBVIOUS
<1> HIDE DEF a, row, new, ledger
<1>8. k.step = "charge" /\ k.ledger = ledger
  BY DEF Idle
<1> HIDE DEF k
<1>9. Rules(requests, balances, options, k)
  BY <1>3, <1>6, <1>7, <1>8 DEF Rules
<1> QED BY <1>1, <1>5, <1>9, AloneRules

LEMMA UpdateBoostRules ==
  ASSUME OneAtATime, SInv, NEW c \in Calls, NEW a \in Accounts, UpdateBoost(c, a)
  PROVE  RulesOK'
<1>1. PICK boost \in Boosts :
        call' = [call EXCEPT ![c] =
                  [Idle EXCEPT !.step = "charge",
                     !.ledger = {[account |-> a,
                                  balance |-> [balances[a] EXCEPT !.boost = boost]]}]]
  BY DEF UpdateBoost
<1> DEFINE new == [balances[a] EXCEPT !.boost = boost]
           ledger == {[account |-> a, balance |-> new]}
           k == [Idle EXCEPT !.step = "charge", !.ledger = ledger]
<1>2. requests' = requests /\ balances' = balances /\ options' = options
  BY DEF UpdateBoost, db
<1>3. balances \in [Accounts -> Balance] /\ Calm(requests, balances, options)
  BY Tables, CalmNow DEF UpdateBoost, Free, Quiet
<1>4. Settled(requests, [balances EXCEPT ![a] = new])
  BY <1>3 DEF Calm, Settled, Balance
<1>5. /\ call' = [call EXCEPT ![c] = k]
      /\ \A l \in ledger : l.account = a /\ l.balance = new
  BY <1>1
<1> HIDE DEF new, ledger
<1>6. k.step = "charge" /\ k.ledger = ledger
  BY DEF Idle
<1> HIDE DEF k
<1>7. Rules(requests, balances, options, k)
  BY <1>3, <1>4, <1>5, <1>6 DEF Rules, Calm
<1> QED BY <1>2, <1>5, <1>7, AloneRules

LEMMA SaveBalanceRules ==
  ASSUME OneAtATime, SInv, BoostsStand, NEW c \in Calls, SaveBalance(c)
  PROVE  RulesOK'
<1>1. PICK l \in call[c].ledger : balances' = [balances EXCEPT ![l.account] = l.balance]
  BY DEF SaveBalance
<1>2. /\ requests' = requests /\ options' = options /\ Return(c) /\ call[c].step = "charge"
      /\ Rules(requests, balances, options, call[c])
  BY DEF SaveBalance, SInv, RulesOK
<1>3. /\ requests \in [Requests -> Row] /\ balances \in [Accounts -> Balance]
      /\ balances' \in [Accounts -> Balance]
  BY <1>1, Tables DEF CallState, LedgerEntry
<1>4. Settled(requests, balances')
  BY <1>1, <1>2 DEF Rules
<1>5. Fair(requests, balances')
  BY <1>2, <1>3, FairBoosted DEF Rules, BoostsStand
<1> QED BY <1>2, <1>4, <1>5, ReturnedRules DEF Rules, Calm

LEMMA RemindOneRules ==
  ASSUME OneAtATime, SInv, NEW c \in Calls, RemindOne(c)
  PROVE  RulesOK'
<1>1. PICK l \in call[c].ledger :
        /\ balances' = balances \/ balances' = [balances EXCEPT ![l.account] = l.balance]
        /\ call' = [call EXCEPT ![c].ledger = @ \ {l}]
  BY DEF RemindOne
<1>2. /\ l.account \in Accounts /\ balances \in [Accounts -> Balance] /\ call[c] \in CallState
      /\ l.balance = balances[l.account]
  BY DEF RemindOne, SInv, CInv, RInv, IInv, TypeOK, CallState, LedgerEntry, LedgersOK, LedgerOK
<1>3. /\ balances' = balances /\ requests' = requests /\ options' = options
      /\ call[c].step = "remind"
  BY <1>1, <1>2 DEF RemindOne
<1>4. Calm(requests, balances, options)
  BY <1>3, CalmNow DEF Quiet
<1> DEFINE k == [call[c] EXCEPT !.ledger = @ \ {l}]
<1>5. k.step \in Quiet /\ call' = [call EXCEPT ![c] = k]
  BY <1>1, <1>2, <1>3 DEF CallState, Quiet
<1> HIDE DEF k
<1> QED BY <1>3, <1>4, <1>5, QuietRules

-----------------------------------------------------------------------------
(* Options, and the loops over rows *)

LEMMA SetRequiresHrRules ==
  ASSUME OneAtATime, SInv, NEW c \in Calls, NEW t \in Offered, SetRequiresHr(c, t)
  PROVE  RulesOK'
<1>1. PICK b \in BOOLEAN :
        /\ options' = [options EXCEPT ![t].requiresHr = b]
        /\ IF options[t].requiresHr /\ ~b
           THEN call' = [call EXCEPT ![c] =
                          [Idle EXCEPT !.step = "finalize", !.todo = Stranded(t)]]
           ELSE UNCHANGED call
  BY DEF SetRequiresHr
<1> DEFINE todo == Stranded(t)
           k == [Idle EXCEPT !.step = "finalize", !.todo = todo]
<1>2. /\ requests' = requests /\ balances' = balances
      /\ call[c].step \in Quiet /\ call[c].step = "idle"
      /\ Calm(requests, balances, options)
      /\ options \in [OptionTypes -> [requiresHr : BOOLEAN, active : BOOLEAN]]
      /\ t \in OptionTypes /\ call \in [Calls -> CallState]
  BY CalmNow, Tables, RequestsAssumption DEF SetRequiresHr, Free, Quiet
<1>3. ASSUME NEW r \in Requests, requests[r].status = "manager_approved",
             ~options'[requests[r].type].requiresHr
      PROVE  requests[r].type = t /\ options[t].requiresHr /\ ~b
  <2>1. options[requests[r].type].requiresHr
    BY <1>2, <1>3 DEF Calm, SkipsHr
  <2>2. Good(requests[r])
    BY <1>3, Tables, Submitted DEF Statuses, Pipeline
  <2>3. requests[r].type \in OptionTypes
    BY <2>2 DEF Good
  <2> QED BY <1>1, <1>2, <1>3, <2>1, <2>3
<1>4. CASE options[t].requiresHr /\ ~b
  <2>1. ASSUME NEW r \in Requests, SkipsHr(requests, options', r)
        PROVE  \E s \in todo : s.id = r
    <3>1. requests[r].type = t /\ requests[r].status = "manager_approved"
      BY <1>3, <2>1 DEF SkipsHr
    <3>2. [id |-> r, row |-> requests[r]] \in todo
      BY <3>1 DEF Stranded
    <3> QED BY <3>2
  <2>2. call' = [call EXCEPT ![c] = k]
    BY <1>1, <1>4
  <2> HIDE DEF todo
  <2>3. k.step = "finalize" /\ k.todo = todo
    BY DEF Idle
  <2> HIDE DEF k
  <2>4. Rules(requests, balances, options', k)
    BY <1>2, <2>1, <2>3 DEF Rules, Calm
  <2> QED BY <1>2, <2>2, <2>4, AloneRules
<1>5. CASE ~(options[t].requiresHr /\ ~b)
  <2>1. \A r \in Requests : ~SkipsHr(requests, options', r)
    BY <1>3, <1>5 DEF SkipsHr
  <2>2. call' = call /\ call' = [call EXCEPT ![c] = call[c]]
    BY <1>1, <1>2, <1>5
  <2>3. Calm(requests', balances', options')
    BY <1>2, <2>1 DEF Calm
  <2> QED BY <1>2, <2>2, <2>3, QuietRules
<1> QED BY <1>4, <1>5

LEMMA ToggleOptionRules ==
  ASSUME OneAtATime, SInv, NEW c \in Calls, NEW t \in Offered, ToggleOption(c, t)
  PROVE  RulesOK'
<1>1. /\ requests' = requests /\ balances' = balances /\ call' = call
      /\ options' = [options EXCEPT ![t].active = ~@]
      /\ call[c].step \in Quiet /\ Calm(requests, balances, options)
      /\ call' = [call EXCEPT ![c] = call[c]]
  BY CalmNow, Tables DEF ToggleOption, Free, Quiet
<1>2. ASSUME NEW r \in Requests PROVE ~SkipsHr(requests, options', r)
  <2> SUFFICES ASSUME requests[r].status = "manager_approved"
               PROVE  options'[requests[r].type].requiresHr
    BY DEF SkipsHr
  <2>1. options[requests[r].type].requiresHr
    BY <1>1 DEF Calm, SkipsHr
  <2>2. Good(requests[r])
    BY Tables, Submitted DEF Statuses, Pipeline
  <2>3. requests[r].type \in OptionTypes
    BY <2>2 DEF Good
  <2> QED BY <1>1, <2>1, <2>3, Tables
<1>3. Calm(requests', balances', options')
  BY <1>1, <1>2 DEF Calm
<1> QED BY <1>1, <1>3, QuietRules

LEMMA LoopsRules ==
  ASSUME OneAtATime, SInv, NEW c \in Calls, TokenReminder(c) \/ SlaSweep(c)
  PROVE  RulesOK'
<1>1. /\ requests' = requests /\ balances' = balances /\ options' = options
      /\ Calm(requests, balances, options)
  BY CalmNow DEF TokenReminder, SlaSweep, Free, Quiet, db
<1>2. CASE TokenReminder(c)
  <2>1. PICK ledger : call' = [call EXCEPT ![c] =
                                [Idle EXCEPT !.step = "remind", !.ledger = ledger]]
    BY <1>2 DEF TokenReminder
  <2> DEFINE k == [Idle EXCEPT !.step = "remind", !.ledger = ledger]
  <2>2. k.step \in Quiet /\ call' = [call EXCEPT ![c] = k]
    BY <2>1 DEF Idle, Quiet
  <2> HIDE DEF k
  <2> QED BY <1>1, <2>2, QuietRules
<1>3. CASE SlaSweep(c)
  <2>1. PICK todo : call' = [call EXCEPT ![c] = [Idle EXCEPT !.step = "sweep", !.todo = todo]]
    BY <1>3 DEF SlaSweep
  <2> DEFINE k == [Idle EXCEPT !.step = "sweep", !.todo = todo]
  <2>2. k.step \in Quiet /\ call' = [call EXCEPT ![c] = k]
    BY <2>1 DEF Idle, Quiet
  <2> HIDE DEF k
  <2> QED BY <1>1, <2>2, QuietRules
<1> QED BY <1>2, <1>3

\* The employee of a stranded request can always pay, so none is skipped.
LEMMA FinalizeOneRules ==
  ASSUME OneAtATime, SInv, NEW c \in Calls, FinalizeOne(c)
  PROVE  RulesOK'
<1>1. PICK s \in call[c].todo :
        /\ IF CanPay(balances[Account(s.row)], s.row.cost)
           THEN /\ requests' = [requests EXCEPT ![s.id] = PolicyApproved(s.row)]
                /\ balances' = [balances EXCEPT ![Account(s.row)].used = @ + s.row.cost]
           ELSE UNCHANGED <<requests, balances>>
        /\ call' = [call EXCEPT ![c].todo = @ \ {s}]
  BY DEF FinalizeOne
<1> DEFINE old == s.row
           r == s.id
           a == Account(old)
           new == PolicyApproved(old)
           k == [call[c] EXCEPT !.todo = @ \ {s}]
<1>2. /\ call[c].step = "finalize" /\ options' = options
      /\ r \in Requests /\ old = requests[r] /\ Good(old) /\ old.status = "manager_approved"
      /\ Rules(requests, balances, options, call[c])
  BY Visiting, Tables DEF FinalizeOne, SInv, RulesOK
<1>3. /\ requests \in [Requests -> Row] /\ balances \in [Accounts -> Balance]
      /\ call \in [Calls -> CallState]
      /\ old \in Row /\ a \in Accounts /\ old.cost \in Nat
  BY <1>2, Tables DEF Good, Row
<1>4. /\ Fair(requests, balances) /\ Settled(requests, balances)
      /\ \A q \in Requests : SkipsHr(requests, options, q) => \E t \in call[c].todo : t.id = q
  BY <1>2 DEF Rules
<1>5. Kin(old, new) /\ new.status = "approved" /\ Good(new)
  <2>1. Kin(old, new)
    BY <1>2, <1>3, DecisionsKin DEF Pipeline
  <2>2. new.status = "approved"
    BY <1>3 DEF PolicyApproved, Row
  <2>3. Good(new)
    BY <1>2, GoodPolicyApproved
  <2> QED BY <2>1, <2>2, <2>3
<1>6. CanPay(balances[a], old.cost)
  <2>1. PICK rest \in Nat : Waiting(requests, a) = rest + Part(old, a, Types, Pipeline)
    BY <1>2, <1>3, SumMoves DEF Waiting
  <2>2. Part(old, a, Types, Pipeline) = old.cost
    BY <1>2 DEF Part, Good, Types, Pipeline
  <2>3. balances[a].used = Granted(requests, a) /\ Granted(requests, a) \in Nat
    BY <1>3, <1>4, SumType DEF Settled, Granted
  <2> HIDE DEF old, a
  <2>4. balances[a].used + old.cost <= Granted(requests, a) + Waiting(requests, a)
    BY <1>3, <2>1, <2>2, <2>3
  <2> QED BY <1>3, <1>4, <2>4, ApprovedCanPay
<1>7. /\ requests' = [requests EXCEPT ![r] = new]
      /\ balances' = [balances EXCEPT ![a].used = @ + old.cost]
  BY <1>1, <1>6
<1>8. /\ requests' \in [Requests -> Row] /\ requests'[r] = new
      /\ \A q \in Requests : q # r => requests'[q] = requests[q]
  BY <1>2, <1>3, <1>5, <1>7 DEF Good
<1>9. balances' = Charge(balances, Account(new), new.cost)
  BY <1>5, <1>7 DEF Charge, Kin
<1>10. /\ balances' \in [Accounts -> Balance]
       /\ \A b \in Accounts : balances'[b].boost >= balances[b].boost
  BY <1>3, <1>7 DEF Balance
<1>11. k.step = "finalize" /\ k.todo = call[c].todo \ {s} /\ call' = [call EXCEPT ![c] = k]
  BY <1>1, <1>2, <1>3 DEF CallState
<1>12. Settled(requests', balances')
  <2>1. requests[r].status # "approved" /\ requests'[r].status = "approved"
    BY <1>2, <1>5, <1>8
  <2>2. Settled(requests', Charge(balances, Account(requests'[r]), requests'[r].cost))
    BY <1>2, <1>3, <1>4, <1>8, <2>1, SettledApproved
  <2> QED BY <1>8, <1>9, <2>2
<1>13. Fair(requests', balances')
  <2>1. Fair(requests', balances)
    BY <1>2, <1>3, <1>4, <1>5, <1>8, FairDecided DEF Kin
  <2> QED BY <1>3, <1>8, <1>10, <2>1, FairBoosted
<1>14. ASSUME NEW q \in Requests, SkipsHr(requests', options, q)
       PROVE  \E t \in k.todo : t.id = q
  <2>1. q # r
    BY <1>5, <1>8, <1>14 DEF SkipsHr
  <2>2. SkipsHr(requests, options, q)
    BY <1>8, <1>14, <2>1 DEF SkipsHr
  <2>3. PICK t \in call[c].todo : t.id = q
    BY <1>4, <2>2
  <2> QED BY <1>11, <2>1, <2>3
<1> HIDE DEF old, r, a, new, k
<1>15. Rules(requests', balances', options, k)
  BY <1>11, <1>12, <1>13, <1>14 DEF Rules
<1> QED BY <1>2, <1>11, <1>15, AloneRules

LEMMA SweepOneRules ==
  ASSUME OneAtATime, SInv, NEW c \in Calls, SweepOne(c)
  PROVE  RulesOK'
<1>1. PICK s \in call[c].todo :
        /\ \/ requests' = [requests EXCEPT ![s.id] = [s.row EXCEPT !.escalated = TRUE]]
           \/ requests' = [requests EXCEPT ![s.id] = [s.row EXCEPT !.reminded = TRUE]]
           \/ requests' = requests
        /\ call' = [call EXCEPT ![c].todo = @ \ {s}]
  BY DEF SweepOne
<1> DEFINE old == s.row
           r == s.id
           k == [call[c] EXCEPT !.todo = @ \ {s}]
<1>2. /\ call[c].step = "sweep" /\ options' = options /\ balances' = balances
      /\ r \in Requests /\ old = requests[r] /\ old \in Row
      /\ requests \in [Requests -> Row] /\ balances \in [Accounts -> Balance]
      /\ call \in [Calls -> CallState] /\ Calm(requests, balances, options)
  BY Visiting, Tables, CalmNow DEF SweepOne, Quiet, Good
<1>3. k.step \in Quiet /\ call' = [call EXCEPT ![c] = k]
  BY <1>1, <1>2 DEF CallState, Quiet
<1>4. \A new \in {[old EXCEPT !.escalated = TRUE], [old EXCEPT !.reminded = TRUE]} :
        /\ new \in Row /\ new.type = old.type /\ new.cost = old.cost
        /\ new.employee = old.employee /\ new.year = old.year /\ new.status = old.status
  BY <1>2 DEF Row
<1>5. CASE requests' = requests
  BY <1>2, <1>3, <1>5, QuietRules
<1>6. ASSUME NEW new \in Row, requests' = [requests EXCEPT ![r] = new],
             new.type = old.type, new.cost = old.cost, new.employee = old.employee,
             new.year = old.year, new.status = old.status
      PROVE  RulesOK'
  <2> HIDE DEF old, r, k
  <2>1. /\ requests' \in [Requests -> Row] /\ requests'[r] = new
        /\ \A q \in Requests : q # r => requests'[q] = requests[q]
    BY <1>2, <1>6
  <2>2. Account(new) = Account(old)
    BY <1>6 DEF Account
  <2>3. Fair(requests', balances)
    BY <1>2, <1>6, <2>1, <2>2, FairDecided DEF Calm
  <2>4. \A a \in Accounts : Share(new, a) = Share(old, a)
    BY <1>6, <2>2 DEF Share
  <2>5. Settled(requests', balances)
    BY <1>2, <2>1, <2>4, SettledSame DEF Calm
  <2>6. \A q \in Requests : ~SkipsHr(requests', options, q)
    BY <1>2, <1>6, <2>1 DEF Calm, SkipsHr
  <2> QED BY <1>2, <1>3, <2>3, <2>5, <2>6, QuietRules DEF Calm
<1> QED BY <1>1, <1>4, <1>5, <1>6

LEMMA ReturningRules ==
  ASSUME OneAtATime, SInv, NEW c \in Calls, LoopDone(c) \/ InsertSession(c)
  PROVE  RulesOK'
<1>1. requests' = requests /\ balances' = balances /\ options' = options /\ Return(c)
  BY DEF LoopDone, InsertSession, db
<1>2. Calm(requests, balances, options)
  <2>1. CASE call[c].step = "finalize"
    <3>1. call[c].todo = {}
      BY <2>1 DEF LoopDone, InsertSession
    <3> QED BY <2>1, <3>1 DEF SInv, RulesOK, Rules, Calm
  <2>2. CASE call[c].step # "finalize"
    <3>1. call[c].step \in Quiet
      BY <2>2 DEF LoopDone, InsertSession, Quiet
    <3> QED BY <3>1, CalmNow
  <2> QED BY <2>1, <2>2
<1> QED BY <1>1, <1>2, ReturnedRules

LEMMA BookSessionRules ==
  ASSUME OneAtATime, SInv, NEW c \in Calls, NEW r \in Requests, BookSession(c, r)
  PROVE  RulesOK'
<1> DEFINE k == [Idle EXCEPT !.step = "book", !.id = r, !.row = Vacant]
<1>1. /\ requests' = requests /\ balances' = balances /\ options' = options
      /\ Calm(requests, balances, options)
  BY CalmNow DEF BookSession, Free, Quiet, db
<1>2. k.step \in Quiet /\ call' = [call EXCEPT ![c] = k]
  BY DEF BookSession, Hold, Idle, Quiet
<1> HIDE DEF k
<1> QED BY <1>1, <1>2, QuietRules

-----------------------------------------------------------------------------
(* The rules stand *)

LEMMA RulesStay ==
  ASSUME OneAtATime, DecidedOnce, SInv, BoostsStand, [Next]_vars
  PROVE  RulesOK'
<1>1. "resubmit" \notin Ops /\ "undo" \notin Ops /\ "restart" \notin Ops
  BY DEF DecidedOnce
<1>2. ASSUME NEW c \in Calls, NEW r \in Requests, OnRequest(c, r) PROVE RulesOK'
  BY <1>1, <1>2, CreateRules, DecisionRules, BookSessionRules DEF OnRequest, Resubmit, Undo
<1>3. ASSUME NEW c \in Calls, OnTables(c) PROVE RulesOK'
  BY <1>3, UpdateBoostRules, SetRequiresHrRules, ToggleOptionRules, LoopsRules DEF OnTables
<1>4. ASSUME NEW c \in Calls, Continue(c) PROVE RulesOK'
  <2>1. ~Recheck(c)
    BY DEF Recheck, SInv, RulesOK, Rules
  <2> QED BY <1>4, <2>1, CheckNewRules, InsertRules, SaveRules, DeductRules, SaveBalanceRules,
             RemindOneRules, FinalizeOneRules, SweepOneRules, ReturningRules DEF Continue
<1>5. CASE Tick \/ NextYear \/ UNCHANGED vars
  <2>1. requests' = requests /\ balances' = balances /\ options' = options /\ call' = call
    BY <1>5 DEF Tick, NextYear, vars, db
  <2> QED BY <2>1 DEF SInv, RulesOK
<1>6. ~Restart
  BY <1>1 DEF Restart
<1> QED BY <1>2, <1>3, <1>4, <1>5, <1>6 DEF Next

LEMMA RulesStart == Init => RulesOK
<1> SUFFICES ASSUME Init PROVE RulesOK
  OBVIOUS
<1>1. requests \in [Requests -> Row] /\ \A r \in Requests : requests[r] = Vacant
  BY VacantOK DEF Init
<1>2. ASSUME NEW a, NEW T, NEW X, X \subseteq HeldStatuses
      PROVE  SumOf(requests, a, T, X) = 0
  <2>1. Chosen(requests, a, T, X) = {}
    BY <1>1, <1>2 DEF Chosen, Vacant, HeldStatuses, Pipeline
  <2> QED BY <2>1, CostEmpty DEF SumOf
<1>3. ASSUME NEW a
      PROVE  Subsidy(requests, a) = 0 /\ Waiting(requests, a) = 0 /\ Granted(requests, a) = 0
  BY <1>2 DEF Subsidy, Waiting, Granted, HeldStatuses
<1>4. Fair(requests, balances)
  <2>1. \A q, r \in Requests : ~Rival(requests[q], requests[r])
    BY <1>1 DEF Rival, Vacant, HeldStatuses, Pipeline
  <2>2. \A a \in Accounts : balances[a].boost = 0
    BY DEF Init
  <2> QED BY <1>3, <2>1, <2>2, AmountsAssumption DEF Fair
<1>5. Calm(requests, balances, options)
  BY <1>1, <1>3, <1>4 DEF Init, Calm, Settled, SkipsHr, Vacant
<1>6. Idle.step \in Quiet /\ \A c \in Calls : call[c] = Idle
  BY DEF Init, Idle, Quiet
<1> QED BY <1>5, <1>6, CalmRules DEF RulesOK

\* The inductive invariant of the rules, with handlers served one at a time.
THEOREM RulesStand ==
  ASSUME OneAtATime, DecidedOnce
  PROVE  Spec /\ BoostsOnlyGrow => []SInv
<1>1. CInv /\ RulesOK /\ [Next]_vars /\ [BoostsStand]_vars => RulesOK'
  <2>1. SInv /\ UNCHANGED vars => BoostsStand
    BY Tables DEF vars, Balance, BoostsStand
  <2> QED BY <2>1, RulesStay DEF SInv
<1>2. SInv <=> CInv /\ RulesOK
  BY DEF SInv
<1> QED BY <1>1, <1>2, RulesStart, SerialCharges, PTL DEF Spec, BoostsOnlyGrow

LEMMA AtRest ==
  ASSUME SInv, \A c \in Calls : Free(c)
  PROVE  Calm(requests, balances, options)
<1>1. CASE Calls = {}
  <2>1. Idle.step \in Quiet
    BY DEF Idle, Quiet
  <2> QED BY <1>1, <2>1, RulesCalm DEF SInv, RulesOK
<1>2. ASSUME NEW c \in Calls PROVE Calm(requests, balances, options)
  BY CalmNow DEF Free, Quiet
<1> QED BY <1>1, <1>2

\* With handlers served one at a time, requests decided once and boosts not lowered, the
\* rules that a submission is checked against hold from then on.
THEOREM SerialRules ==
  ASSUME OneAtATime, DecidedOnce
  PROVE  Spec /\ BoostsOnlyGrow => []SubmissionRulesHold
<1>1. "resubmit" \notin Ops
  BY DEF DecidedOnce
<1>2. SInv /\ CoachIsFirstApprover => SubmissionRulesHold
  <2> SUFFICES ASSUME SInv, CoachIsFirstApprover PROVE SubmissionRulesHold
    OBVIOUS
  <2>1. /\ requests \in [Requests -> Row] /\ balances \in [Accounts -> Balance]
        /\ Covered(requests, balances)
    BY Tables DEF SInv, CInv, ChargesOK
  <2>2. Fair(requests, balances)
    <3>1. CASE Calls = {}
      BY <3>1, AtRest DEF Calm
    <3>2. ASSUME NEW c \in Calls PROVE Fair(requests, balances)
      BY DEF SInv, RulesOK, Rules
    <3> QED BY <3>1, <3>2
  <2>3. PipelineFunded
    <3> SUFFICES ASSUME NEW e \in Employees, NEW y \in Years
                 PROVE  Committed(e, y) <= Remaining(balances[<<e, y>>])
      BY DEF PipelineFunded
    <3> DEFINE a == <<e, y>>
    <3>1. a \in Accounts /\ Committed(e, y) = Waiting(requests, a)
      BY <2>1, CommittedIs DEF Accounts
    <3> HIDE DEF a
    <3>2. /\ Granted(requests, a) + Waiting(requests, a) <= TokensPerYear + balances[a].boost
          /\ balances[a].used <= Granted(requests, a)
      BY <2>1, <2>2, <3>1, GrantedIs DEF Fair, Covered
    <3>3. /\ Granted(requests, a) \in Nat /\ Waiting(requests, a) \in Nat /\ TokensPerYear \in Nat
          /\ balances[a].used \in Nat /\ balances[a].boost \in Nat
      BY <2>1, <3>1, SumType, AmountsAssumption DEF Granted, Waiting, Balance
    <3>4. Waiting(requests, a) <= Remaining(balances[a])
      BY <3>2, <3>3 DEF Remaining
    <3> QED BY <3>1, <3>4 DEF a
  <2>4. UsageAddsUp
    <3> SUFFICES ASSUME \A c \in Calls : Free(c), NEW a \in Accounts
                 PROVE  balances[a].used = ApprovedCost(a)
      BY DEF UsageAddsUp
    <3> QED BY <2>1, AtRest, ApprovedCostIs, GrantedIs DEF Calm, Settled
  <2>5. SubsidyWithinCap
    BY <2>2, SubsidiesAre DEF SubsidyWithinCap, Fair
  <2>6. OneProjectPerYear /\ OneCoachingInPipeline
    BY <2>2 DEF OneProjectPerYear, OneCoachingInPipeline, Fair, Rival, Held, HeldStatuses
  <2> QED BY <2>3, <2>4, <2>5, <2>6 DEF SubmissionRulesHold
<1> QED BY <1>1, <1>2, RulesStand, CoachAlwaysFirst, PTL

\* Under the same conditions whatever waits is in the queue of somebody who may decide
\* it, nothing waits for HR that skips HR, and HR's history is that of its decisions.
THEOREM SerialViews ==
  ASSUME OneAtATime, DecidedOnce
  PROVE  Spec /\ BoostsOnlyGrow => []ViewsFollowRequests
<1>1. SInv => NobodyWaitsOnSkippedHr
  BY AtRest DEF NobodyWaitsOnSkippedHr, Calm, SkipsHr
<1>2. QueuesAreDecidable /\ HistoryFollowsDecisions /\ NobodyWaitsOnSkippedHr
        => ViewsFollowRequests
  BY DEF ViewsFollowRequests
<1> QED BY <1>1, <1>2, RulesStand, QueuesAlwaysDecidable, HistoryAlwaysFollows, PTL

LEMMA ChecksLeaveRoom ==
  ASSUME OneAtATime, SInv, [Next]_vars
  PROVE  PassedWithRoom
<1> SUFFICES ASSUME NEW c \in Calls,
                    Passed(c, "check", "insert") \/ Passed(c, "recheck", "save")
             PROVE  LET row == call'[c].row IN
                    Committed(row.employee, row.year) + row.cost
                      <= Remaining(balances[Account(row)])
  BY DEF PassedWithRoom
<1>1. call[c].step = "check" /\ call'[c].step = "insert"
  BY DEF Passed, SInv, RulesOK, Rules
<1>2. CheckNew(c)
  <2>1. ~Free(c) /\ call' # call
    BY <1>1 DEF Free
  <2>2. ASSUME NEW d \in Calls, NEW r \in Requests PROVE ~OnRequest(d, r)
    BY <2>1, RequestsWait DEF OneAtATime
  <2>3. ASSUME NEW d \in Calls PROVE ~OnTables(d)
    BY <2>1 DEF OneAtATime, OnTables, UpdateBoost, SetRequiresHr, ToggleOption, TokenReminder,
               SlaSweep
  <2>4. ~Tick /\ ~NextYear /\ ~UNCHANGED vars
    BY <2>1 DEF Tick, NextYear, vars
  <2>5. ~Restart
    BY <1>1 DEF Restart, Idle
  <2>6. Continue(c)
    BY <2>2, <2>3, <2>4, <2>5 DEF Next, OneAtATime
  <2> QED BY <1>1, <2>6 DEF Continue, Insert, Recheck, Save, Deduct, SaveBalance, RemindOne,
                            FinalizeOne, SweepOne, LoopDone, InsertSession
<1>3. Hold(c, "insert", call[c].id, call[c].row) /\ Allowed(call[c].row)
      /\ \A l \in call[c].ledger :
           Spendable(l.balance, call[c].row.employee, call[c].row.year) >= call[c].row.cost
  <2>1. call \in [Calls -> CallState]
    BY Tables
  <2>2. ~Return(c)
    BY <1>1, <2>1 DEF Return, Idle
  <2> QED BY <1>2, <2>2 DEF CheckNew
<1>4. call'[c].row = call[c].row
  BY <1>3, Tables DEF Hold, Idle
<1> QED BY <1>1, <1>3, <1>4, ChecksMean

\* A submission that passes its checks leaves room for what already waits.
THEOREM SerialChecks ==
  ASSUME OneAtATime, DecidedOnce
  PROVE  Spec /\ BoostsOnlyGrow => ChecksSubtractCommitted
<1>1. SInv /\ [Next]_vars => PassedWithRoom
  BY ChecksLeaveRoom
<1> QED BY <1>1, RulesStand, PTL DEF Spec, ChecksSubtractCommitted

-----------------------------------------------------------------------------
(* A changed subsidy is checked again, whatever runs beside it *)

\* The query of the cap leaves nothing out that the rule counts.
LEMMA OthersCounted ==
  ASSUME requests \in [Requests -> Row], NEW e, NEW y, NEW r
  PROVE  /\ TotalCost(Subsidies(<<e, y>>) \ {r}) <= SubsidyHeld(e, y, {r})
         /\ TotalCost(Subsidies(<<e, y>>) \ {r}) \in Nat
         /\ SubsidyHeld(e, y, {r}) \in Nat
<1> DEFINE S == {q \in RequestsOf(e) \ {r} :
                   /\ requests[q].type = "learning_subsidy"
                   /\ requests[q].year = y
                   /\ requests[q].status \notin {"cancelled", "rejected"}}
           P == Subsidies(<<e, y>>) \ {r}
<1>1. P \in SUBSET S
  BY DEF Subsidies, Held, RequestsOf, Account, Pipeline
<1>2. IsFiniteSet(S) /\ \A q \in S : requests[q].cost \in Nat
  BY KeysAssumption, FS_Subset DEF RequestsOf, Row
<1>3. SubsidyHeld(e, y, {r}) = Cost(requests, S) /\ TotalCost(P) = Cost(requests, P)
  BY TotalIsCost DEF SubsidyHeld
<1> HIDE DEF S, P
<1>4. Cost(requests, P) <= Cost(requests, S) /\ Cost(requests, S) \in Nat
  BY <1>1, <1>2, CostPart, CostType
<1>5. IsFiniteSet(P) /\ \A q \in P : requests[q].cost \in Nat
  BY <1>1, <1>2, FS_Subset
<1>6. Cost(requests, P) \in Nat
  BY <1>5, CostType
<1> QED BY <1>3, <1>4, <1>6 DEF P

\* Only its own recheck takes a call from there to the save.
LEMMA RecheckPasses ==
  ASSUME IInv, [Next]_vars, NEW c \in Calls, Passed(c, "recheck", "save")
  PROVE  Recheck(c)
<1>1. call \in [Calls -> CallState]
  BY DEF IInv, TypeOK
<1>2. call[c].step = "recheck" /\ call'[c].step = "save" /\ ~Free(c)
  BY DEF Passed, Free
<1>3. ASSUME NEW d \in Calls, NEW k, call' = [call EXCEPT ![d] = k] PROVE d = c
  BY <1>1, <1>2, <1>3
<1>4. ~UNCHANGED call /\ call' # [d \in Calls |-> Idle]
  BY <1>2 DEF Idle
<1>5. ASSUME NEW d \in Calls, NEW r \in Requests, OnRequest(d, r) PROVE FALSE
  <2>1. ASSUME NEW step, NEW row, Hold(d, step, r, row) PROVE d = c
    BY <1>3, <2>1 DEF Hold
  <2>2. CASE Create(d, r)
    <3>1. Free(d) /\ \E k : call' = [call EXCEPT ![d] = k]
      BY <2>2, Zenon DEF Create
    <3> QED BY <1>2, <1>3, <3>1
  <2>3. CASE ManagerApprove(d, r)
    BY <1>2, <2>1, <2>3, Zenon DEF ManagerApprove
  <2>4. CASE HrApprove(d, r)
    BY <1>2, <2>1, <2>4, Zenon DEF HrApprove
  <2>5. CASE Reject(d, r)
    BY <1>2, <2>1, <2>5, Zenon DEF Reject
  <2>6. CASE Cancel(d, r)
    BY <1>2, <2>1, <2>6, Zenon DEF Cancel
  <2>7. CASE Resubmit(d, r)
    BY <1>2, <2>1, <2>7, Zenon DEF Resubmit
  <2>8. CASE \E actor \in Users : Undo(d, r, actor)
    BY <1>4, <2>8 DEF Undo
  <2>9. CASE BookSession(d, r)
    BY <1>2, <2>1, <2>9, Zenon DEF BookSession
  <2> QED BY <1>5, <2>2, <2>3, <2>4, <2>5, <2>6, <2>7, <2>8, <2>9 DEF OnRequest
<1>6. ASSUME NEW d \in Calls, OnTables(d) PROVE FALSE
  <2>1. CASE \E a \in Accounts : UpdateBoost(d, a)
    <3>1. Free(d) /\ \E k : call' = [call EXCEPT ![d] = k]
      BY <2>1, Zenon DEF UpdateBoost
    <3> QED BY <1>2, <1>3, <3>1
  <2>2. CASE \E t \in Offered : SetRequiresHr(d, t)
    <3>1. Free(d) /\ (UNCHANGED call \/ \E k : call' = [call EXCEPT ![d] = k])
      BY <2>2, Zenon DEF SetRequiresHr
    <3> QED BY <1>2, <1>3, <1>4, <3>1
  <2>3. CASE \E t \in Offered : ToggleOption(d, t)
    BY <1>4, <2>3 DEF ToggleOption
  <2>4. CASE TokenReminder(d)
    <3>1. Free(d) /\ \E k : call' = [call EXCEPT ![d] = k]
      BY <2>4, Zenon DEF TokenReminder
    <3> QED BY <1>2, <1>3, <3>1
  <2>5. CASE SlaSweep(d)
    <3>1. Free(d) /\ \E k : call' = [call EXCEPT ![d] = k]
      BY <2>5, Zenon DEF SlaSweep
    <3> QED BY <1>2, <1>3, <3>1
  <2> QED BY <1>6, <2>1, <2>2, <2>3, <2>4, <2>5 DEF OnTables
<1>7. ASSUME NEW d \in Calls, Continue(d) PROVE Recheck(c)
  <2>1. \E k : call' = [call EXCEPT ![d] = k]
    BY <1>7 DEF Continue, CheckNew, Insert, Recheck, Save, Deduct, SaveBalance, RemindOne,
               FinalizeOne, SweepOne, LoopDone, InsertSession, Hold, Return
  <2>2. d = c
    BY <1>3, <2>1
  <2> QED BY <1>2, <1>7, <2>2 DEF Continue, CheckNew, Insert, Save, Deduct, SaveBalance,
                                  RemindOne, FinalizeOne, SweepOne, LoopDone, InsertSession
<1>8. ~Tick /\ ~NextYear /\ ~Restart /\ ~UNCHANGED vars
  BY <1>4 DEF Tick, NextYear, Restart, vars
<1> QED BY <1>5, <1>6, <1>7, <1>8 DEF Next

\* A request is edited in the year it belongs to.
RecheckedInItsYear ==
  \A c \in Calls : call[c].step = "recheck" => call[c].row.year = year

LEMMA RecheckLeavesRoom ==
  ASSUME IInv, RecheckedInItsYear, [Next]_vars
  PROVE  RecheckedWithinCap
<1> SUFFICES ASSUME NEW c \in Calls, Passed(c, "recheck", "save")
             PROVE  LET row == call'[c].row IN
                    TotalCost(Subsidies(Account(row)) \ {call[c].id}) + row.cost <= MaxSubsidy
  BY DEF RecheckedWithinCap
<1> DEFINE row == call[c].row
           others == Subsidies(<<row.employee, row.year>>) \ {call[c].id}
<1>1. Recheck(c) /\ call[c].step = "recheck" /\ call'[c].step = "save"
  BY RecheckPasses DEF Passed
<1>2. /\ requests \in [Requests -> Row] /\ call \in [Calls -> CallState]
      /\ row \in Row /\ row.year = year
  BY <1>1 DEF IInv, TypeOK, CallState, RecheckedInItsYear
<1>3. /\ SubsidyHeld(row.employee, row.year, {call[c].id}) + row.cost <= MaxSubsidy
      /\ Hold(c, "save", call[c].id, row)
  <2>1. ~Return(c)
    BY <1>1, <1>2 DEF Return, Idle
  <2> QED BY <1>1, <1>2, <2>1 DEF Recheck
<1>4. call'[c].row = row
  BY <1>2, <1>3 DEF Hold, Idle
<1>5. /\ TotalCost(others) <= SubsidyHeld(row.employee, row.year, {call[c].id})
      /\ TotalCost(others) \in Nat /\ SubsidyHeld(row.employee, row.year, {call[c].id}) \in Nat
  BY <1>2, OthersCounted
<1>6. row.cost \in Nat /\ MaxSubsidy \in Nat
  BY <1>2, AmountsAssumption DEF Row
<1>7. others = Subsidies(Account(call'[c].row)) \ {call[c].id}
  BY <1>4 DEF Account
<1> HIDE DEF row, others
<1>8. TotalCost(others) + row.cost <= MaxSubsidy
  BY <1>3, <1>5, <1>6
<1> QED BY <1>4, <1>7, <1>8

\* Whatever handlers are at work beside it: as long as requests are edited in the year
\* they belong to, a changed subsidy that passes its recheck fits in the yearly cap.
THEOREM RechecksKeepCap == Spec /\ []RecheckedInItsYear => RecheckKeepsCap
<1>1. IInv /\ RecheckedInItsYear /\ [Next]_vars => RecheckedWithinCap
  BY RecheckLeavesRoom
<1> QED BY <1>1, Inductive, PTL DEF Spec, RecheckKeepsCap

=============================================================================
