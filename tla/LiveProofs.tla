------------------------------- MODULE LiveProofs -------------------------------
(***************************************************************************)
(* What the server does on its own, for any number of users, tabs,         *)
(* notices, roles and requests in flight: nothing unread is kept from an   *)
(* open tab, a stay in a stage is mailed about once, nobody is told twice  *)
(* of a comment, an employee's entries tell of decisions that stand, and   *)
(* the suggestions of a role are one answer of the model. Each part has an *)
(* inductive invariant of its own; at the end they are put together.       *)
(***************************************************************************)
EXTENDS Live, FiniteSetTheorems, TLAPS

-----------------------------------------------------------------------------
(* The streams: between the answer of the query and its replay a tab has not  *)
(* got what was found, so the invariant counts that too.                      *)

\* What the tab has, will have, or has been refused for the limit.
Coming(t) ==
  known[t] \cup pushing \cup older[t]
    \cup (IF replay[t] \in {NotFetched, Sent} THEN {} ELSE replay[t])

\* The inductive invariant: from the query on, nothing unread is missing.
Reached == \A t \in streams : replay[t] # NotFetched => Unread \subseteq Coming(t)

StreamInv == TypeOK /\ Reached

LEMMA MarksAreNoRows == NotFetched # Sent /\ \A S \in SUBSET Ids : S \notin {NotFetched, Sent}
  BY IdsAssumption DEF NotFetched, Sent

LEMMA StreamsStart == Init => StreamInv
  BY DEF Init, StreamInv, TypeOK, Reached

LEMMA TypeStays == TypeOK /\ [Next]_vars => TypeOK'
<1> SUFFICES ASSUME TypeOK, [Next]_vars PROVE TypeOK'
  OBVIOUS
<1>1. ASSUME NEW n \in Ids, Create(n) \/ Push(n) \/ MarkRead(n) \/ SaveRead(n) PROVE TypeOK'
  BY <1>1 DEF TypeOK, Create, Push, MarkRead, SaveRead
<1>2. CASE MarkAllRead \/ \E S \in SUBSET Ids : Remove(S)
  BY <1>2 DEF TypeOK, MarkAllRead, Remove
<1>3. ASSUME NEW t \in Tabs, Connect(t) \/ Fetch(t) \/ Replay(t) \/ Close(t) PROVE TypeOK'
  <2>1. CASE Connect(t) \/ Close(t)
    BY <2>1 DEF TypeOK, Connect, Close
  <2>2. CASE Fetch(t)
    BY <2>2 DEF TypeOK, Fetch, Found, Newest, Unread
  <2>3. CASE Replay(t)
    BY <2>3 DEF TypeOK, Replay
  <2> QED BY <1>3, <2>1, <2>2, <2>3
<1>4. CASE Restart
  BY <1>4 DEF TypeOK, Restart
<1>5. CASE UNCHANGED vars
  BY <1>5 DEF TypeOK, vars
<1> QED BY <1>1, <1>2, <1>3, <1>4, <1>5 DEF Next

LEMMA ReachedStays == StreamInv /\ [Next]_vars => Reached'
<1> SUFFICES ASSUME StreamInv, [Next]_vars PROVE Reached'
  OBVIOUS
<1> USE DEF StreamInv
<1>1. ASSUME NEW n \in Ids, Create(n) PROVE Reached'
  BY <1>1 DEF Create, TypeOK, Reached, Coming, Unread
<1>2. ASSUME NEW n \in Ids, Push(n) PROVE Reached'
  BY <1>2 DEF Push, TypeOK, Reached, Coming, Unread
<1>3. CASE \/ \E n \in Ids : MarkRead(n) \/ SaveRead(n)
           \/ MarkAllRead
           \/ \E S \in SUBSET Ids : Remove(S)
  <2>1. Unread' \subseteq Unread
    BY <1>3 DEF MarkRead, SaveRead, MarkAllRead, Remove, TypeOK, Unread
  <2>2. UNCHANGED <<pushing, streams, replay, known, older>>
    BY <1>3 DEF MarkRead, SaveRead, MarkAllRead, Remove
  <2> QED BY <2>1, <2>2 DEF Reached, Coming
<1>4. ASSUME NEW t \in Tabs, Connect(t) \/ Fetch(t) \/ Replay(t) \/ Close(t)
      PROVE  Reached'
  <2>1. Unread' = Unread /\ UNCHANGED pushing
    BY <1>4 DEF Connect, Fetch, Replay, Close, Unread
  <2>2. ASSUME NEW u \in streams', replay'[u] # NotFetched, u # t
        PROVE  Unread' \subseteq Coming(u)'
    BY <1>4, <2>1, <2>2 DEF Connect, Fetch, Replay, Close, TypeOK, Reached, Coming
  <2>3. ASSUME t \in streams', replay'[t] # NotFetched
        PROVE  Unread' \subseteq Coming(t)'
    <3>1. CASE Fetch(t)
      <4>1. /\ replay'[t] = Newest(Unread) /\ older'[t] = Unread \ Newest(Unread)
        BY <3>1 DEF Fetch, Found, TypeOK
      <4>2. replay'[t] \notin {NotFetched, Sent}
        BY <4>1, MarksAreNoRows DEF Newest, Unread
      <4> QED BY <2>1, <4>1, <4>2 DEF Coming
    <3>2. CASE Replay(t)
      BY <2>1, <3>2, MarksAreNoRows DEF Replay, TypeOK, Reached, Coming
    <3>3. CASE Connect(t) \/ Close(t)
      BY <2>3, <3>3 DEF Connect, Close, TypeOK
    <3> QED BY <1>4, <3>1, <3>2, <3>3
  <2> QED BY <2>2, <2>3 DEF Reached
<1>5. CASE Restart
  BY <1>5 DEF Restart, Reached
<1>6. CASE UNCHANGED vars
  BY <1>6 DEF vars, Reached, Coming, Unread
<1> QED BY <1>1, <1>2, <1>3, <1>4, <1>5, <1>6 DEF Next

\* The rows, the streams and what was found and sent have their types, and nothing
\* unread is missing from what an open tab has or will have.
THEOREM StreamsInvariant == Spec => []StreamInv
<1>1. StreamInv /\ [Next]_vars => StreamInv'
  BY TypeStays, ReachedStays DEF StreamInv
<1> QED BY <1>1, StreamsStart, PTL DEF Spec

LEMMA NothingMissing == StreamInv => NothingFallsBetween
BY MarksAreNoRows DEF StreamInv, Reached, NothingFallsBetween, Coming

\* Whatever the order of queries, inserts and pushes, an open tab that had its replay
\* has every unread notification, or one is being pushed, or it is beyond the limit.
THEOREM NothingEverFallsBetween == Spec => []NothingFallsBetween
BY NothingMissing, StreamsInvariant, PTL

-----------------------------------------------------------------------------
(* The approval clock: while a request waits, a mail of a stage has been sent *)
(* only if its column says so, and every way into a stage clears the columns  *)
(* and starts a new stay.                                                     *)

\* Types, and no more mails of this stay than its columns admit.
ClockInv ==
  /\ Clock!TypeOK
  /\ mails \in [reminder : 0..1, escalation : 0..1]
  /\ Clock!Waiting => /\ ~request.reminded => mails.reminder = 0
                      /\ ~request.escalated => mails.escalation = 0

LEMMA ClockStarts == Clock!Init => ClockInv
<1> SUFFICES ASSUME Clock!Init PROVE ClockInv
  OBVIOUS
<1>1. 0 \in 0..MaxDay
  BY LiveAssumption
<1>2. request \in Clock!Request
  BY DEF Clock!Init, Clock!Request, Clock!Statuses, Clock!Stages, Clock!Days, Clock!Never
<1> QED
  BY <1>1, <1>2 DEF Clock!Init, ClockInv, Clock!TypeOK, Clock!Waiting

\* A way into a stage: the columns are cleared, and so are the mails.
LEMMA Entered ==
  ASSUME ClockInv, NEW row \in Clock!Request, Clock!Enter(row)
  PROVE  ClockInv'
BY DEF ClockInv, Clock!Enter, Clock!NoMails, Clock!TypeOK, Clock!Waiting

\* A way out of the stages.
LEMMA LeftStage ==
  ASSUME ClockInv, NEW row \in Clock!Request, Clock!Move(row), row.status \notin Clock!Stages
  PROVE  ClockInv'
BY DEF ClockInv, Clock!Move, Clock!TypeOK, Clock!Waiting

LEMMA ClockFields ==
  ASSUME ClockInv
  PROVE  /\ request \in Clock!Request /\ today \in 0..MaxDay /\ today \in Clock!Days
         /\ today \in Nat /\ MaxDay \in Nat /\ Clock!Never \in Clock!Days
         /\ request.status \in Clock!Statuses /\ request.previous \in Clock!Statuses
BY LiveAssumption DEF ClockInv, Clock!TypeOK, Clock!Days, Clock!Request

\* Every action writes a request again.
LEMMA RowsOfClock ==
  ASSUME ClockInv
  PROVE  /\ \A next \in {"manager_approved", "approved"} :
              Clock!FirstApproval(next) \in Clock!Request
         /\ [request EXCEPT !.status = "pending", !.createdAt = today] \in Clock!Request
         /\ [Clock!Decided(request, "hr") EXCEPT !.status = "approved"] \in Clock!Request
         /\ Clock!Rearmed([request EXCEPT !.status = "approved"]) \in Clock!Request
         /\ \A by \in {"manager", "hr"} :
              [Clock!Decided(request, by) EXCEPT !.status = "rejected"] \in Clock!Request
         /\ [request EXCEPT !.status = "cancelled", !.decision = "none"] \in Clock!Request
         /\ \A at \in Clock!Days, status \in Clock!Statuses :
              Clock!Rearmed([request EXCEPT !.status = status, !.decision = "none",
                                            !.managerApprovedAt = at]) \in Clock!Request
<1> USE ClockFields DEF Clock!Request, Clock!Rearmed, Clock!Decided
<1>1. {"pending", "manager_approved", "approved", "rejected", "cancelled"} \subseteq Clock!Statuses
  BY DEF Clock!Statuses, Clock!Stages
<1>2. \A next \in {"manager_approved", "approved"} :
        Clock!FirstApproval(next) \in Clock!Request
  BY <1>1 DEF Clock!FirstApproval
<1> QED BY <1>1, <1>2

LEMMA OneMore ==
  ASSUME NEW sent, sent \in [reminder : 0..1, escalation : 0..1]
  PROVE  /\ sent.escalation = 0
              => /\ [sent EXCEPT !["escalation"] = @ + 1] \in [reminder : 0..1, escalation : 0..1]
                 /\ [sent EXCEPT !["escalation"] = @ + 1].reminder = sent.reminder
         /\ sent.reminder = 0
              => /\ [sent EXCEPT !["reminder"] = @ + 1] \in [reminder : 0..1, escalation : 0..1]
                 /\ [sent EXCEPT !["reminder"] = @ + 1].escalation = sent.escalation
OBVIOUS

LEMMA NextDay ==
  ASSUME today \in 0..MaxDay, MaxDay \in Nat, Clock!Tick
  PROVE  today' \in 0..MaxDay /\ UNCHANGED <<request, mails>>
BY DEF Clock!Tick

\* A mail the column did not admit yet: the column is set with it.
LEMMA SweepFits ==
  ASSUME ClockInv, Clock!Sweep
  PROVE  ClockInv'
<1>1. CASE Clock!Escalate
  <2>1. Clock!Waiting /\ ~request.escalated
    BY <1>1 DEF Clock!Escalate, Clock!EscalationDue
  <2>2. request' = [request EXCEPT !.escalated = TRUE] /\ today' = today
        /\ mails' = [mails EXCEPT !["escalation"] = @ + 1]
    BY <1>1 DEF Clock!Escalate, Clock!NotifyContacts
  <2>3. request' \in Clock!Request /\ request'.status = request.status
        /\ request'.reminded = request.reminded /\ request'.escalated
    BY <2>2, ClockFields DEF Clock!Request
  <2>4. mails.escalation = 0 /\ mails \in [reminder : 0..1, escalation : 0..1]
    BY <2>1 DEF ClockInv
  <2>5. mails' \in [reminder : 0..1, escalation : 0..1] /\ mails'.reminder = mails.reminder
    BY <2>2, <2>4, OneMore
  <2> QED
    BY <2>1, <2>2, <2>3, <2>5 DEF ClockInv, Clock!TypeOK, Clock!Waiting
<1>2. CASE Clock!Remind
  <2>1. Clock!Waiting /\ ~request.reminded
    BY <1>2 DEF Clock!Remind, Clock!ReminderDue
  <2>2. request' = [request EXCEPT !.reminded = TRUE] /\ today' = today
        /\ mails' = [mails EXCEPT !["reminder"] = @ + 1]
    BY <1>2 DEF Clock!Remind, Clock!NotifyContacts
  <2>3. request' \in Clock!Request /\ request'.status = request.status
        /\ request'.escalated = request.escalated /\ request'.reminded
    BY <2>2, ClockFields DEF Clock!Request
  <2>4. mails.reminder = 0 /\ mails \in [reminder : 0..1, escalation : 0..1]
    BY <2>1 DEF ClockInv
  <2>5. mails' \in [reminder : 0..1, escalation : 0..1] /\ mails'.escalation = mails.escalation
    BY <2>2, <2>4, OneMore
  <2> QED
    BY <2>1, <2>2, <2>3, <2>5 DEF ClockInv, Clock!TypeOK, Clock!Waiting
<1> QED BY <1>1, <1>2 DEF Clock!Sweep

\* The state and the dates are of their types, a mail is sent once for a stay.
LEMMA ClockStays == ClockInv /\ [Clock!Next]_clockVars => ClockInv'
<1> SUFFICES ASSUME ClockInv, [Clock!Next]_clockVars PROVE ClockInv'
  OBVIOUS
<1> USE ClockFields, RowsOfClock
<1>0. {"approved", "rejected", "cancelled"} \cap Clock!Stages = {}
  BY DEF Clock!Stages
<1>1. CASE Clock!Submit
  BY <1>1, Entered DEF Clock!Submit
<1>2. CASE Clock!ManagerApprove
  BY <1>2, Entered DEF Clock!ManagerApprove
<1>3. CASE Clock!HrApprove
  <2>1. [Clock!Decided(request, "hr") EXCEPT !.status = "approved"].status = "approved"
    BY DEF Clock!Decided, Clock!Request
  <2> QED BY <1>3, <1>0, <2>1, LeftStage DEF Clock!HrApprove
<1>4. CASE Clock!Finalize
  <2>1. Clock!Rearmed([request EXCEPT !.status = "approved"]).status = "approved"
    BY DEF Clock!Rearmed, Clock!Request
  <2> QED BY <1>4, <1>0, <2>1, LeftStage DEF Clock!Finalize
<1>5. CASE Clock!Reject
  <2>1. \A by : [Clock!Decided(request, by) EXCEPT !.status = "rejected"].status = "rejected"
    BY DEF Clock!Decided, Clock!Request
  <2> QED BY <1>5, <1>0, <2>1, LeftStage DEF Clock!Reject
<1>6. CASE Clock!Cancel
  <2>1. [request EXCEPT !.status = "cancelled", !.decision = "none"].status = "cancelled"
    BY DEF Clock!Request
  <2> QED BY <1>6, <1>0, <2>1, LeftStage DEF Clock!Cancel
<1>7. CASE Clock!Undo
  <2>1. request.managerApprovedAt \in Clock!Days
    BY DEF Clock!Request
  <2> QED BY <1>7, <2>1, Entered DEF Clock!Undo
<1>8. CASE Clock!Resubmit
  <2>1. "pending" \in Clock!Statuses
    BY DEF Clock!Statuses, Clock!Stages
  <2> QED BY <1>8, <2>1, Entered DEF Clock!Resubmit
<1>9. CASE Clock!Sweep
  BY <1>9, SweepFits
<1>10. CASE Clock!Nudge \/ UNCHANGED clockVars
  BY <1>10 DEF Clock!Nudge, Clock!KeepsSchedule, clockVars, ClockInv, Clock!TypeOK, Clock!Waiting
<1>11. CASE Clock!Tick
  <2>1. today' \in 0..MaxDay /\ UNCHANGED <<request, mails>>
    BY <1>11, NextDay
  <2> QED BY <2>1 DEF ClockInv, Clock!TypeOK, Clock!Waiting
<1> QED
  BY <1>1, <1>2, <1>3, <1>4, <1>5, <1>6, <1>7, <1>8, <1>9, <1>10, <1>11 DEF Clock!Next

LEMMA MailsOnce == ClockInv => Clock!TypeOK /\ Clock!OneMailOfAKind
BY DEF ClockInv, Clock!OneMailOfAKind

\* Only the approval of a manager moves a request from the first stage to that of HR,
\* and it dates the move.
LEMMA FreshClock ==
  ClockInv /\ [Clock!Next]_clockVars
    => [/\ request.status = "pending" /\ request'.status = "manager_approved"
        => Clock!DaysPending' = 0 /\ ~Clock!EscalationDue' /\ ~Clock!ReminderDue']_clockVars
<1> SUFFICES ASSUME ClockInv, Clock!Next,
                    request.status = "pending", request'.status = "manager_approved"
             PROVE  Clock!DaysPending' = 0 /\ ~Clock!EscalationDue' /\ ~Clock!ReminderDue'
  OBVIOUS
<1> USE ClockFields
<1>1. CASE Clock!ManagerApprove
  <2>1. request' = Clock!FirstApproval("manager_approved") /\ today' = today
    <3>1. PICK next \in {"manager_approved", "approved"} : Clock!Enter(Clock!FirstApproval(next))
      BY <1>1 DEF Clock!ManagerApprove
    <3>2. Clock!FirstApproval(next).status = next
      BY DEF Clock!FirstApproval, Clock!Rearmed, Clock!Decided, Clock!Request
    <3> QED BY <3>1, <3>2 DEF Clock!Enter
  <2>2. request'.managerApprovedAt = today
    BY <2>1 DEF Clock!FirstApproval, Clock!Rearmed, Clock!Decided, Clock!Request
  <2>3. today # Clock!Never
    BY DEF Clock!Never
  <2>4. Clock!StageStart' = today
    BY <2>2, <2>3 DEF Clock!StageStart, Clock!Never
  <2> QED
    BY <2>1, <2>4, LiveAssumption
    DEF Clock!DaysPending, Clock!EscalationDue, Clock!ReminderDue
<1>2. CASE Clock!Submit \/ Clock!HrApprove \/ Clock!Finalize \/ Clock!Undo \/ Clock!Resubmit
  BY <1>2 DEF Clock!Submit, Clock!HrApprove, Clock!Finalize, Clock!Undo, Clock!Resubmit
<1>3. CASE Clock!Reject \/ Clock!Cancel
  <2>1. /\ \A by : [Clock!Decided(request, by) EXCEPT !.status = "rejected"].status = "rejected"
        /\ [request EXCEPT !.status = "cancelled", !.decision = "none"].status = "cancelled"
    BY DEF Clock!Decided, Clock!Request
  <2> QED BY <1>3, <2>1 DEF Clock!Reject, Clock!Cancel, Clock!Move
<1>4. CASE Clock!Sweep
  <2>1. \/ request' = [request EXCEPT !.escalated = TRUE]
        \/ request' = [request EXCEPT !.reminded = TRUE]
    BY <1>4 DEF Clock!Sweep, Clock!Escalate, Clock!Remind
  <2> QED BY <2>1 DEF Clock!Request
<1>5. CASE Clock!Nudge \/ Clock!Tick
  BY <1>5 DEF Clock!Nudge, Clock!KeepsSchedule, Clock!Tick
<1> QED BY <1>1, <1>2, <1>3, <1>4, <1>5 DEF Clock!Next

-----------------------------------------------------------------------------
(* The entries of decisions: the notices of an undone decision outlive the    *)
(* transaction, and until the employee's entries are cleared the bell may     *)
(* tell of the decision that is being undone, and of no other.                *)

\* Types, and the decision recorded is the one the status follows from.
DecisionsFit ==
  /\ Decisions!TypeOK
  /\ undoing \in [step : {"none", "find", "employee", "hr"},
                  decision : Decisions!Decisions \cup {"none"}, hr : SUBSET Approvers]
  /\ undoing.step # "none" => undoing.decision \in Decisions!Decisions
  /\ decided.decision # "none" =>
       /\ decided.status \in {"approved", "manager_approved"}
            => decided.decision \in Decisions!Approvals
       /\ decided.status = "rejected" => decided.decision \in Decisions!Rejections

\* An entry stands, or is what the undo under way is about to clear.
Clearing(decisions) == undoing.step \in {"find", "employee"} /\ undoing.decision \in decisions

EntriesStand ==
  /\ <<Employee, "APPROVED_FINAL">> \in entries /\ "APPROVED_FINAL" \notin uncleared
       => decided.status = "approved" \/ Clearing(Decisions!Approvals)
  /\ <<Employee, "REJECTED">> \in entries /\ "REJECTED" \notin uncleared
       => decided.status = "rejected" \/ decided.resubmitted \/ Clearing(Decisions!Rejections)

DecisionInv == DecisionsFit /\ EntriesStand

LEMMA DecisionsStart == Decisions!Init => DecisionInv
<1> SUFFICES ASSUME Decisions!Init PROVE DecisionInv
  OBVIOUS
<1>1. decided \in Decisions!Request /\ undoing.hr \subseteq Approvers
  BY DEF Decisions!Init, Decisions!Request, Decisions!Statuses, Decisions!Decisions,
         Decisions!NoUndo
<1> QED
  BY <1>1 DEF Decisions!Init, DecisionInv, DecisionsFit, EntriesStand, Decisions!TypeOK,
              Decisions!NoUndo

\* A decision, whoever makes it: its entry is the one its status calls for.
LEMMA DecideFits ==
  ASSUME DecisionInv,
         NEW decision \in Decisions!Decisions, NEW status \in {"approved", "manager_approved", "rejected"},
         NEW told \in SUBSET Decisions!Entries,
         Decisions!Decide(decision, status, told),
         decided.status \in {"pending", "manager_approved"},
         decision \in IF status = "rejected" THEN Decisions!Rejections ELSE Decisions!Approvals,
         <<Employee, "APPROVED_FINAL">> \in told => status = "approved",
         <<Employee, "REJECTED">> \in told => status = "rejected"
  PROVE  DecisionInv'
<1> USE DEF DecisionInv, DecisionsFit
<1>1. decided \in Decisions!Request
  BY DEF Decisions!TypeOK
<1>2. decided' = [decided EXCEPT !.decision = decision, !.status = status,
                                 !.previous = decided.status]
      /\ entries' = entries \cup told /\ UNCHANGED <<hrUsers, undoing, uncleared>>
  BY DEF Decisions!Decide
<1>3. decided'.decision = decision /\ decided'.status = status
      /\ decided'.resubmitted = decided.resubmitted /\ decided' \in Decisions!Request
  BY <1>1, <1>2 DEF Decisions!Request, Decisions!Statuses
<1>4. DecisionsFit'
  BY <1>2, <1>3 DEF Decisions!TypeOK, Decisions!Approvals, Decisions!Rejections
<1>5. EntriesStand'
  BY <1>2, <1>3 DEF EntriesStand, Clearing
<1> QED BY <1>4, <1>5

LEMMA ToldFits ==
  ASSUME Decisions!TypeOK
  PROVE  /\ \A title \in {"APPROVED_FINAL", "APPROVED_BY_MANAGER", "REJECTED"} :
              Decisions!ToEmployee(title) \in SUBSET Decisions!Entries
         /\ hrUsers \X {"PENDING_HR"} \in SUBSET Decisions!Entries
BY DEF Decisions!TypeOK, Decisions!ToEmployee, Decisions!Entries, Decisions!Titles

\* One step more or less of an undo: what it clears is told no more, or is given up.
LEMMA ClearFits ==
  ASSUME DecisionInv,
         \/ Decisions!ClearForEmployee
         \/ Decisions!ClearForHr
  PROVE  DecisionInv'
<1> USE DEF DecisionInv, DecisionsFit, Decisions!TypeOK
<1>1. Decisions!NoUndo \in [step : {"none", "find", "employee", "hr"},
                  decision : Decisions!Decisions \cup {"none"}, hr : SUBSET Approvers]
      /\ Decisions!NoUndo.step = "none"
  BY DEF Decisions!NoUndo
<1>2. {e[2] : e \in entries} \subseteq Decisions!Titles
  BY DEF Decisions!Entries, Decisions!Titles
<1>3. CASE Decisions!ClearForEmployee
  <2>1. undoing.step = "employee" /\ UNCHANGED <<decided, hrUsers>>
    BY <1>3 DEF Decisions!ClearForEmployee, Decisions!Clear
  <2>2. CASE entries' = entries \ ({Employee} \X Decisions!Reversed(undoing.decision))
             /\ undoing' = [undoing EXCEPT !.step = "hr"] /\ UNCHANGED uncleared
    <3>1. /\ undoing' \in [step : {"none", "find", "employee", "hr"},
                  decision : Decisions!Decisions \cup {"none"}, hr : SUBSET Approvers]
          /\ undoing'.decision = undoing.decision /\ undoing'.step = "hr"
      BY <2>2
    <3>2. DecisionsFit'
      BY <2>1, <2>2, <3>1
    <3>3. CASE undoing.decision \in Decisions!Approvals
      <4>1. <<Employee, "APPROVED_FINAL">> \notin entries'
        BY <2>2, <3>3 DEF Decisions!Reversed
      <4>2. ~Clearing(Decisions!Rejections)
        BY <3>3 DEF Clearing, Decisions!Approvals, Decisions!Rejections
      <4> QED BY <2>1, <2>2, <3>2, <4>1, <4>2 DEF EntriesStand
    <3>4. CASE undoing.decision \in Decisions!Rejections
      <4>1. <<Employee, "REJECTED">> \notin entries'
        BY <2>2, <3>4 DEF Decisions!Reversed, Decisions!Approvals, Decisions!Rejections
      <4>2. ~Clearing(Decisions!Approvals)
        BY <3>4 DEF Clearing, Decisions!Approvals, Decisions!Rejections
      <4> QED BY <2>1, <2>2, <3>2, <4>1, <4>2 DEF EntriesStand
    <3> QED BY <2>1, <3>3, <3>4 DEF Decisions!Decisions
  <2>3. CASE undoing' = Decisions!NoUndo /\ uncleared' = uncleared \cup {e[2] : e \in entries}
             /\ UNCHANGED entries
    <3>1. DecisionsFit'
      BY <1>1, <1>2, <2>1, <2>3
    <3>2. \A title : <<Employee, title>> \in entries => title \in uncleared'
      BY <2>3
    <3> QED BY <2>3, <3>1, <3>2 DEF EntriesStand
  <2> QED BY <1>3, <2>2, <2>3 DEF Decisions!ClearForEmployee, Decisions!Clear
<1>4. CASE Decisions!ClearForHr
  <2>1. undoing.step = "hr" /\ UNCHANGED <<decided, hrUsers>> /\ undoing' = Decisions!NoUndo
        /\ entries' \subseteq entries /\ uncleared \subseteq uncleared'
        /\ uncleared' \subseteq uncleared \cup {e[2] : e \in entries}
    BY <1>4 DEF Decisions!ClearForHr, Decisions!Clear
  <2>2. DecisionsFit'
    BY <1>1, <1>2, <2>1
  <2> QED BY <2>1, <2>2 DEF EntriesStand, Clearing
<1> QED BY <1>3, <1>4

LEMMA DecisionsStay == DecisionInv /\ [Decisions!Next]_decisionVars => DecisionInv'
<1> SUFFICES ASSUME DecisionInv, [Decisions!Next]_decisionVars PROVE DecisionInv'
  OBVIOUS
<1>0. decided \in Decisions!Request /\ Decisions!TypeOK
  BY DEF DecisionInv, DecisionsFit, Decisions!TypeOK
<1> USE <1>0
<1>1. CASE Decisions!ApproveFinally \/ Decisions!HrApprove
  <2>1. PICK d \in Decisions!Approvals :
          Decisions!Decide(d, "approved", Decisions!ToEmployee("APPROVED_FINAL"))
    BY <1>1 DEF Decisions!ApproveFinally, Decisions!HrApprove, Decisions!Approvals
  <2>2. <<Employee, "REJECTED">> \notin Decisions!ToEmployee("APPROVED_FINAL")
    BY DEF Decisions!ToEmployee
  <2> QED
    BY <1>1, <2>1, <2>2, ToldFits, DecideFits
    DEF Decisions!ApproveFinally, Decisions!HrApprove, Decisions!Decisions
<1>2. CASE Decisions!ApproveToHr
  <2> DEFINE told == Decisions!ToEmployee("APPROVED_BY_MANAGER") \cup (hrUsers \X {"PENDING_HR"})
  <2>1. Decisions!Decide("manager_approve", "manager_approved", told) /\ decided.status = "pending"
    BY <1>2 DEF Decisions!ApproveToHr
  <2>2. told \in SUBSET Decisions!Entries
    BY ToldFits
  <2>3. <<Employee, "REJECTED">> \notin told /\ <<Employee, "APPROVED_FINAL">> \notin told
    BY DEF Decisions!ToEmployee
  <2>4. "manager_approve" \in Decisions!Approvals /\ "manager_approve" \in Decisions!Decisions
    BY DEF Decisions!Approvals, Decisions!Decisions
  <2> HIDE DEF told
  <2> QED BY <2>1, <2>2, <2>3, <2>4, DecideFits
<1>3. CASE Decisions!Reject
  <2>1. PICK d \in Decisions!Rejections :
          Decisions!Decide(d, "rejected", Decisions!ToEmployee("REJECTED"))
    BY <1>3 DEF Decisions!Reject, Decisions!Rejections
  <2>2. <<Employee, "APPROVED_FINAL">> \notin Decisions!ToEmployee("REJECTED")
    BY DEF Decisions!ToEmployee
  <2>3. decided.status \in {"pending", "manager_approved"}
    BY <1>3 DEF Decisions!Reject
  <2>4. d \in Decisions!Decisions
    BY DEF Decisions!Decisions
  <2> QED BY <2>1, <2>2, <2>3, <2>4, ToldFits, DecideFits
<1>4. CASE Decisions!Finalize
  <2>1. decided.status = "manager_approved" /\ decided' = [decided EXCEPT !.status = "approved"]
        /\ entries' = entries \cup Decisions!ToEmployee("APPROVED_FINAL")
        /\ UNCHANGED <<hrUsers, undoing, uncleared>>
    BY <1>4 DEF Decisions!Finalize
  <2>2. decided' \in Decisions!Request /\ decided'.status = "approved"
        /\ decided'.decision = decided.decision /\ decided'.resubmitted = decided.resubmitted
    BY <2>1 DEF Decisions!Request, Decisions!Statuses
  <2>3. DecisionsFit'
    BY <2>1, <2>2, ToldFits DEF DecisionInv, DecisionsFit, Decisions!TypeOK
  <2>4. <<Employee, "REJECTED">> \in entries' => <<Employee, "REJECTED">> \in entries
    BY <2>1 DEF Decisions!ToEmployee
  <2>5. EntriesStand'
    BY <2>1, <2>2, <2>4 DEF DecisionInv, EntriesStand, Clearing
  <2> QED BY <2>3, <2>5 DEF DecisionInv
<1>5. CASE Decisions!Cancel \/ Decisions!Resubmit
  <2>1. UNCHANGED <<hrUsers, entries, undoing, uncleared>>
    BY <1>5 DEF Decisions!Cancel, Decisions!Resubmit
  <2>2. /\ decided' \in Decisions!Request /\ decided'.decision = "none"
        /\ decided.status # "approved"
        /\ decided.resubmitted => decided'.resubmitted
        /\ decided.status = "rejected" => decided'.resubmitted
    BY <1>5 DEF Decisions!Cancel, Decisions!Resubmit, Decisions!Request, Decisions!Statuses
  <2> QED
    BY <2>1, <2>2 DEF DecisionInv, DecisionsFit, EntriesStand, Clearing, Decisions!TypeOK
<1>6. ASSUME NEW h \in Approvers, Decisions!ChangeHr(h) PROVE DecisionInv'
  <2>1. hrUsers' \subseteq Approvers /\ UNCHANGED <<decided, entries, undoing, uncleared>>
    BY <1>6 DEF Decisions!ChangeHr, Decisions!TypeOK
  <2> QED BY <2>1 DEF DecisionInv, DecisionsFit, EntriesStand, Clearing, Decisions!TypeOK
<1>7. CASE Decisions!Undo
  <2>1. decided.decision # "none" /\ undoing.step = "none"
        /\ decided.status \in {"manager_approved", "approved", "rejected"}
    BY <1>7 DEF Decisions!Undo, Decisions!NoUndo
  <2>2. decided' = [decided EXCEPT !.status = decided.previous, !.decision = "none"]
        /\ undoing' = [Decisions!NoUndo EXCEPT !.step = "find", !.decision = decided.decision]
        /\ UNCHANGED <<hrUsers, entries, uncleared>>
    BY <1>7 DEF Decisions!Undo
  <2>3. decided' \in Decisions!Request /\ decided'.decision = "none"
        /\ decided'.resubmitted = decided.resubmitted
    BY <2>2 DEF Decisions!Request
  <2>4. undoing' = [step |-> "find", decision |-> decided.decision, hr |-> {}]
    BY <2>2 DEF Decisions!NoUndo
  <2>5. decided.decision \in Decisions!Decisions
    BY <2>1 DEF Decisions!Request
  <2>6. DecisionsFit'
    <3>1. undoing' \in [step : {"none", "find", "employee", "hr"},
                  decision : Decisions!Decisions \cup {"none"}, hr : SUBSET Approvers]
      BY <2>4, <2>5
    <3>2. undoing'.decision \in Decisions!Decisions /\ undoing'.hr \subseteq Approvers
      BY <2>4, <2>5
    <3> QED BY <2>2, <2>3, <3>1, <3>2 DEF DecisionInv, DecisionsFit, Decisions!TypeOK
  <2>7. undoing'.step = "find" /\ undoing'.decision = decided.decision
    BY <2>4
  <2>8. ~Clearing(Decisions!Approvals) /\ ~Clearing(Decisions!Rejections)
    BY <2>1 DEF Clearing
  <2>9. EntriesStand'
    BY <2>1, <2>2, <2>3, <2>7, <2>8 DEF DecisionInv, DecisionsFit, EntriesStand, Clearing
  <2> QED BY <2>6, <2>9 DEF DecisionInv
<1>8. CASE Decisions!FindHr
  <2>1. PICK hr \in SUBSET Approvers : undoing' = [undoing EXCEPT !.step = "employee", !.hr = hr]
    BY <1>8 DEF Decisions!FindHr, Decisions!TypeOK
  <2>2. undoing.step = "find" /\ UNCHANGED <<decided, hrUsers, entries, uncleared>>
    BY <1>8 DEF Decisions!FindHr
  <2>3. undoing'.step = "employee" /\ undoing'.decision = undoing.decision /\ undoing'.hr = hr
        /\ undoing' \in [step : {"none", "find", "employee", "hr"},
                  decision : Decisions!Decisions \cup {"none"}, hr : SUBSET Approvers]
    BY <2>1 DEF DecisionInv, DecisionsFit
  <2> QED
    BY <2>2, <2>3 DEF DecisionInv, DecisionsFit, EntriesStand, Clearing, Decisions!TypeOK
<1>9. CASE Decisions!ClearForEmployee \/ Decisions!ClearForHr
  BY <1>9, ClearFits
<1>10. CASE UNCHANGED decisionVars
  BY <1>10 DEF decisionVars, DecisionInv, DecisionsFit, EntriesStand, Clearing, Decisions!TypeOK
<1> QED
  BY <1>1, <1>2, <1>3, <1>4, <1>5, <1>6, <1>7, <1>8, <1>9, <1>10 DEF Decisions!Next

LEMMA EntriesFit == DecisionInv => Decisions!TypeOK /\ Decisions!EmployeeBellsStand
BY DEF DecisionInv, DecisionsFit, EntriesStand, Clearing, Decisions!EmployeeBellsStand

-----------------------------------------------------------------------------
(* Who hears of an event: a bell is still to be stored, or stored, or given   *)
(* up. What a person was or will be told of one notice never grows after the  *)
(* notice began, so it is enough that it began with nothing twice.            *)

Bell == [to : Persons, reason : Notified!Reasons]

NoticeType ==
  [stage : {"none", "first", "second", "failed", "push", "over"}, event : Notified!Events,
   actor : SUBSET Persons, first : SUBSET Bell, second : SUBSET Bell, mails : SUBSET Persons]

\* The person is told for that reason, or is about to be.
Told(n, p, r) ==
  bells[<<n, p, r>>] > 0 \/ [to |-> p, reason |-> r] \in notice[n].first \cup notice[n].second

NotifierType ==
  /\ notice \in [Notices -> NoticeType]
  /\ members \subseteq Persons /\ active \subseteq Persons
  /\ bells \in [Notices \X Persons \X Notified!Reasons -> 0..1]
  /\ mailed \subseteq [notice : Notices, to : Persons]

\* A bell still to come has not rung, replies ring before all else, and mails are
\* sent once every bell has rung.
NoticeFits(n) ==
  /\ \A p \in Persons, r \in Notified!Reasons :
       [to |-> p, reason |-> r] \in notice[n].first \cup notice[n].second
         => bells[<<n, p, r>>] = 0
  /\ \A b \in notice[n].first : b.reason = "reply"
  /\ \A b \in notice[n].second : b.reason # "reply"
  /\ notice[n].stage = "none" => notice[n].first \cup notice[n].second = {}
                                 /\ \A p \in Persons : Notified!BellsOf(n, p) = {}
  /\ notice[n].stage = "second" => notice[n].first = {}
  /\ notice[n].stage \in {"first", "second"} =>
       \A p \in notice[n].mails : \E r \in Notified!Reasons : Told(n, p, r)

\* Nobody is told twice of a comment, and nobody of their own doing.
ToldAtMostOnce(n) ==
  /\ notice[n].event = "comment" =>
       \A p \in Persons, r, s \in Notified!Reasons : Told(n, p, r) /\ Told(n, p, s) => r = s
  /\ \A p \in notice[n].actor, r \in Notified!Reasons : ~Told(n, p, r)

NotifierInv ==
  /\ NotifierType
  /\ \A n \in Notices : NoticeFits(n) /\ ToldAtMostOnce(n)
  /\ Notified!MailedHaveBells

LEMMA ReasonsAre ==
  Notified!Reasons = {"reply", "mention", "praise", "request", "decision", "added"}
BY DEF Notified!Reasons

LEMMA NotifierStarts == Notified!Init => NotifierInv
<1> SUFFICES ASSUME Notified!Init PROVE NotifierInv
  OBVIOUS
<1>0. Insiders \subseteq Persons
  BY LiveAssumption
<1>1. notice = [n \in Notices |-> Notified!NoNotice]
  BY DEF Notified!Init
<1>2. Notified!NoNotice \in NoticeType
  BY DEF Notified!NoNotice, NoticeType, Notified!Events
<1>3. NotifierType
  BY <1>0, <1>1, <1>2 DEF Notified!Init, NotifierType
<1>4. ASSUME NEW n \in Notices PROVE NoticeFits(n) /\ ToldAtMostOnce(n)
  <2>1. /\ notice[n].first = {} /\ notice[n].second = {} /\ notice[n].mails = {}
        /\ notice[n].actor = {} /\ notice[n].stage = "none" /\ notice[n].event = "post"
    BY <1>1 DEF Notified!NoNotice
  <2>2. \A p \in Persons, r \in Notified!Reasons : bells[<<n, p, r>>] = 0
    BY DEF Notified!Init
  <2>3. \A p \in Persons : Notified!BellsOf(n, p) = {}
    BY <2>2 DEF Notified!BellsOf
  <2> QED BY <2>1, <2>2, <2>3 DEF NoticeFits, ToldAtMostOnce
<1> QED BY <1>3, <1>4 DEF Notified!Init, NotifierInv, Notified!MailedHaveBells

\* What a notice rests on, when another one moves.
LEMMA OtherNotice ==
  ASSUME NEW n \in Notices, NoticeFits(n), ToldAtMostOnce(n),
         notice[n] \in NoticeType, notice'[n] = notice[n],
         \A p \in Persons, r \in Notified!Reasons : bells'[<<n, p, r>>] = bells[<<n, p, r>>]
  PROVE  NoticeFits(n)' /\ ToldAtMostOnce(n)'
<1>1. \A p \in Persons, r \in Notified!Reasons : Told(n, p, r)' <=> Told(n, p, r)
  BY DEF Told
<1>2. \A p \in Persons : Notified!BellsOf(n, p)' = Notified!BellsOf(n, p)
  BY DEF Notified!BellsOf
<1>3. notice[n].mails \subseteq Persons /\ notice[n].actor \subseteq Persons
  BY DEF NoticeType
<1>4. ASSUME notice[n].stage \in {"first", "second"}, NEW p \in notice[n].mails
      PROVE  \E r \in Notified!Reasons : Told(n, p, r)'
  <2>1. PICK r \in Notified!Reasons : Told(n, p, r)
    BY <1>4 DEF NoticeFits
  <2> QED BY <1>1, <1>3, <1>4, <2>1
<1>5. NoticeFits(n)'
  BY <1>2, <1>4 DEF NoticeFits
<1>6. ToldAtMostOnce(n)'
  BY <1>1, <1>3 DEF ToldAtMostOnce
<1> QED BY <1>5, <1>6

\* A new notice: nobody is told twice, and whoever it mails is told.
LEMMA BeginFits ==
  ASSUME NotifierInv, NEW n \in Notices, NEW event \in Notified!Events, NEW actor \in Persons,
         NEW first \in SUBSET Bell, NEW second \in SUBSET Bell, NEW sent \in SUBSET Persons,
         Notified!Begin(n, event, actor, first, second, sent),
         \A b \in first : b.reason = "reply", \A b \in second : b.reason # "reply",
         \A p \in sent : \E b \in first \cup second : b.to = p,
         \A b \in first \cup second : b.to # actor,
         event = "comment" =>
           \A b, c \in first \cup second : b.to = c.to => b.reason = c.reason
  PROVE  NotifierInv'
<1> DEFINE new == [stage |-> "first", event |-> event, actor |-> {actor},
                   first |-> first, second |-> second, mails |-> sent]
<1>1. notice[n].stage = "none" /\ notice' = [notice EXCEPT ![n] = new]
      /\ UNCHANGED <<members, active, bells, mailed, live>>
  BY DEF Notified!Begin
<1>2. new \in NoticeType
  BY DEF NoticeType
<1>3. /\ new.stage = "first" /\ new.event = event /\ new.actor = {actor} /\ new.first = first
      /\ new.second = second /\ new.mails = sent
  OBVIOUS
<1> HIDE DEF new
<1>4. notice \in [Notices -> NoticeType]
  BY DEF NotifierInv, NotifierType
<1>5. notice' \in [Notices -> NoticeType] /\ notice'[n] = new
      /\ \A m \in Notices : m # n => notice'[m] = notice[m]
  BY <1>1, <1>2, <1>4
<1>6. \A p \in Persons, r \in Notified!Reasons : bells[<<n, p, r>>] = 0
  <2> SUFFICES ASSUME NEW p \in Persons, NEW r \in Notified!Reasons PROVE bells[<<n, p, r>>] = 0
    OBVIOUS
  <2>1. Notified!BellsOf(n, p) = {}
    BY <1>1 DEF NotifierInv, NoticeFits
  <2>2. bells[<<n, p, r>>] \in 0..1
    BY DEF NotifierInv, NotifierType
  <2> QED BY <2>1, <2>2 DEF Notified!BellsOf
<1>7. ASSUME NEW p \in Persons, NEW r \in Notified!Reasons
      PROVE  Told(n, p, r)' <=> [to |-> p, reason |-> r] \in first \cup second
  BY <1>1, <1>3, <1>5, <1>6 DEF Told
<1>8. NoticeFits(n)'
  <2>1. \A p \in Persons : Notified!BellsOf(n, p)' = {}
    BY <1>1, <1>6 DEF Notified!BellsOf
  <2>2. ASSUME NEW p \in sent PROVE \E r \in Notified!Reasons : Told(n, p, r)'
    <3>1. PICK b \in first \cup second : b.to = p
      OBVIOUS
    <3>2. b \in Bell /\ b = [to |-> p, reason |-> b.reason] /\ b.reason \in Notified!Reasons
      BY <3>1 DEF Bell
    <3> QED BY <1>7, <3>2
  <2> QED BY <1>1, <1>3, <1>5, <1>6, <2>1, <2>2 DEF NoticeFits
<1>9. ToldAtMostOnce(n)'
  <2>1. ASSUME event = "comment", NEW p \in Persons, NEW r \in Notified!Reasons,
               NEW s \in Notified!Reasons, Told(n, p, r)', Told(n, p, s)'
        PROVE  r = s
    <3>1. [to |-> p, reason |-> r] \in first \cup second
          /\ [to |-> p, reason |-> s] \in first \cup second
      BY <1>7, <2>1
    <3> QED BY <2>1, <3>1
  <2>2. ASSUME NEW r \in Notified!Reasons PROVE ~Told(n, actor, r)'
    <3>1. [to |-> actor, reason |-> r] \notin first \cup second
      OBVIOUS
    <3> QED BY <1>7, <3>1
  <2> QED BY <1>3, <1>5, <2>1, <2>2 DEF ToldAtMostOnce
<1>10. ASSUME NEW m \in Notices, m # n PROVE NoticeFits(m)' /\ ToldAtMostOnce(m)'
  BY <1>1, <1>4, <1>5, <1>10, OtherNotice DEF NotifierInv
<1>11. NotifierType' /\ Notified!MailedHaveBells'
  BY <1>1, <1>5 DEF NotifierInv, NotifierType, Notified!MailedHaveBells, Notified!BellsOf
<1> QED BY <1>8, <1>9, <1>10, <1>11 DEF NotifierInv

LEMMA BellsAre ==
  ASSUME NEW people \in SUBSET Persons, NEW reason \in Notified!Reasons
  PROVE  /\ Notified!Bells(people, reason) \in SUBSET Bell
         /\ \A b \in Notified!Bells(people, reason) : b.to \in people /\ b.reason = reason
         /\ \A p \in people : \E b \in Notified!Bells(people, reason) : b.to = p
<1>1. \A p \in people : [to |-> p, reason |-> reason] \in Notified!Bells(people, reason)
                        /\ [to |-> p, reason |-> reason].to = p
  BY DEF Notified!Bells
<1>2. ASSUME NEW b \in Notified!Bells(people, reason)
      PROVE  b \in Bell /\ b.to \in people /\ b.reason = reason
  <2>1. PICK p \in people : b = [to |-> p, reason |-> reason]
    BY DEF Notified!Bells
  <2> QED BY <2>1 DEF Bell
<1> QED BY <1>1, <1>2

LEMMA EventsFit ==
  ASSUME NotifierInv, NEW n \in Notices, NEW p \in Persons \ Gone,
         \/ Notified!PostCreated(n, p) \/ Notified!CommentAdded(n, p)
         \/ Notified!ReactionChanged(n, p) \/ Notified!JoinRequested(n, p)
         \/ Notified!RequestDecided(n, p) \/ Notified!AddedToCommunity(n, p)
  PROVE  NotifierInv'
<1>0. /\ {"post", "comment", "reaction", "joinRequested", "decision", "added"} \subseteq Notified!Events
      /\ {"reply", "mention", "praise", "request", "decision", "added"} \subseteq Notified!Reasons
      /\ {} \in SUBSET Bell /\ {} \in SUBSET Persons
  BY DEF Notified!Events, Notified!Reasons
<1>1. CASE Notified!PostCreated(n, p)
  <2>1. PICK mentioned \in SUBSET Persons, praised \in SUBSET Persons :
          /\ p \notin mentioned \cup praised
          /\ Notified!Begin(n, "post", p, {},
               Notified!Bells(mentioned, "mention") \cup Notified!Bells(praised, "praise"),
               mentioned \cup praised)
    <3>1. PICK mentions \in SUBSET Persons, praises \in SUBSET Persons :
            Notified!Begin(n, "post", p, {},
               Notified!Bells(mentions \ {p}, "mention") \cup Notified!Bells(praises \ {p}, "praise"),
               (mentions \ {p}) \cup (praises \ {p}))
      BY <1>1 DEF Notified!PostCreated
    <3> WITNESS mentions \ {p} \in SUBSET Persons, praises \ {p} \in SUBSET Persons
    <3> QED BY <3>1
  <2> DEFINE M == Notified!Bells(mentioned, "mention")  P == Notified!Bells(praised, "praise")
  <2>2. /\ M \in SUBSET Bell /\ \A b \in M : b.to \in mentioned /\ b.reason = "mention"
        /\ \A q \in mentioned : \E b \in M : b.to = q
    BY <1>0, BellsAre
  <2>3. /\ P \in SUBSET Bell /\ \A b \in P : b.to \in praised /\ b.reason = "praise"
        /\ \A q \in praised : \E b \in P : b.to = q
    BY <1>0, BellsAre
  <2>4. Notified!Begin(n, "post", p, {}, M \cup P, mentioned \cup praised)
    BY <2>1
  <2> HIDE DEF M, P
  <2>5. /\ M \cup P \in SUBSET Bell /\ mentioned \cup praised \in SUBSET Persons
        /\ \A b \in M \cup P : b.reason # "reply" /\ b.to # p
        /\ \A q \in mentioned \cup praised : \E b \in {} \cup (M \cup P) : b.to = q
    BY <2>1, <2>2, <2>3
  <2> QED BY <1>0, <2>4, <2>5, BeginFits
<1>2. CASE Notified!CommentAdded(n, p)
  <2>1. PICK author \in Persons, mentions \in SUBSET Persons :
          Notified!Begin(n, "comment", p, Notified!Bells({author} \ {p}, "reply"),
            Notified!Bells(mentions \ {p, author}, "mention"), {})
    BY <1>2 DEF Notified!CommentAdded, Notified!Mentioned
  <2> DEFINE R == Notified!Bells({author} \ {p}, "reply")
             M == Notified!Bells(mentions \ {p, author}, "mention")
  <2>2. R \in SUBSET Bell /\ \A b \in R : b.to \in {author} \ {p} /\ b.reason = "reply"
    BY <1>0, BellsAre
  <2>3. M \in SUBSET Bell /\ \A b \in M : b.to \in mentions \ {p, author} /\ b.reason = "mention"
    BY <1>0, BellsAre
  <2>4. Notified!Begin(n, "comment", p, R, M, {})
    BY <2>1
  <2> HIDE DEF R, M
  <2>5. /\ \A b \in R \cup M : b.to # p
        /\ \A b, c \in R \cup M : b.to = c.to => b.reason = c.reason
        /\ \A b \in M : b.reason # "reply"
    BY <2>2, <2>3
  <2> QED BY <1>0, <2>2, <2>3, <2>4, <2>5, BeginFits
<1>3. CASE Notified!ReactionChanged(n, p)
  BY <1>0, <1>3, BeginFits DEF Notified!ReactionChanged
<1>4. CASE Notified!JoinRequested(n, p)
  <2>1. PICK admins \in SUBSET members \ {{}} :
          Notified!Begin(n, "joinRequested", p, {}, Notified!Bells(admins, "request"), {})
    BY <1>4 DEF Notified!JoinRequested
  <2>2. p \notin admins /\ admins \in SUBSET Persons
    BY <1>4 DEF Notified!JoinRequested, NotifierInv, NotifierType
  <2> DEFINE A == Notified!Bells(admins, "request")
  <2>3. A \in SUBSET Bell /\ \A b \in A : b.to \in admins /\ b.reason = "request"
    BY <1>0, <2>2, BellsAre
  <2>4. Notified!Begin(n, "joinRequested", p, {}, A, {})
    BY <2>1
  <2> HIDE DEF A
  <2>5. \A b \in {} \cup A : b.to # p /\ b.reason # "reply"
    BY <2>2, <2>3
  <2> QED BY <1>0, <2>3, <2>4, <2>5, BeginFits
<1>5. CASE Notified!RequestDecided(n, p)
  <2>1. PICK target \in Persons \ {p} :
          Notified!Begin(n, "decision", p, {}, Notified!Bells({target}, "decision"), {target})
    BY <1>5 DEF Notified!RequestDecided
  <2> DEFINE A == Notified!Bells({target}, "decision")
  <2>2. /\ A \in SUBSET Bell /\ \A b \in A : b.to \in {target} /\ b.reason = "decision"
        /\ \A q \in {target} : \E b \in A : b.to = q
    BY <1>0, BellsAre
  <2>3. Notified!Begin(n, "decision", p, {}, A, {target})
    BY <2>1
  <2> HIDE DEF A
  <2>4. /\ {target} \in SUBSET Persons /\ \A b \in {} \cup A : b.to # p /\ b.reason # "reply"
        /\ \A q \in {target} : \E b \in {} \cup A : b.to = q
    BY <2>2
  <2> QED BY <1>0, <2>2, <2>3, <2>4, BeginFits
<1>6. CASE Notified!AddedToCommunity(n, p)
  <2>1. PICK added \in SUBSET (Persons \ {p}) :
          Notified!Begin(n, "added", p, {}, Notified!Bells(added, "added"), added)
    BY <1>6 DEF Notified!AddedToCommunity
  <2> DEFINE A == Notified!Bells(added, "added")
  <2>2. /\ A \in SUBSET Bell /\ \A b \in A : b.to \in added /\ b.reason = "added"
        /\ \A q \in added : \E b \in A : b.to = q
    BY <1>0, BellsAre
  <2>3. Notified!Begin(n, "added", p, {}, A, added)
    BY <2>1
  <2> HIDE DEF A
  <2>4. /\ added \in SUBSET Persons /\ \A b \in {} \cup A : b.to # p /\ b.reason # "reply"
        /\ \A q \in added : \E b \in {} \cup A : b.to = q
    BY <2>2
  <2> QED BY <1>0, <2>2, <2>3, <2>4, BeginFits
<1> QED BY <1>1, <1>2, <1>3, <1>4, <1>5, <1>6

\* A step of a notice under way: what it says and to whom stays, what is still to be
\* told shrinks, and what rang was to be told.
LEMMA StepFits ==
  ASSUME NotifierInv, NEW n \in Notices, NEW next \in NoticeType,
         notice' = [notice EXCEPT ![n] = next],
         notice[n].stage # "none", next.stage # "none",
         next.event = notice[n].event, next.actor = notice[n].actor,
         next.mails = notice[n].mails,
         next.first \subseteq notice[n].first, next.second \subseteq notice[n].second,
         UNCHANGED <<members, active>>,
         bells' \in [Notices \X Persons \X Notified!Reasons -> 0..1],
         \A m \in Notices \ {n}, p \in Persons, r \in Notified!Reasons :
           bells'[<<m, p, r>>] = bells[<<m, p, r>>],
         \A p \in Persons, r \in Notified!Reasons :
           /\ bells'[<<n, p, r>>] >= bells[<<n, p, r>>]
           /\ bells'[<<n, p, r>>] > 0 => Told(n, p, r)
           /\ [to |-> p, reason |-> r] \in next.first \cup next.second
                => bells'[<<n, p, r>>] = bells[<<n, p, r>>],
         next.stage = "second" => next.first = {},
         next.stage \in {"first", "second"} =>
           /\ notice[n].stage \in {"first", "second"}
           /\ \A p \in Persons, r \in Notified!Reasons : Told(n, p, r) =>
                bells'[<<n, p, r>>] > 0 \/ [to |-> p, reason |-> r] \in next.first \cup next.second,
         mailed' \subseteq [notice : Notices, to : Persons],
         \A m \in mailed' \ mailed : Notified!BellsOf(m.notice, m.to)' # {}
  PROVE  NotifierInv'
<1>1. notice \in [Notices -> NoticeType] /\ NoticeFits(n) /\ ToldAtMostOnce(n)
  BY DEF NotifierInv, NotifierType
<1>2. notice' \in [Notices -> NoticeType] /\ notice'[n] = next
      /\ \A m \in Notices : m # n => notice'[m] = notice[m]
  BY <1>1
<1>3. NotifierType'
  BY <1>2 DEF NotifierInv, NotifierType
<1>4. ASSUME NEW m \in Notices, m # n PROVE NoticeFits(m)' /\ ToldAtMostOnce(m)'
  BY <1>1, <1>2, <1>4, OtherNotice DEF NotifierInv
<1>5. ASSUME NEW p \in Persons, NEW r \in Notified!Reasons, Told(n, p, r)'
      PROVE  Told(n, p, r)
  BY <1>2, <1>5 DEF Told
<1>6. ToldAtMostOnce(n)'
  <2>1. notice'[n].event = notice[n].event /\ notice'[n].actor = notice[n].actor
        /\ notice[n].actor \subseteq Persons
    BY <1>1, <1>2 DEF NoticeType
  <2> QED BY <1>1, <1>5, <2>1 DEF ToldAtMostOnce
<1>7. NoticeFits(n)'
  <2>1. notice[n].mails \subseteq Persons /\ notice'[n].mails = notice[n].mails
    BY <1>1, <1>2 DEF NoticeType
  <2>2. ASSUME notice'[n].stage \in {"first", "second"}, NEW p \in notice'[n].mails
        PROVE  \E r \in Notified!Reasons : Told(n, p, r)'
    <3>1. PICK r \in Notified!Reasons : Told(n, p, r)
      BY <1>1, <1>2, <2>1, <2>2 DEF NoticeFits
    <3>2. Told(n, p, r)'
      BY <1>2, <2>1, <2>2, <3>1 DEF Told
    <3> QED BY <3>2
  <2>3. \A p \in Persons, r \in Notified!Reasons :
          [to |-> p, reason |-> r] \in notice'[n].first \cup notice'[n].second
            => bells'[<<n, p, r>>] = 0
    BY <1>1, <1>2 DEF NoticeFits
  <2> QED BY <1>1, <1>2, <2>2, <2>3 DEF NoticeFits
<1>8. ASSUME NEW m \in mailed' PROVE Notified!BellsOf(m.notice, m.to)' # {}
  <2>1. CASE m \in mailed
    <3>1. m.notice \in Notices /\ m.to \in Persons
      BY <2>1 DEF NotifierInv, NotifierType
    <3>2. PICK r \in Notified!Reasons : bells[<<m.notice, m.to, r>>] > 0
      BY <2>1 DEF NotifierInv, Notified!MailedHaveBells, Notified!BellsOf
    <3>3. bells[<<m.notice, m.to, r>>] \in 0..1 /\ bells'[<<m.notice, m.to, r>>] \in 0..1
      BY <3>1 DEF NotifierInv, NotifierType
    <3>4. bells'[<<m.notice, m.to, r>>] > 0
      <4>1. CASE m.notice = n
        <5>1. bells'[<<n, m.to, r>>] >= bells[<<n, m.to, r>>]
          BY <3>1
        <5> QED BY <3>2, <3>3, <4>1, <5>1
      <4>2. CASE m.notice # n
        <5>1. bells'[<<m.notice, m.to, r>>] = bells[<<m.notice, m.to, r>>]
          BY <3>1, <4>2
        <5> QED BY <3>2, <5>1
      <4> QED BY <4>1, <4>2
    <3> QED BY <3>4 DEF Notified!BellsOf
  <2> QED BY <2>1
<1> QED BY <1>3, <1>4, <1>6, <1>7, <1>8 DEF NotifierInv, Notified!MailedHaveBells

LEMMA BatchFits ==
  ASSUME NotifierInv, NEW n \in Notices, NEW b \in Notified!Batch(n),
         notice[n].stage \in {"first", "second", "failed"}
  PROVE  /\ b \in notice[n].first \cup notice[n].second
         /\ b.to \in Persons /\ b.reason \in Notified!Reasons
         /\ b = [to |-> b.to, reason |-> b.reason]
         /\ bells[<<n, b.to, b.reason>>] = 0 /\ Told(n, b.to, b.reason)
         /\ Notified!Without(n, b) \in NoticeType
         /\ Notified!Without(n, b).stage = notice[n].stage
         /\ Notified!Without(n, b).event = notice[n].event
         /\ Notified!Without(n, b).actor = notice[n].actor
         /\ Notified!Without(n, b).mails = notice[n].mails
         /\ Notified!Without(n, b).first \subseteq notice[n].first
         /\ Notified!Without(n, b).second \subseteq notice[n].second
         /\ Notified!Without(n, b).first \cup Notified!Without(n, b).second
              = (notice[n].first \cup notice[n].second) \ {b}
<1>1. notice[n] \in NoticeType /\ NoticeFits(n)
  BY DEF NotifierInv, NotifierType
<1>2. b \in notice[n].first \cup notice[n].second
  BY DEF Notified!Batch
<1>3. b \in Bell
  BY <1>1, <1>2 DEF NoticeType
<1>4. /\ b.to \in Persons /\ b.reason \in Notified!Reasons
      /\ b = [to |-> b.to, reason |-> b.reason]
  BY <1>3 DEF Bell
<1>5. bells[<<n, b.to, b.reason>>] = 0 /\ Told(n, b.to, b.reason)
  BY <1>1, <1>2, <1>4 DEF NoticeFits, Told
<1>6. CASE notice[n].stage = "first"
  <2>1. b \in notice[n].first /\ b \notin notice[n].second
    BY <1>1, <1>6 DEF Notified!Batch, NoticeFits
  <2>2. Notified!Without(n, b) = [notice[n] EXCEPT !.first = @ \ {b}]
    BY <1>6 DEF Notified!Without
  <2> QED BY <1>1, <1>2, <1>4, <1>5, <2>1, <2>2 DEF NoticeType
<1>7. CASE notice[n].stage # "first"
  <2>1. b \in notice[n].second /\ b \notin notice[n].first
    BY <1>1, <1>7 DEF Notified!Batch, NoticeFits
  <2>2. Notified!Without(n, b) = [notice[n] EXCEPT !.second = @ \ {b}]
    BY <1>7 DEF Notified!Without
  <2> QED BY <1>1, <1>2, <1>4, <1>5, <2>1, <2>2 DEF NoticeType
<1> QED BY <1>6, <1>7

LEMMA StoreFits ==
  ASSUME NotifierInv, NEW n \in Notices, Notified!StoreBell(n)
  PROVE  NotifierInv'
<1>1. PICK b \in Notified!Batch(n) :
        \/ /\ b.to \notin Gone
           /\ bells' = [bells EXCEPT ![<<n, b.to, b.reason>>] = @ + 1]
           /\ notice' = [notice EXCEPT ![n] = Notified!Without(n, b)]
        \/ /\ notice' = [notice EXCEPT ![n] =
                [Notified!Without(n, b) EXCEPT !.stage = "failed",
                   !.second = IF notice[n].stage = "first" THEN {} ELSE @]]
           /\ UNCHANGED bells
  BY DEF Notified!StoreBell
<1>2. notice[n].stage \in {"first", "second", "failed"} /\ UNCHANGED <<members, active, mailed, live>>
  BY DEF Notified!StoreBell
<1>3. bells \in [Notices \X Persons \X Notified!Reasons -> 0..1] /\ notice[n] \in NoticeType
      /\ mailed \subseteq [notice : Notices, to : Persons] /\ NoticeFits(n)
  BY DEF NotifierInv, NotifierType
<1>4. PICK q \in Persons, s \in Notified!Reasons : b.to = q /\ b.reason = s
  <2>1. b.to \in Persons /\ b.reason \in Notified!Reasons
    BY <1>2, BatchFits
  <2> QED BY <2>1
<1>5. b = [to |-> q, reason |-> s]
  <2>1. b = [to |-> b.to, reason |-> b.reason]
    BY <1>2, BatchFits
  <2> QED BY <1>4, <2>1
<1> DEFINE rest == Notified!Without(n, b)
<1>6. /\ b \in notice[n].first \cup notice[n].second
      /\ bells[<<n, q, s>>] = 0 /\ Told(n, q, s)
      /\ rest \in NoticeType /\ rest.stage = notice[n].stage /\ rest.event = notice[n].event
      /\ rest.actor = notice[n].actor /\ rest.mails = notice[n].mails
      /\ rest.first \subseteq notice[n].first /\ rest.second \subseteq notice[n].second
      /\ rest.first \cup rest.second = (notice[n].first \cup notice[n].second) \ {b}
  BY <1>2, <1>4, BatchFits
<1>7. CASE /\ bells' = [bells EXCEPT ![<<n, b.to, b.reason>>] = @ + 1]
           /\ notice' = [notice EXCEPT ![n] = rest]
  <2>1. bells' = [bells EXCEPT ![<<n, q, s>>] = 1]
    <3>1. bells' = [bells EXCEPT ![<<n, q, s>>] = bells[<<n, q, s>>] + 1]
      BY <1>4, <1>7
    <3>2. bells[<<n, q, s>>] + 1 = 1
      BY <1>6
    <3> QED BY <3>1, <3>2
  <2> HIDE DEF rest
  <2>2. <<n, q, s>> \in Notices \X Persons \X Notified!Reasons
    OBVIOUS
  <2>3. bells' \in [Notices \X Persons \X Notified!Reasons -> 0..1] /\ bells'[<<n, q, s>>] = 1
    BY <1>3, <2>1, <2>2
  <2>4. \A m \in Notices, p \in Persons, r \in Notified!Reasons :
          <<m, p, r>> # <<n, q, s>> => bells'[<<m, p, r>>] = bells[<<m, p, r>>]
    BY <1>3, <2>1
  <2>5. \A m \in Notices \ {n}, p \in Persons, r \in Notified!Reasons :
          bells'[<<m, p, r>>] = bells[<<m, p, r>>]
    BY <2>4
  <2>6. ASSUME NEW p \in Persons, NEW r \in Notified!Reasons
        PROVE  /\ bells'[<<n, p, r>>] >= bells[<<n, p, r>>]
               /\ bells'[<<n, p, r>>] > 0 => Told(n, p, r)
               /\ [to |-> p, reason |-> r] \in rest.first \cup rest.second
                    => bells'[<<n, p, r>>] = bells[<<n, p, r>>]
               /\ Told(n, p, r) =>
                    bells'[<<n, p, r>>] > 0
                      \/ [to |-> p, reason |-> r] \in rest.first \cup rest.second
    <3>0. bells[<<n, p, r>>] \in 0..1
      BY <1>3
    <3>1. CASE p = q /\ r = s
      BY <1>5, <1>6, <2>3, <3>1
    <3>2. CASE p # q \/ r # s
      <4>1. [to |-> p, reason |-> r] # b
        BY <1>4, <3>2
      <4>2. bells'[<<n, p, r>>] = bells[<<n, p, r>>]
        BY <2>4, <3>2
      <4> QED BY <1>6, <3>0, <4>1, <4>2 DEF Told
    <3> QED BY <3>1, <3>2
  <2>7. rest.stage = "second" => rest.first = {}
    BY <1>3, <1>6 DEF NoticeFits
  <2>8. rest.stage \in {"first", "second"} => notice[n].stage \in {"first", "second"}
    BY <1>6
  <2>9. notice[n].stage # "none" /\ rest.stage # "none" /\ mailed' = mailed
    BY <1>2, <1>6
  <2> QED
    BY <1>2, <1>3, <1>6, <1>7, <2>3, <2>5, <2>6, <2>7, <2>8, <2>9, StepFits
<1>8. CASE /\ notice' = [notice EXCEPT ![n] =
                [rest EXCEPT !.stage = "failed",
                   !.second = IF notice[n].stage = "first" THEN {} ELSE @]]
           /\ UNCHANGED bells
  <2> DEFINE lost == [rest EXCEPT !.stage = "failed",
                        !.second = IF notice[n].stage = "first" THEN {} ELSE @]
  <2> HIDE DEF rest
  <2>1. /\ lost \in NoticeType /\ lost.stage = "failed" /\ lost.event = rest.event
        /\ lost.actor = rest.actor /\ lost.mails = rest.mails
        /\ lost.first = rest.first /\ lost.second \subseteq rest.second
    BY <1>6 DEF NoticeType
  <2>2. notice' = [notice EXCEPT ![n] = lost]
    BY <1>8
  <2> HIDE DEF lost
  <2>3. ASSUME NEW p \in Persons, NEW r \in Notified!Reasons
        PROVE  /\ bells'[<<n, p, r>>] >= bells[<<n, p, r>>]
               /\ bells'[<<n, p, r>>] > 0 => Told(n, p, r)
    <3>1. bells[<<n, p, r>>] \in 0..1
      BY <1>3
    <3> QED BY <1>8, <3>1 DEF Told
  <2>4. bells' = bells /\ mailed' = mailed
    BY <1>2, <1>8
  <2>5. lost.first \subseteq notice[n].first /\ lost.second \subseteq notice[n].second
        /\ notice[n].stage # "none" /\ lost.stage # "none"
    BY <1>2, <1>6, <2>1
  <2>6. lost.event = notice[n].event /\ lost.actor = notice[n].actor /\ lost.mails = notice[n].mails
    BY <1>6, <2>1
  <2> QED BY <1>2, <1>3, <2>1, <2>2, <2>3, <2>4, <2>5, <2>6, StepFits
<1> QED BY <1>1, <1>7, <1>8

LEMMA NoticeMoves ==
  ASSUME NotifierInv, NEW n \in Notices,
         \/ Notified!NextBatch(n) \/ Notified!SendMails(n) \/ Notified!Push(n)
         \/ Notified!LookupFails(n)
  PROVE  NotifierInv'
<1>1. bells \in [Notices \X Persons \X Notified!Reasons -> 0..1] /\ notice[n] \in NoticeType
      /\ mailed \subseteq [notice : Notices, to : Persons] /\ NoticeFits(n)
  BY DEF NotifierInv, NotifierType
<1>2. PICK stage \in {"second", "push", "over"} : notice' = [notice EXCEPT ![n].stage = stage]
  BY DEF Notified!NextBatch, Notified!SendMails, Notified!Push, Notified!LookupFails
<1> DEFINE next == [notice[n] EXCEPT !.stage = stage]
<1>3. notice' = [notice EXCEPT ![n] = next]
  BY <1>2 DEF NotifierInv, NotifierType
<1>4. /\ next \in NoticeType /\ next.stage = stage /\ next.event = notice[n].event
      /\ next.actor = notice[n].actor /\ next.mails = notice[n].mails
      /\ next.first = notice[n].first /\ next.second = notice[n].second
  BY <1>1 DEF NoticeType
<1> HIDE DEF next
<1>5. notice[n].stage # "none" /\ UNCHANGED <<members, active, bells>>
  BY DEF Notified!NextBatch, Notified!SendMails, Notified!Push, Notified!LookupFails,
         Notified!ReadyToMail
<1>6. notice'[n].stage = stage
  BY <1>2 DEF NotifierInv, NotifierType, NoticeType
<1>7. stage = "second" => notice[n].first = {} /\ notice[n].stage = "first"
  <2>1. CASE Notified!NextBatch(n)
    BY <2>1 DEF Notified!NextBatch
  <2>2. CASE Notified!SendMails(n)
    <3>1. notice' = [notice EXCEPT ![n].stage = "push"]
      BY <2>2 DEF Notified!SendMails
    <3>2. notice'[n].stage = "push"
      BY <3>1 DEF NotifierInv, NotifierType, NoticeType
    <3> QED BY <1>6, <3>2
  <2>3. CASE Notified!Push(n) \/ Notified!LookupFails(n)
    <3>1. notice' = [notice EXCEPT ![n].stage = "over"]
      BY <2>3 DEF Notified!Push, Notified!LookupFails
    <3>2. notice'[n].stage = "over"
      BY <3>1 DEF NotifierInv, NotifierType, NoticeType
    <3> QED BY <1>6, <3>2
  <2> QED BY <2>1, <2>2, <2>3
<1>8. /\ mailed' \subseteq [notice : Notices, to : Persons]
      /\ \A m \in mailed' \ mailed : Notified!BellsOf(m.notice, m.to)' # {}
  <2>1. CASE Notified!SendMails(n)
    <3>1. /\ notice[n].stage = "second" /\ notice[n].second = {}
          /\ mailed' = mailed \cup {[notice |-> n, to |-> p] : p \in notice[n].mails \cap active}
      BY <2>1 DEF Notified!SendMails, Notified!ReadyToMail
    <3>2. notice[n].mails \subseteq Persons
      BY <1>1 DEF NoticeType
    <3>3. ASSUME NEW m \in mailed' \ mailed PROVE Notified!BellsOf(m.notice, m.to)' # {}
      <4>1. PICK p \in notice[n].mails : m = [notice |-> n, to |-> p]
        BY <3>1
      <4>2. m.notice = n /\ m.to = p /\ p \in Persons
        BY <3>2, <4>1
      <4>3. PICK r \in Notified!Reasons : Told(n, p, r)
        BY <1>1, <3>1 DEF NoticeFits
      <4>4. bells[<<n, p, r>>] > 0
        BY <1>1, <3>1, <4>3 DEF Told, NoticeFits
      <4> QED BY <1>5, <4>2, <4>4 DEF Notified!BellsOf
    <3> QED BY <1>1, <3>1, <3>2, <3>3
  <2>2. CASE ~Notified!SendMails(n)
    <3>1. mailed' = mailed
      BY <2>2 DEF Notified!NextBatch, Notified!Push, Notified!LookupFails
    <3> QED BY <1>1, <3>1
  <2> QED BY <2>1, <2>2
<1>9. ASSUME NEW p \in Persons, NEW r \in Notified!Reasons
      PROVE  /\ bells'[<<n, p, r>>] >= bells[<<n, p, r>>]
             /\ bells'[<<n, p, r>>] > 0 => Told(n, p, r)
             /\ Told(n, p, r) =>
                  bells'[<<n, p, r>>] > 0
                    \/ [to |-> p, reason |-> r] \in next.first \cup next.second
  <2>1. bells[<<n, p, r>>] \in 0..1
    BY <1>1
  <2> QED BY <1>4, <1>5, <2>1 DEF Told
<1>10. next.stage \in {"first", "second"} => notice[n].stage \in {"first", "second"}
  BY <1>4, <1>7
<1> QED
  BY <1>1, <1>3, <1>4, <1>5, <1>7, <1>8, <1>9, <1>10, StepFits

LEMMA NotifierStays == NotifierInv /\ [Notified!Next]_noticeVars => NotifierInv'
<1> SUFFICES ASSUME NotifierInv, [Notified!Next]_noticeVars PROVE NotifierInv'
  OBVIOUS
<1>1. ASSUME NEW n \in Notices, NEW p \in Persons \ Gone,
             \/ Notified!PostCreated(n, p) \/ Notified!CommentAdded(n, p)
             \/ Notified!ReactionChanged(n, p) \/ Notified!JoinRequested(n, p)
             \/ Notified!RequestDecided(n, p) \/ Notified!AddedToCommunity(n, p)
      PROVE  NotifierInv'
  BY <1>1, EventsFit
<1>2. ASSUME NEW n \in Notices,
             \/ Notified!StoreBell(n) \/ Notified!NextBatch(n) \/ Notified!SendMails(n)
             \/ Notified!Push(n) \/ Notified!LookupFails(n)
      PROVE  NotifierInv'
  BY <1>2, StoreFits, NoticeMoves
<1>3. CASE Notified!JoinOrLeave \/ Notified!ToggleActive \/ UNCHANGED noticeVars
  <2>1. UNCHANGED <<notice, bells, mailed>> /\ members' \subseteq Persons /\ active' \subseteq Persons
    BY <1>3 DEF Notified!JoinOrLeave, Notified!ToggleActive, noticeVars, NotifierInv, NotifierType
  <2>2. NotifierType'
    BY <2>1 DEF NotifierInv, NotifierType
  <2>3. \A n \in Notices : notice[n] \in NoticeType
    BY DEF NotifierInv, NotifierType
  <2>4. ASSUME NEW n \in Notices PROVE NoticeFits(n)' /\ ToldAtMostOnce(n)'
    BY <2>1, <2>3, OtherNotice DEF NotifierInv
  <2> QED
    BY <2>1, <2>2, <2>4 DEF NotifierInv, Notified!MailedHaveBells, Notified!BellsOf
<1> QED BY <1>1, <1>2, <1>3 DEF Notified!Next

\* Reasons are few, so one who is told for one reason at most has one entry at most.
LEMMA NotifierFits ==
  NotifierInv => Notified!TypeOK /\ Notified!ToldOnce /\ Notified!MailedHaveBells
<1> SUFFICES ASSUME NotifierInv PROVE Notified!TypeOK /\ Notified!ToldOnce
  BY DEF NotifierInv
<1>1. Notified!TypeOK
  <2>1. \A n \in Notices :
          notice[n].stage \in {"none", "first", "second", "failed", "push", "over"}
    BY DEF NotifierInv, NotifierType, NoticeType
  <2> QED BY <2>1 DEF NotifierInv, NotifierType, Notified!TypeOK
<1>2. ASSUME NEW n \in Notices, NEW p \in Persons
      PROVE  /\ \A r \in Notified!Reasons : bells[<<n, p, r>>] <= 1
             /\ notice[n].event = "comment" => Cardinality(Notified!BellsOf(n, p)) <= 1
             /\ p \in notice[n].actor => Notified!BellsOf(n, p) = {}
  <2>1. ToldAtMostOnce(n)
    BY DEF NotifierInv
  <2>2. \A r \in Notified!Reasons : bells[<<n, p, r>>] \in 0..1
    BY DEF NotifierInv, NotifierType
  <2>3. p \in notice[n].actor => Notified!BellsOf(n, p) = {}
    BY <2>1 DEF ToldAtMostOnce, Told, Notified!BellsOf
  <2>4. ASSUME notice[n].event = "comment" PROVE Cardinality(Notified!BellsOf(n, p)) <= 1
    <3>1. \A r, s \in Notified!BellsOf(n, p) : r = s
      BY <2>1, <2>4 DEF ToldAtMostOnce, Told, Notified!BellsOf
    <3>2. CASE Notified!BellsOf(n, p) = {}
      BY <3>2, FS_EmptySet
    <3>3. CASE Notified!BellsOf(n, p) # {}
      <4>1. PICK r : Notified!BellsOf(n, p) = {r}
        BY <3>1, <3>3
      <4>2. Cardinality({r}) = 1
        BY FS_Singleton
      <4> QED BY <4>1, <4>2
    <3> QED BY <3>2, <3>3
  <2> QED BY <2>2, <2>3, <2>4
<1>3. \A S : Notified!Cardinality(S) = Cardinality(S)
  BY DEF Notified!Cardinality, Cardinality
<1> QED BY <1>1, <1>2, <1>3 DEF Notified!ToldOnce

-----------------------------------------------------------------------------
(* The suggested courses: places among the answers that are kept number them  *)
(* from 0 without a gap, so a batch has no gap either, wherever it is cut off, *)
(* and a transaction that has a role to itself leaves exactly its batch.      *)

LEMMA CoursesCardinality == \A S : Courses!Cardinality(S) = Cardinality(S)
  BY DEF Courses!Cardinality, Cardinality

Place(kept, i) == Cardinality({j \in kept : j < i})

LEMMA PlacesGrow ==
  ASSUME NEW kept, IsFiniteSet(kept), kept \subseteq Nat
  PROVE  /\ \A i \in kept : Place(kept, i) \in 0..(Cardinality(kept) - 1)
         /\ \A i, j \in kept : i < j => Place(kept, i) < Place(kept, j)
<1>1. Cardinality(kept) \in Nat
  BY FS_CardinalityType
<1>2. ASSUME NEW i \in kept
      PROVE  /\ IsFiniteSet({j \in kept : j < i}) /\ Place(kept, i) \in Nat
             /\ IsFiniteSet({j \in kept : j < i} \cup {i})
             /\ Cardinality({j \in kept : j < i} \cup {i}) = Place(kept, i) + 1
  <2> DEFINE below == {j \in kept : j < i}
  <2>1. below \in SUBSET kept /\ i \notin below
    OBVIOUS
  <2> HIDE DEF below
  <2>2. IsFiniteSet(below)
    BY <2>1, FS_Subset
  <2>3. Cardinality(below) \in Nat
    BY <2>2, FS_CardinalityType
  <2>4. IsFiniteSet(below \cup {i}) /\ Cardinality(below \cup {i}) = Cardinality(below) + 1
    BY <2>1, <2>2, FS_AddElement
  <2> QED BY <2>2, <2>3, <2>4 DEF below, Place
<1>3. ASSUME NEW i \in kept PROVE Place(kept, i) \in 0..(Cardinality(kept) - 1)
  <2>1. {j \in kept : j < i} \cup {i} \in SUBSET kept
    OBVIOUS
  <2>2. Cardinality({j \in kept : j < i} \cup {i}) <= Cardinality(kept)
    BY <2>1, FS_Subset
  <2>3. Place(kept, i) \in Nat /\ Place(kept, i) + 1 <= Cardinality(kept)
    BY <1>2, <2>2
  <2> QED BY <1>1, <2>3
<1>4. ASSUME NEW i \in kept, NEW j \in kept, i < j PROVE Place(kept, i) < Place(kept, j)
  <2>0. kept \subseteq Nat /\ i \in Nat /\ j \in Nat
    OBVIOUS
  <2>1. {k \in kept : k < i} \cup {i} \in SUBSET {k \in kept : k < j}
    <3> SUFFICES ASSUME NEW k \in kept, k < i \/ k = i PROVE k < j
      OBVIOUS
    <3>1. k \in Nat
      BY <2>0
    <3> QED BY <1>4, <2>0, <3>1
  <2>2. IsFiniteSet({k \in kept : k < j})
    BY <1>2
  <2>3. Cardinality({k \in kept : k < i} \cup {i}) <= Cardinality({k \in kept : k < j})
    BY <2>1, <2>2, FS_Subset
  <2>4. Place(kept, i) \in Nat /\ Place(kept, j) \in Nat
        /\ Cardinality({k \in kept : k < i} \cup {i}) = Place(kept, i) + 1
    BY <1>2
  <2>5. Cardinality({k \in kept : k < j}) = Place(kept, j)
    BY DEF Place
  <2> QED BY <2>3, <2>4, <2>5
<1> QED BY <1>3, <1>4

\* As many places as there are numbers for them, and no two alike: all are taken.
LEMMA PlacesFill ==
  ASSUME NEW kept, IsFiniteSet(kept), kept \subseteq Nat
  PROVE  /\ \A i, j \in kept : Place(kept, i) = Place(kept, j) => i = j
         /\ \A k \in 0..(Cardinality(kept) - 1) : \E i \in kept : Place(kept, i) = k
<1> DEFINE T == 0..(Cardinality(kept) - 1)
           f == [i \in kept |-> Place(kept, i)]
<1>1. Cardinality(kept) \in Nat
  BY FS_CardinalityType
<1>2. IsFiniteSet(T) /\ Cardinality(T) = Cardinality(kept)
  <2>1. 0 \in Int /\ Cardinality(kept) - 1 \in Int
    BY <1>1
  <2>2. IsFiniteSet(T) /\ Cardinality(T) = IF 0 > Cardinality(kept) - 1 THEN 0
                                           ELSE (Cardinality(kept) - 1) - 0 + 1
    BY <2>1, FS_Interval
  <2> QED BY <1>1, <2>2
<1>3. \A i, j \in kept : Place(kept, i) = Place(kept, j) => i = j
  <2> SUFFICES ASSUME NEW i \in kept, NEW j \in kept, i # j
               PROVE  Place(kept, i) # Place(kept, j)
    OBVIOUS
  <2>1. i < j \/ j < i
    OBVIOUS
  <2>2. Place(kept, i) < Place(kept, j) \/ Place(kept, j) < Place(kept, i)
    BY <2>1, PlacesGrow
  <2>3. Place(kept, i) \in Int /\ Place(kept, j) \in Int
    <3>1. \A k \in kept : Place(kept, k) \in 0..(Cardinality(kept) - 1)
      BY PlacesGrow
    <3> QED BY <1>1, <3>1
  <2> QED BY <2>2, <2>3
<1>4. f \in [kept -> T]
  BY PlacesGrow
<1>5. f \in Injection(kept, T)
  BY <1>3, <1>4 DEF Injection, IsInjective
<1>6. f \in Surjection(kept, T)
  <2> HIDE DEF f, T
  <2> QED BY <1>2, <1>5, FS_Injection
<1>7. \A k \in T : \E i \in kept : f[i] = k
  BY <1>6 DEF Surjection
<1> QED BY <1>3, <1>7

\* A batch: each course once, ranked from 0 without a gap.
Batched(parsed) ==
  /\ parsed \subseteq Courses!Course /\ IsFiniteSet(parsed)
  /\ \A c, d \in parsed : c.url = d.url => c = d
  /\ {c.rank : c \in parsed} = 0..(Cardinality(parsed) - 1)

Kept(reply) ==
  {i \in DOMAIN reply :
     /\ Courses!Usable(reply[i])
     /\ \A j \in DOMAIN reply : j < i /\ Courses!Usable(reply[j]) => reply[j].url # reply[i].url}

LEMMA KeptFits ==
  ASSUME NEW reply \in Replies
  PROVE  /\ IsFiniteSet(Kept(reply)) /\ Kept(reply) \subseteq Nat
         /\ \A i \in Kept(reply) : reply[i].url \in Urls
         /\ \A i, j \in Kept(reply) : reply[i].url = reply[j].url => i = j
<1>1. reply \in Seq(Courses!Raw)
  BY LiveAssumption
<1>2. DOMAIN reply = 1..Len(reply) /\ Len(reply) \in Nat
      /\ \A i \in DOMAIN reply : reply[i] \in Courses!Raw
  BY <1>1
<1>3. IsFiniteSet(1..Len(reply))
  <2>1. 1 \in Int /\ Len(reply) \in Int
    BY <1>2
  <2> QED BY <2>1, FS_Interval
<1>4. Kept(reply) \in SUBSET (1..Len(reply))
  BY <1>2 DEF Kept
<1>5. IsFiniteSet(Kept(reply)) /\ Kept(reply) \subseteq Nat
  BY <1>2, <1>3, <1>4, FS_Subset
<1>6. \A i \in Kept(reply) : reply[i].url \in Urls
  BY <1>2, <1>4 DEF Courses!Raw
<1>7. ASSUME NEW i \in Kept(reply), NEW j \in Kept(reply), reply[i].url = reply[j].url
      PROVE  i = j
  <2>1. ~(i < j) /\ ~(j < i)
    BY <1>7 DEF Kept
  <2>2. i \in Nat /\ j \in Nat
    BY <1>5
  <2> QED BY <2>1, <2>2
<1> QED BY <1>5, <1>6, <1>7

LEMMA ParsedAs ==
  ASSUME NEW reply \in Replies
  PROVE  Courses!Parsed(reply) =
           {[url |-> reply[i].url, rank |-> Place(Kept(reply), i)] :
              i \in {k \in Kept(reply) : Place(Kept(reply), k) < CoursesPerRole}}
BY CoursesCardinality DEF Courses!Parsed, Kept, Place

\* What is parsed of an answer is a batch, whatever the model answered.
LEMMA ParsedFits ==
  ASSUME NEW reply \in Replies
  PROVE  Batched(Courses!Parsed(reply))
<1> DEFINE kept == Kept(reply)
           P == Courses!Parsed(reply)
           n == Cardinality(kept)
           m == IF n < CoursesPerRole THEN n ELSE CoursesPerRole
           T == 0..(m - 1)
           rankOf == [c \in P |-> c.rank]
<1>0. CoursesPerRole \in Nat
  BY LiveAssumption
<1>1. IsFiniteSet(kept) /\ kept \subseteq Nat /\ n \in Nat
  BY KeptFits, FS_CardinalityType
<1>2. P = {[url |-> reply[i].url, rank |-> Place(kept, i)] :
             i \in {k \in kept : Place(kept, k) < CoursesPerRole}}
  BY ParsedAs
<1>3. /\ \A i \in kept : Place(kept, i) \in 0..(n - 1) /\ reply[i].url \in Urls
      /\ \A i, j \in kept : Place(kept, i) = Place(kept, j) => i = j
      /\ \A k \in 0..(n - 1) : \E i \in kept : Place(kept, i) = k
      /\ \A i, j \in kept : reply[i].url = reply[j].url => i = j
  BY <1>1, KeptFits, PlacesGrow, PlacesFill
<1> HIDE DEF kept, P
<1>4. ASSUME NEW c \in P
      PROVE  \E i \in kept : /\ c = [url |-> reply[i].url, rank |-> Place(kept, i)]
                             /\ c.url = reply[i].url /\ c.rank = Place(kept, i)
                             /\ Place(kept, i) < CoursesPerRole
  BY <1>2
<1>5. P \subseteq Courses!Course
  <2> SUFFICES ASSUME NEW c \in P PROVE c \in Courses!Course
    OBVIOUS
  <2>1. PICK i \in kept : /\ c = [url |-> reply[i].url, rank |-> Place(kept, i)]
                          /\ Place(kept, i) < CoursesPerRole
    BY <1>4
  <2>2. Place(kept, i) \in 0..(CoursesPerRole - 1) /\ reply[i].url \in Urls
    BY <1>0, <1>1, <1>3, <2>1
  <2> QED BY <2>1, <2>2 DEF Courses!Course
<1>6. \A c, d \in P : c.url = d.url => c = d
  <2> SUFFICES ASSUME NEW c \in P, NEW d \in P, c.url = d.url PROVE c = d
    OBVIOUS
  <2>1. PICK i \in kept : c = [url |-> reply[i].url, rank |-> Place(kept, i)]
                          /\ c.url = reply[i].url
    BY <1>4
  <2>2. PICK j \in kept : d = [url |-> reply[j].url, rank |-> Place(kept, j)]
                          /\ d.url = reply[j].url
    BY <1>4
  <2>3. i = j
    BY <1>3, <2>1, <2>2
  <2> QED BY <2>1, <2>2, <2>3
<1>7. \A c, d \in P : c.rank = d.rank => c = d
  <2> SUFFICES ASSUME NEW c \in P, NEW d \in P, c.rank = d.rank PROVE c = d
    OBVIOUS
  <2>1. PICK i \in kept : c = [url |-> reply[i].url, rank |-> Place(kept, i)]
                          /\ c.rank = Place(kept, i)
    BY <1>4
  <2>2. PICK j \in kept : d = [url |-> reply[j].url, rank |-> Place(kept, j)]
                          /\ d.rank = Place(kept, j)
    BY <1>4
  <2>3. i = j
    BY <1>3, <2>1, <2>2
  <2> QED BY <2>1, <2>2, <2>3
<1>8. m \in Nat /\ \A k \in T : k \in 0..(n - 1) /\ k < CoursesPerRole
  BY <1>0, <1>1
<1>9. \A c \in P : c.rank \in T
  <2> SUFFICES ASSUME NEW c \in P PROVE c.rank \in T
    OBVIOUS
  <2>1. PICK i \in kept : c.rank = Place(kept, i) /\ Place(kept, i) < CoursesPerRole
    BY <1>4
  <2>2. Place(kept, i) \in 0..(n - 1)
    BY <1>3
  <2> QED BY <1>0, <1>1, <2>1, <2>2
<1>10. \A k \in T : \E c \in P : c.rank = k
  <2> SUFFICES ASSUME NEW k \in T PROVE \E c \in P : c.rank = k
    OBVIOUS
  <2>1. k \in 0..(n - 1) /\ k < CoursesPerRole
    BY <1>8
  <2>2. PICK i \in kept : Place(kept, i) = k
    BY <1>3, <2>1
  <2>3. [url |-> reply[i].url, rank |-> Place(kept, i)] \in P
    BY <1>2, <2>1, <2>2
  <2> WITNESS [url |-> reply[i].url, rank |-> Place(kept, i)] \in P
  <2> QED BY <2>2
<1>11. IsFiniteSet(T) /\ Cardinality(T) = m
  <2>1. m - 1 \in Int /\ 0 \in Int
    BY <1>8
  <2>2. IsFiniteSet(T) /\ Cardinality(T) = IF 0 > m - 1 THEN 0 ELSE (m - 1) - 0 + 1
    BY <2>1, FS_Interval
  <2> QED BY <1>8, <2>2
<1>12. rankOf \in Injection(P, T) /\ rankOf \in Surjection(P, T)
  <2>1. rankOf \in [P -> T]
    BY <1>9
  <2> QED BY <1>7, <1>10, <2>1 DEF Injection, Surjection, IsInjective
<1>13. IsFiniteSet(P) /\ Cardinality(P) = m
  <2> HIDE DEF rankOf, T
  <2> QED BY <1>11, <1>12, FS_Injection
<1>14. {c.rank : c \in P} = 0..(Cardinality(P) - 1)
  BY <1>9, <1>10, <1>13
<1> QED BY <1>5, <1>6, <1>13, <1>14 DEF Batched, P

-----------------------------------------------------------------------------
(* The requests: a role in hand from the question to the commit, a batch from *)
(* the answer on, and in a transaction exactly what was stored of the role.   *)

StoredCourse == [role : JobDescriptions, url : Urls, rank : 0..(CoursesPerRole - 1),
                 by : SUBSET Courses!Course]

RunRecord ==
  [task : Courses!Tasks, todo : SUBSET JobDescriptions, targets : SUBSET JobDescriptions,
   generated : SUBSET JobDescriptions, failed : SUBSET JobDescriptions,
   role : SUBSET JobDescriptions, parsed : SUBSET Courses!Course,
   deleted : SUBSET StoredCourse]

CoursesType == courses \subseteq StoredCourse /\ run \in [Generating -> RunRecord]

RunFits(k) ==
  /\ IF k.task \in {"ask", "delete", "insert"} THEN \E jd \in JobDescriptions : k.role = {jd}
     ELSE k.role = {}
  /\ k.generated \cup k.failed \cup k.todo \cup k.role = k.targets
  /\ k.task \in {"delete", "insert"} => k.parsed # {} /\ Batched(k.parsed)
  /\ k.task = "insert" => \A c \in k.deleted : {c.role} = k.role

CourseInv == CoursesType /\ \A r \in Generating : RunFits(run[r])

\* While no two transactions of a role overlap, one deletes all there is of its role.
AloneWithRole(r) ==
  run[r].task = "insert" =>
    /\ \A jd \in JobDescriptions : run[r].role = {jd} => run[r].deleted = Courses!Stored(jd)
    /\ \A o \in Generating \ {r} : run[o].task = "insert" => run[o].role # run[r].role

AloneInv == (\A r \in Generating : AloneWithRole(r)) /\ Courses!OneAnswerPerRole

LEMMA RoleInHand ==
  ASSUME NEW r \in Generating, NEW jd, run[r].role = {jd}
  PROVE  Courses!Role(r) = jd
BY DEF Courses!Role

LEMMA CoursesStart == Courses!Init => CourseInv /\ AloneInv
<1> SUFFICES ASSUME Courses!Init PROVE CourseInv /\ AloneInv
  OBVIOUS
<1>1. courses = {} /\ run = [r \in Generating |-> Courses!Idle]
  BY DEF Courses!Init
<1>2. Courses!Idle \in RunRecord /\ RunFits(Courses!Idle) /\ Courses!Idle.task = "none"
  BY DEF Courses!Idle, RunRecord, RunFits, Courses!Tasks
<1>3. CourseInv
  BY <1>1, <1>2 DEF CourseInv, CoursesType
<1>4. \A jd : Courses!Stored(jd) = {}
  BY <1>1 DEF Courses!Stored
<1>5. Courses!OneAnswerPerRole
  <2> SUFFICES ASSUME NEW jd \in JobDescriptions
               PROVE  {c.rank : c \in Courses!Stored(jd)}
                        = 0..(Courses!Cardinality(Courses!Stored(jd)) - 1)
    BY <1>4 DEF Courses!OneAnswerPerRole
  <2>1. Courses!Cardinality(Courses!Stored(jd)) = 0
    BY <1>4, CoursesCardinality, FS_EmptySet
  <2> QED BY <1>4, <2>1
<1> QED BY <1>1, <1>2, <1>3, <1>5 DEF AloneInv, AloneWithRole

\* A step that leaves the table as it is and is not in a transaction afterwards.
LEMMA OutsideTransaction ==
  ASSUME CourseInv, NEW r \in Generating, NEW next \in RunRecord,
         run' = [run EXCEPT ![r] = next], courses' = courses,
         RunFits(next), next.task # "insert"
  PROVE  CourseInv' /\ (AloneInv => AloneInv')
<1>1. /\ run' \in [Generating -> RunRecord] /\ run'[r] = next
      /\ \A o \in Generating : o # r => run'[o] = run[o]
  BY DEF CourseInv, CoursesType
<1>2. CourseInv'
  BY <1>1 DEF CourseInv, CoursesType
<1>3. ASSUME AloneInv PROVE AloneInv'
  <2>1. \A jd : Courses!Stored(jd)' = Courses!Stored(jd)
    BY DEF Courses!Stored
  <2>2. Courses!OneAnswerPerRole'
    BY <1>3, <2>1 DEF AloneInv, Courses!OneAnswerPerRole
  <2>3. ASSUME NEW o \in Generating PROVE AloneWithRole(o)'
    BY <1>1, <1>3, <2>1 DEF AloneInv, AloneWithRole
  <2> QED BY <2>2, <2>3 DEF AloneInv
<1> QED BY <1>2, <1>3

LEMMA FailedFits ==
  ASSUME CourseInv, NEW r \in Generating,
         run[r].task \in {"ask", "delete", "insert"}
  PROVE  /\ Courses!Failed(r) \in RunRecord /\ RunFits(Courses!Failed(r))
         /\ Courses!Failed(r).task = "next"
         /\ [Courses!Failed(r) EXCEPT !.failed = run[r].failed,
               !.generated = @ \cup run[r].role] \in RunRecord
         /\ RunFits([Courses!Failed(r) EXCEPT !.failed = run[r].failed,
                      !.generated = @ \cup run[r].role])
         /\ [Courses!Failed(r) EXCEPT !.failed = run[r].failed,
               !.generated = @ \cup run[r].role].task = "next"
<1>1. run[r] \in RunRecord /\ RunFits(run[r])
  BY DEF CourseInv, CoursesType
<1>2. "next" \in Courses!Tasks
  BY DEF Courses!Tasks
<1>3. Courses!Failed(r) \in RunRecord /\ RunFits(Courses!Failed(r))
      /\ Courses!Failed(r).task = "next"
  BY <1>1, <1>2 DEF Courses!Failed, RunRecord, RunFits
<1> DEFINE done == [Courses!Failed(r) EXCEPT !.failed = run[r].failed,
                      !.generated = @ \cup run[r].role]
<1>4. /\ done.task = "next" /\ done.todo = run[r].todo /\ done.targets = run[r].targets
      /\ done.generated = run[r].generated \cup run[r].role /\ done.failed = run[r].failed
      /\ done.role = {} /\ done.parsed = {} /\ done.deleted = {}
  BY <1>1 DEF Courses!Failed, RunRecord
<1>5. done \in RunRecord
  BY <1>1, <1>3 DEF RunRecord
<1> HIDE DEF done
<1>6. RunFits(done)
  BY <1>1, <1>4 DEF RunFits
<1> QED BY <1>3, <1>4, <1>5, <1>6 DEF done

LEMMA StartsFit ==
  ASSUME CourseInv, NEW r \in Generating, NEW targets \in SUBSET JobDescriptions,
         Courses!Start(r, targets)
  PROVE  CourseInv' /\ (AloneInv => AloneInv')
<1> DEFINE next == [Courses!Idle EXCEPT !.task = "next", !.todo = targets, !.targets = targets]
<1>1. Courses!Idle \in RunRecord /\ targets \in SUBSET JobDescriptions
  BY DEF Courses!Idle, RunRecord, Courses!Tasks
<1>2. run' = [run EXCEPT ![r] = next] /\ courses' = courses
  BY DEF Courses!Start
<1>3. next \in RunRecord
  BY <1>1 DEF RunRecord, Courses!Tasks
<1>4. /\ next.task = "next" /\ next.todo = targets /\ next.targets = targets
      /\ next.generated = {} /\ next.failed = {} /\ next.role = {}
  BY DEF Courses!Idle
<1>5. RunFits(next) /\ next.task # "insert"
  BY <1>4 DEF RunFits
<1> HIDE DEF next
<1> QED BY <1>2, <1>3, <1>5, OutsideTransaction

LEMMA BetweenTransactions ==
  ASSUME CourseInv, NEW r \in Generating,
         \/ Courses!RegenerateOne(r) \/ Courses!RegenerateAll(r) \/ Courses!NextTarget(r)
         \/ Courses!Generate(r) \/ Courses!Done(r)
  PROVE  CourseInv' /\ (AloneInv => AloneInv')
<1>0. run[r] \in RunRecord /\ RunFits(run[r]) /\ run \in [Generating -> RunRecord]
  BY DEF CourseInv, CoursesType
<1>1. CASE Courses!RegenerateOne(r) \/ Courses!RegenerateAll(r)
  BY <1>1, StartsFit DEF Courses!RegenerateOne, Courses!RegenerateAll
<1>2. CASE Courses!NextTarget(r)
  <2>1. PICK jd \in run[r].todo :
          run' = [run EXCEPT ![r].task = "ask", ![r].role = {jd}, ![r].todo = @ \ {jd}]
    BY <1>2 DEF Courses!NextTarget
  <2> DEFINE next == [run[r] EXCEPT !.task = "ask", !.role = {jd}, !.todo = @ \ {jd}]
  <2>2. run' = [run EXCEPT ![r] = next] /\ courses' = courses /\ run[r].task = "next"
    BY <1>0, <1>2, <2>1 DEF Courses!NextTarget
  <2>3. jd \in JobDescriptions
    BY <1>0, <2>1 DEF RunRecord
  <2>4. next \in RunRecord
    BY <1>0, <2>3 DEF RunRecord, Courses!Tasks
  <2>5. /\ next.task = "ask" /\ next.role = {jd} /\ next.todo = run[r].todo \ {jd}
        /\ next.targets = run[r].targets /\ next.generated = run[r].generated
        /\ next.failed = run[r].failed
    BY <1>0 DEF RunRecord
  <2> HIDE DEF next
  <2>6. run[r].role = {}
    BY <1>0, <2>2 DEF RunFits
  <2>7. next.generated \cup next.failed \cup next.todo \cup next.role = next.targets
    BY <1>0, <2>1, <2>5, <2>6 DEF RunFits
  <2>8. RunFits(next) /\ next.task # "insert"
    BY <2>3, <2>5, <2>7 DEF RunFits
  <2> QED BY <2>2, <2>4, <2>8, OutsideTransaction
<1>3. CASE Courses!Generate(r)
  <2>0. run[r].task = "ask" /\ courses' = courses
    BY <1>3 DEF Courses!Generate
  <2>1. CASE run' = [run EXCEPT ![r] = Courses!Failed(r)]
    <3>1. Courses!Failed(r) \in RunRecord /\ RunFits(Courses!Failed(r))
          /\ Courses!Failed(r).task # "insert"
      BY <2>0, FailedFits
    <3> QED BY <2>0, <2>1, <3>1, OutsideTransaction
  <2>2. ASSUME NEW reply \in Replies, Courses!Acceptable(Courses!Parsed(reply)),
               run' = [run EXCEPT ![r] =
                 [run[r] EXCEPT !.task = "delete", !.parsed = Courses!Parsed(reply)]]
        PROVE  CourseInv' /\ (AloneInv => AloneInv')
    <3> DEFINE P == Courses!Parsed(reply)
               next == [run[r] EXCEPT !.task = "delete", !.parsed = P]
    <3>1. P # {} /\ Batched(P)
      BY <2>2, ParsedFits DEF Courses!Acceptable
    <3>2. run' = [run EXCEPT ![r] = next]
      BY <2>2
    <3> HIDE DEF P
    <3>3. P \subseteq Courses!Course
      BY <3>1 DEF Batched
    <3>4. next \in RunRecord
      BY <1>0, <3>3 DEF RunRecord, Courses!Tasks
    <3>5. /\ next.task = "delete" /\ next.role = run[r].role /\ next.todo = run[r].todo
          /\ next.targets = run[r].targets /\ next.generated = run[r].generated
          /\ next.failed = run[r].failed /\ next.parsed = P
      BY <1>0 DEF RunRecord
    <3> HIDE DEF next
    <3>6. RunFits(next) /\ next.task # "insert"
      BY <1>0, <2>0, <3>1, <3>5 DEF RunFits
    <3> QED BY <2>0, <3>2, <3>4, <3>6, OutsideTransaction
  <2> QED BY <1>3, <2>1, <2>2 DEF Courses!Generate
<1>4. CASE Courses!Done(r)
  <2>1. run' = [run EXCEPT ![r] = Courses!Idle] /\ courses' = courses
    BY <1>4 DEF Courses!Done
  <2>2. Courses!Idle \in RunRecord /\ RunFits(Courses!Idle) /\ Courses!Idle.task # "insert"
    BY DEF Courses!Idle, RunRecord, RunFits, Courses!Tasks
  <2> QED BY <2>1, <2>2, OutsideTransaction
<1> QED BY <1>1, <1>2, <1>3, <1>4

LEMMA DeleteFits ==
  ASSUME CourseInv, NEW r \in Generating, Courses!Delete(r)
  PROVE  CourseInv' /\ (AloneInv /\ ~Overlaps => AloneInv')
<1>0. run[r] \in RunRecord /\ RunFits(run[r]) /\ run \in [Generating -> RunRecord]
      /\ courses \subseteq StoredCourse
  BY DEF CourseInv, CoursesType
<1>1. run[r].task = "delete" /\ courses' = courses
  BY DEF Courses!Delete
<1>2. PICK jd \in JobDescriptions : run[r].role = {jd}
  BY <1>0, <1>1 DEF RunFits
<1>3. Courses!Role(r) = jd
  BY <1>2, RoleInHand
<1> DEFINE next == [run[r] EXCEPT !.task = "insert", !.deleted = Courses!Stored(jd)]
<1>4. run' = [run EXCEPT ![r] = next]
  BY <1>0, <1>3 DEF Courses!Delete, Courses!Deleted
<1>5. Courses!Stored(jd) \subseteq StoredCourse /\ \A c \in Courses!Stored(jd) : c.role = jd
  BY <1>0 DEF Courses!Stored
<1>6. next \in RunRecord
  BY <1>0, <1>5 DEF RunRecord, Courses!Tasks
<1>7. /\ next.task = "insert" /\ next.role = {jd} /\ next.todo = run[r].todo
      /\ next.targets = run[r].targets /\ next.generated = run[r].generated
      /\ next.failed = run[r].failed /\ next.parsed = run[r].parsed
      /\ next.deleted = Courses!Stored(jd)
  BY <1>0, <1>2 DEF RunRecord
<1> HIDE DEF next
<1>8. RunFits(next)
  BY <1>0, <1>1, <1>2, <1>5, <1>7 DEF RunFits
<1>9. /\ run' \in [Generating -> RunRecord] /\ run'[r] = next
      /\ \A o \in Generating : o # r => run'[o] = run[o]
  BY <1>0, <1>4, <1>6
<1>10. CourseInv'
  BY <1>1, <1>8, <1>9 DEF CourseInv, CoursesType
<1>11. ASSUME AloneInv, ~Overlaps PROVE AloneInv'
  <2>1. \A j : Courses!Stored(j)' = Courses!Stored(j)
    BY <1>1 DEF Courses!Stored
  <2>2. Courses!OneAnswerPerRole'
    BY <1>11, <2>1 DEF AloneInv, Courses!OneAnswerPerRole
  <2>3. \A o \in Generating : run[o].task = "insert" => run[o].role # {jd}
    BY <1>3, <1>11 DEF Courses!Delete, Courses!InTransaction
  <2>4. AloneWithRole(r)'
    BY <1>7, <1>9, <2>1, <2>3 DEF AloneWithRole
  <2>5. ASSUME NEW o \in Generating, o # r PROVE AloneWithRole(o)'
    BY <1>7, <1>9, <1>11, <2>1, <2>3, <2>5 DEF AloneInv, AloneWithRole
  <2> QED BY <2>2, <2>4, <2>5 DEF AloneInv
<1> QED BY <1>10, <1>11

LEMMA RowsFit ==
  ASSUME CourseInv, NEW r \in Generating, run[r].task = "insert",
         NEW jd \in JobDescriptions, run[r].role = {jd}
  PROVE  /\ Courses!Rows(r) \subseteq StoredCourse /\ Courses!Rows(r) # {}
         /\ \A c \in Courses!Rows(r) : c.role = jd /\ c.by = run[r].parsed
         /\ \A c, d \in Courses!Rows(r) : c.url = d.url => c = d
         /\ {c.rank : c \in Courses!Rows(r)} = 0..(Cardinality(Courses!Rows(r)) - 1)
<1>1. run[r] \in RunRecord /\ RunFits(run[r])
  BY DEF CourseInv, CoursesType
<1> DEFINE P == run[r].parsed
           row(c) == [role |-> jd, url |-> c.url, rank |-> c.rank, by |-> P]
           R == Courses!Rows(r)
           f == [c \in P |-> row(c)]
<1>2. P # {} /\ Batched(P)
  BY <1>1 DEF RunFits
<1>3. R = {row(c) : c \in P}
  BY RoleInHand DEF Courses!Rows
<1> HIDE DEF P, R
<1>4. \A c \in P : c.url \in Urls /\ c.rank \in 0..(CoursesPerRole - 1)
  BY <1>2 DEF Batched, Courses!Course
<1>5. ASSUME NEW x \in R
      PROVE  \E c \in P : x = row(c) /\ x.role = jd /\ x.by = P /\ x.url = c.url /\ x.rank = c.rank
  BY <1>3
<1>6. P \subseteq Courses!Course
  BY <1>2 DEF Batched
<1>7. R \subseteq StoredCourse
  <2> SUFFICES ASSUME NEW x \in R PROVE x \in StoredCourse
    OBVIOUS
  <2>1. PICK c \in P : x = row(c)
    BY <1>5
  <2> QED BY <1>4, <1>6, <2>1 DEF StoredCourse
<1>8. R # {}
  BY <1>2, <1>3
<1>9. \A x, y \in R : x.url = y.url => x = y
  <2> SUFFICES ASSUME NEW x \in R, NEW y \in R, x.url = y.url PROVE x = y
    OBVIOUS
  <2>1. PICK c \in P : x = row(c) /\ x.url = c.url
    BY <1>5
  <2>2. PICK d \in P : y = row(d) /\ y.url = d.url
    BY <1>5
  <2>3. c = d
    BY <1>2, <2>1, <2>2 DEF Batched
  <2> QED BY <2>1, <2>2, <2>3
<1>10. \A c \in P : f[c] \in R /\ f[c].url = c.url
  BY <1>3
<1>11. f \in [P -> R]
  BY <1>10
<1>12. f \in Surjection(P, R)
  BY <1>3, <1>11 DEF Surjection
<1>13. f \in Injection(P, R)
  <2>1. ASSUME NEW c \in P, NEW d \in P, f[c] = f[d] PROVE c = d
    <3>1. c.url = d.url
      BY <1>10, <2>1
    <3> QED BY <1>2, <3>1 DEF Batched
  <2> QED BY <1>11, <2>1 DEF Injection, IsInjective
<1>14. IsFiniteSet(R) /\ Cardinality(R) = Cardinality(P)
  <2>1. IsFiniteSet(P)
    BY <1>2 DEF Batched
  <2> HIDE DEF f
  <2> QED BY <1>12, <1>13, <2>1, FS_Surjection
<1>15. {x.rank : x \in R} = {c.rank : c \in P}
  <2>1. ASSUME NEW c \in P PROVE \E x \in R : x.rank = c.rank
    <3>1. row(c) \in R /\ row(c).rank = c.rank
      BY <1>3
    <3> QED BY <3>1
  <2>2. ASSUME NEW x \in R PROVE \E c \in P : x.rank = c.rank
    BY <1>5
  <2> QED BY <2>1, <2>2
<1>16. {x.rank : x \in R} = 0..(Cardinality(R) - 1)
  BY <1>2, <1>14, <1>15 DEF Batched
<1>17. \A x \in R : x.role = jd /\ x.by = P
  BY <1>5
<1> QED BY <1>7, <1>8, <1>9, <1>16, <1>17 DEF R, P

LEMMA InsertFits ==
  ASSUME CourseInv, NEW r \in Generating, Courses!Insert(r)
  PROVE  /\ CourseInv' /\ (AloneInv => AloneInv')
         /\ \A jd \in JobDescriptions : Courses!Stored(jd) # {} => Courses!Stored(jd)' # {}
<1>0. run[r] \in RunRecord /\ RunFits(run[r]) /\ run \in [Generating -> RunRecord]
      /\ courses \subseteq StoredCourse
  BY DEF CourseInv, CoursesType
<1>1. run[r].task = "insert"
  BY DEF Courses!Insert
<1>2. PICK jd \in JobDescriptions : run[r].role = {jd}
  BY <1>0, <1>1 DEF RunFits
<1>3. CASE run' = [run EXCEPT ![r] = Courses!Failed(r)] /\ courses' = courses
  <2>1. Courses!Failed(r) \in RunRecord /\ RunFits(Courses!Failed(r))
        /\ Courses!Failed(r).task # "insert"
    BY <1>1, FailedFits
  <2>2. CourseInv' /\ (AloneInv => AloneInv')
    BY <1>3, <2>1, OutsideTransaction
  <2> QED BY <1>3, <2>2 DEF Courses!Stored
<1>4. CASE /\ courses' = (courses \ run[r].deleted) \cup Courses!Rows(r)
           /\ run' = [run EXCEPT ![r] = [Courses!Failed(r) EXCEPT
                        !.failed = run[r].failed, !.generated = @ \cup run[r].role]]
  <2> DEFINE next == [Courses!Failed(r) EXCEPT
                        !.failed = run[r].failed, !.generated = @ \cup run[r].role]
             R == Courses!Rows(r)
  <2>1. next \in RunRecord /\ RunFits(next) /\ next.task = "next"
    BY <1>1, FailedFits
  <2>2. run' = [run EXCEPT ![r] = next] /\ courses' = (courses \ run[r].deleted) \cup R
    BY <1>4
  <2>3. /\ R \subseteq StoredCourse /\ R # {}
        /\ \A c \in R : c.role = jd /\ c.by = run[r].parsed
        /\ {c.rank : c \in R} = 0..(Cardinality(R) - 1)
    BY <1>1, <1>2, RowsFit
  <2> HIDE DEF next, R
  <2>4. /\ run' \in [Generating -> RunRecord] /\ run'[r] = next
        /\ \A o \in Generating : o # r => run'[o] = run[o]
    BY <1>0, <2>1, <2>2
  <2>5. CourseInv'
    <3>1. courses' \subseteq StoredCourse
      BY <1>0, <2>2, <2>3
    <3> QED BY <2>1, <2>4, <3>1 DEF CourseInv, CoursesType
  <2>6. \A c \in run[r].deleted : c.role = jd
    BY <1>0, <1>1, <1>2 DEF RunFits
  <2>7. ASSUME NEW j \in JobDescriptions, j # jd PROVE Courses!Stored(j)' = Courses!Stored(j)
    BY <2>2, <2>3, <2>6, <2>7 DEF Courses!Stored
  <2>8. R \subseteq Courses!Stored(jd)'
    BY <2>2, <2>3 DEF Courses!Stored
  <2>9. \A j \in JobDescriptions : Courses!Stored(j) # {} => Courses!Stored(j)' # {}
    BY <2>3, <2>7, <2>8
  <2>10. ASSUME AloneInv PROVE AloneInv'
    <3>1. run[r].deleted = Courses!Stored(jd)
      BY <1>1, <1>2, <2>10 DEF AloneInv, AloneWithRole
    <3>2. Courses!Stored(jd)' = R
      BY <2>2, <2>3, <3>1 DEF Courses!Stored
    <3>3. ASSUME NEW j \in JobDescriptions
          PROVE  /\ \A c, d \in Courses!Stored(j)' : c.by = d.by
                 /\ {c.rank : c \in Courses!Stored(j)'}
                      = 0..(Courses!Cardinality(Courses!Stored(j)') - 1)
      <4>1. CASE j = jd
        BY <2>3, <3>2, <4>1, CoursesCardinality
      <4>2. CASE j # jd
        BY <2>7, <2>10, <4>2 DEF AloneInv, Courses!OneAnswerPerRole
      <4> QED BY <4>1, <4>2
    <3>4. Courses!OneAnswerPerRole'
      BY <3>3 DEF Courses!OneAnswerPerRole
    <3>5. ASSUME NEW o \in Generating PROVE AloneWithRole(o)'
      <4>1. CASE o = r
        BY <2>1, <2>4, <4>1 DEF AloneWithRole
      <4>2. CASE o # r /\ run[o].task = "insert"
        <5>1. run[o].role # {jd}
          BY <1>1, <1>2, <2>10, <4>2 DEF AloneInv, AloneWithRole
        <5>2. \A j \in JobDescriptions : run[o].role = {j} => run[o].deleted = Courses!Stored(j)'
          BY <2>7, <2>10, <4>2, <5>1 DEF AloneInv, AloneWithRole
        <5>3. \A q \in Generating \ {o} : run'[q].task = "insert" => run'[q].role # run[o].role
          BY <2>1, <2>4, <2>10, <4>2 DEF AloneInv, AloneWithRole
        <5> QED BY <2>4, <4>2, <5>2, <5>3 DEF AloneWithRole
      <4>3. CASE o # r /\ run[o].task # "insert"
        BY <2>4, <4>3 DEF AloneWithRole
      <4> QED BY <4>1, <4>2, <4>3
    <3> QED BY <3>4, <3>5 DEF AloneInv
  <2> QED BY <2>5, <2>9, <2>10
<1> QED BY <1>3, <1>4 DEF Courses!Insert

LEMMA CoursesStay ==
  CourseInv /\ [Courses!Next]_courseVars => CourseInv' /\ (AloneInv /\ ~Overlaps => AloneInv')
<1> SUFFICES ASSUME CourseInv, [Courses!Next]_courseVars
             PROVE  CourseInv' /\ (AloneInv /\ ~Overlaps => AloneInv')
  OBVIOUS
<1>1. CASE UNCHANGED courseVars
  BY <1>1 DEF courseVars, CourseInv, CoursesType, RunFits, AloneInv, AloneWithRole,
              Courses!Stored, Courses!OneAnswerPerRole
<1>2. ASSUME NEW r \in Generating,
             \/ Courses!RegenerateOne(r) \/ Courses!RegenerateAll(r) \/ Courses!NextTarget(r)
             \/ Courses!Generate(r) \/ Courses!Done(r)
      PROVE  CourseInv' /\ (AloneInv => AloneInv')
  BY <1>2, BetweenTransactions
<1>3. ASSUME NEW r \in Generating, Courses!Delete(r)
      PROVE  CourseInv' /\ (AloneInv /\ ~Overlaps => AloneInv')
  BY <1>3, DeleteFits
<1>4. ASSUME NEW r \in Generating, Courses!Insert(r)
      PROVE  CourseInv' /\ (AloneInv => AloneInv')
  BY <1>4, InsertFits
<1> QED BY <1>1, <1>2, <1>3, <1>4 DEF Courses!Next

LEMMA CoursesFit == CourseInv => Courses!TypeOK
<1> SUFFICES ASSUME CourseInv PROVE Courses!TypeOK
  OBVIOUS
<1>1. ASSUME NEW c \in courses
      PROVE  c.role \in JobDescriptions /\ c.url \in Urls /\ c.rank \in 0..(CoursesPerRole - 1)
  BY DEF CourseInv, CoursesType, StoredCourse
<1>2. ASSUME NEW r \in Generating
      PROVE  /\ run[r].task \in Courses!Tasks /\ run[r].parsed \subseteq Courses!Course
             /\ run[r].generated \cup run[r].failed \cup run[r].todo \cup run[r].role = run[r].targets
  <2>1. run[r] \in RunRecord /\ RunFits(run[r])
    BY DEF CourseInv, CoursesType
  <2> QED BY <2>1 DEF RunRecord, RunFits
<1> QED BY <1>1, <1>2 DEF Courses!TypeOK

\* A transaction that has its role to itself finds none of the addresses it inserts.
LEMMA BatchInserts ==
  CourseInv /\ AloneInv => Courses!OneAnswerPerRole /\ Courses!BatchFitsIndex
<1> SUFFICES ASSUME CourseInv, AloneInv, NEW r \in Generating, run[r].task = "insert"
             PROVE  ~Courses!Conflict(r)
  BY DEF AloneInv, Courses!BatchFitsIndex
<1>1. run[r] \in RunRecord /\ RunFits(run[r])
  BY DEF CourseInv, CoursesType
<1>2. PICK jd \in JobDescriptions : run[r].role = {jd}
  BY <1>1 DEF RunFits
<1>3. run[r].deleted = {c \in courses : c.role = jd}
  BY <1>2 DEF AloneInv, AloneWithRole, Courses!Stored
<1>4. /\ \A c \in Courses!Rows(r) : c.role = jd
      /\ \A c, d \in Courses!Rows(r) : c.url = d.url => c = d
  BY <1>2, RowsFit
<1> QED BY <1>3, <1>4 DEF Courses!Conflict

LEMMA NeverLeftEmpty ==
  CourseInv /\ [Courses!Next]_courseVars
    => [\A jd \in JobDescriptions : Courses!Stored(jd) # {} => Courses!Stored(jd)' # {}]_courseVars
<1> SUFFICES ASSUME CourseInv, Courses!Next, NEW jd \in JobDescriptions, Courses!Stored(jd) # {}
             PROVE  Courses!Stored(jd)' # {}
  OBVIOUS
<1>1. PICK r \in Generating :
        \/ Courses!RegenerateOne(r) \/ Courses!RegenerateAll(r) \/ Courses!NextTarget(r)
        \/ Courses!Generate(r) \/ Courses!Delete(r) \/ Courses!Insert(r) \/ Courses!Done(r)
  BY DEF Courses!Next
<1>2. CASE Courses!Insert(r)
  BY <1>2, InsertFits
<1>3. CASE ~Courses!Insert(r)
  <2>1. courses' = courses
    BY <1>1, <1>3 DEF Courses!RegenerateOne, Courses!RegenerateAll, Courses!Start,
         Courses!NextTarget, Courses!Generate, Courses!Delete, Courses!Done
  <2> QED BY <2>1 DEF Courses!Stored
<1> QED BY <1>2, <1>3

-----------------------------------------------------------------------------
(* The parts side by side *)

allVars == <<streamVars, clockVars, noticeVars, courseVars, decisionVars>>

LiveInv == StreamInv /\ ClockInv /\ NotifierInv /\ CourseInv /\ DecisionInv

LEMMA PartsStep ==
  [LiveNext]_allVars =>
    /\ [Next]_vars /\ [Clock!Next]_clockVars /\ [Notified!Next]_noticeVars
    /\ [Courses!Next]_courseVars /\ [Decisions!Next]_decisionVars
BY DEF LiveNext, allVars, streamVars

LEMMA LiveStarts == LiveInit => LiveInv /\ AloneInv
BY StreamsStart, ClockStarts, NotifierStarts, CoursesStart, DecisionsStart DEF LiveInit, LiveInv

LEMMA LiveStays ==
  LiveInv /\ [LiveNext]_allVars => LiveInv' /\ (AloneInv /\ ~Overlaps => AloneInv')
BY PartsStep, TypeStays, ReachedStays, ClockStays, NotifierStays, CoursesStay, DecisionsStay
   DEF LiveInv, StreamInv

\* The inductive invariants of the parts hold together, for every value of the
\* constants.
THEOREM LiveInvariant == LiveSpec => []LiveInv
<1>1. LiveInit => LiveInv
  BY LiveStarts
<1>2. LiveInv /\ [LiveNext]_allVars => LiveInv'
  BY LiveStays
<1> QED BY <1>1, <1>2, PTL DEF LiveSpec, allVars

\* Every part keeps its types; a stay in a stage is reminded of once and escalated
\* once, a comment rings for nobody twice, and whoever is mailed has the bell entry.
THEOREM NoticesAlwaysStand == LiveSpec => []NoticesStand
<1>1. LiveInv => NoticesStand
  BY MailsOnce, NotifierFits, CoursesFit, EntriesFit DEF LiveInv, StreamInv, NoticesStand
<1> QED BY <1>1, LiveInvariant, PTL

\* An employee's entries tell of decisions that stand, however the undo of one
\* interleaves with the decisions of others, unless clearing them failed.
THEOREM EmployeeBellsAlwaysStand == LiveSpec => []EmployeeBellsStand
<1>1. LiveInv => EmployeeBellsStand
  BY EntriesFit DEF LiveInv, EmployeeBellsStand
<1> QED BY <1>1, LiveInvariant, PTL

\* The queue of HR starts with a fresh clock, and a role that has suggestions keeps
\* some, also when transactions of one role overlap.
THEOREM StepsAlwaysStand == LiveSpec => StepsStand
<1>1. /\ LiveInv /\ [LiveNext]_allVars
          => [/\ request.status = "pending" /\ request'.status = "manager_approved"
              => Clock!DaysPending' = 0 /\ ~Clock!EscalationDue' /\ ~Clock!ReminderDue']_clockVars
      /\ LiveInv /\ [LiveNext]_allVars
          => [\A jd \in JobDescriptions :
                Courses!Stored(jd) # {} => Courses!Stored(jd)' # {}]_courseVars
  BY PartsStep, FreshClock, NeverLeftEmpty DEF LiveInv
<1> QED
  BY <1>1, LiveInvariant, PTL
  DEF LiveSpec, allVars, StepsStand, Clock!HrStageStartsFresh, Courses!NeverEmptied,
      Clock!vars, Courses!vars, clockVars, courseVars

\* While no two transactions of one role overlap, what a role shows is one answer of
\* the model, ranked without a gap, and no batch fails on the index for repeating
\* itself.
THEOREM SuggestionsAlwaysAgree == ~Overlaps /\ LiveSpec => []SuggestionsAgree
<1> SUFFICES ASSUME ~Overlaps PROVE LiveSpec => []SuggestionsAgree
  OBVIOUS
<1>1. LiveInit => LiveInv /\ AloneInv
  BY LiveStarts
<1>2. (LiveInv /\ AloneInv) /\ [LiveNext]_allVars => (LiveInv /\ AloneInv)'
  BY LiveStays
<1>3. LiveInv /\ AloneInv => SuggestionsAgree
  BY BatchInserts DEF LiveInv, SuggestionsAgree
<1> QED BY <1>1, <1>2, <1>3, PTL DEF LiveSpec, allVars

=============================================================================
