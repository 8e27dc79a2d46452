---------------------------- MODULE TokenRequests ----------------------------
(***************************************************************************)
(* The token-request workflow over its database: the rows of               *)
(* token_requests, token_balances and development_options, and the         *)
(* handlers that read and write them. Node runs one handler at a time but  *)
(* switches at every await, so a handler is a call that occupies a slot    *)
(* and takes one step per stretch of code between awaits. What a call      *)
(* keeps between two steps is what its closure keeps: the entities it      *)
(* loaded. repository.save writes the whole loaded entity back.            *)
(*                                                                         *)
(* Calls with one element is the system serving one request at a time;     *)
(* with two or more, handlers interleave.                                  *)
(***************************************************************************)
EXTENDS RequestRows, FiniteSets, FiniteSetsExt

CONSTANTS
  Requests,        \* primary keys of token_requests
  NoRequest,       \* a call that has no request in hand
  Calls,           \* slots for handlers in flight
  Coaches,         \* users with the coach role
  Offered,         \* the options in development_options
  Supervisor,      \* immediateSupervisorId, an approver for each employee
  Ops,             \* the operations that clients and timers invoke
  TokensPerYear,   \* TOKENS_PER_YEAR, the allocation of a new balance row
  OptionCost,      \* tokenCost of the two options with a fixed price
  MaxSubsidy,      \* rules.maxTokens of the learning subsidy
  Boosts,          \* the boost values an admin sets
  MaxYear,         \* bound: the last year modelled
  MaxNow           \* bound: the last tick of the undo clock

Operations ==
  {"create", "managerApprove", "hrApprove", "reject", "cancel", "resubmit",
   "undo", "setRequiresHr", "toggleOption", "updateBoost", "slaSweep",
   "tokenReminder", "bookSession", "nextYear", "restart"}

ASSUME RequestsAssumption ==
  /\ NoRequest \notin Requests
  /\ Ops \subseteq Operations /\ Offered \subseteq OptionTypes
  /\ Coaches \subseteq Users
  /\ Supervisor \in [Employees -> Users]
\* Primary keys are uuids.
ASSUME KeysAssumption == IsFiniteSet(Requests)
ASSUME AmountsAssumption ==
  /\ TokensPerYear \in Nat /\ MaxSubsidy \in Nat /\ MaxNow \in Nat
  /\ MaxYear \in Nat \ {0}
  /\ OptionCost \in [{"task_offloading", "coaching"} -> Nat]
  /\ Boosts \subseteq Nat

VARIABLES
  requests,   \* token_requests
  balances,   \* token_balances, one row per employee and year
  options,    \* development_options: requiresHrApproval and isActive
  booked,     \* requests that have a coaching_sessions row
  call,       \* the handlers in flight
  year,       \* new Date().getFullYear()
  now         \* ticks of the undo clock

db == <<requests, balances, options, booked>>
clock == <<year, now>>
vars == <<requests, balances, options, booked, call, year, now>>

-----------------------------------------------------------------------------
(* Tables and the handlers' local state *)

Years == 1..MaxYear
Accounts == Employees \X Years
Balance == [used : Nat, boost : Nat]

Remaining(balance) == TokensPerYear + balance.boost - balance.used

\* Faulty: forgets what is already used.
CanPayAfresh(balance, cost) == TokensPerYear + balance.boost >= cost
\* Faulty: the last token cannot be spent.
CanPayStrictly(balance, cost) == Remaining(balance) > cost

CanPay(balance, cost) == Remaining(balance) >= cost

Account(row) == <<row.employee, row.year>>

Entry == [id : Requests, row : Row]
LedgerEntry == [account : Accounts, balance : Balance]

Steps == {"idle", "check", "insert", "save", "recheck", "deduct", "charge",
          "finalize", "sweep", "remind", "book"}

CallState ==
  [step : Steps, id : Requests \cup {NoRequest}, row : Row,
   todo : SUBSET Entry, ledger : SUBSET LedgerEntry]

Idle ==
  [step |-> "idle", id |-> NoRequest, row |-> Vacant, todo |-> {}, ledger |-> {}]

Free(c) == call[c].step = "idle"

\* The call goes on to its next await holding the entity row of request r.
Hold(c, step, r, row) ==
  call' = [call EXCEPT ![c] = [Idle EXCEPT !.step = step, !.id = r, !.row = row]]

Return(c) == call' = [call EXCEPT ![c] = Idle]

Init ==
  /\ requests = [r \in Requests |-> Vacant]
  /\ balances = [a \in Accounts |-> [used |-> 0, boost |-> 0]]
  /\ options = [t \in OptionTypes |->
                  [requiresHr |-> t = "learning_subsidy", active |-> TRUE]]
  /\ booked = {}
  /\ call = [c \in Calls |-> Idle]
  /\ year = 1
  /\ now = 0

-----------------------------------------------------------------------------
(* Queries over token_requests *)

RequestsOf(e) == {r \in Requests : requests[r].employee = e}

TotalCost(S) == MapThenSumSet(LAMBDA r : requests[r].cost, S)

Committed(e, y) ==
  TotalCost({r \in RequestsOf(e) : requests[r].year = y /\ requests[r].status \in Pipeline})

\* Faulty: forgets what is still waiting for approval.
SpendableIgnoringPipeline(balance, e, y) == Remaining(balance)

Spendable(balance, e, y) == Remaining(balance) - Committed(e, y)

\* Faulty: only what HR has approved counts.
SubsidyApproved(e, y, except) ==
  TotalCost({r \in RequestsOf(e) \ except :
               /\ requests[r].type = "learning_subsidy"
               /\ requests[r].year = y
               /\ requests[r].status = "approved"})

\* assertLearningSubsidyYearlyCap, with `except` the request being edited.
SubsidyHeld(e, y, except) ==
  TotalCost({r \in RequestsOf(e) \ except :
               /\ requests[r].type = "learning_subsidy"
               /\ requests[r].year = y
               /\ requests[r].status \notin {"cancelled", "rejected"}})

ProjectIn(e, y, statuses) ==
  \E r \in RequestsOf(e) : /\ requests[r].type = "task_offloading"
                           /\ requests[r].year = y
                           /\ requests[r].status \in statuses

\* Faulty: only an approved project counts.
ProjectAllowedTwice(e, y) ==
  ~ProjectIn(e, y - 1, {"approved"}) /\ ~ProjectIn(e, y, {"approved"})

ProjectAllowed(e, y) ==
  /\ ~ProjectIn(e, y - 1, {"approved"})
  /\ ~ProjectIn(e, y, Pipeline \cup {"approved"})

\* Faulty: a request that has reached HR does not count.
CoachingAllowedBehind(e) ==
  \A r \in RequestsOf(e) : ~(requests[r].type = "coaching" /\ requests[r].status = "pending")

CoachingAllowed(e) ==
  \A r \in RequestsOf(e) : ~(requests[r].type = "coaching" /\ requests[r].status \in Pipeline)

Allowed(row) ==
  \/ row.type = "task_offloading" /\ ProjectAllowed(row.employee, row.year)
  \/ row.type = "coaching" /\ CoachingAllowed(row.employee)
  \/ /\ row.type = "learning_subsidy"
     /\ SubsidyHeld(row.employee, row.year, {}) + row.cost <= MaxSubsidy

-----------------------------------------------------------------------------
(* Submitting a request: read the balance, query the other requests, insert *)

CostsOf(t) ==
  IF t = "learning_subsidy" THEN 1..MaxSubsidy ELSE {OptionCost[t]}

CoachChoices(e, t) == IF t = "coaching" THEN Coaches \ {e} ELSE {Nobody}

\* Faulty: every request goes to the supervisor.
SupervisorFirst(e, coach) == Supervisor[e]

FirstApprover(e, coach) == IF coach = Nobody THEN Supervisor[e] ELSE coach

Create(c, r) ==
  /\ "create" \in Ops /\ Free(c)
  /\ requests[r] = Vacant /\ \A d \in Calls : call[d].id # r
  /\ \E e \in Employees, t \in Offered :
       /\ options[t].active
       /\ \E coach \in CoachChoices(e, t), cost \in CostsOf(t) :
            call' = [call EXCEPT ![c] =
                      [Idle EXCEPT !.step = "check", !.id = r,
                         !.row = NewRequest(e, t, cost, year, FirstApprover(e, coach), coach),
                         !.ledger = {[account |-> <<e, year>>,
                                      balance |-> balances[<<e, year>>]]}]]
  /\ UNCHANGED <<db, clock>>

\* The type's own rule, then assertSpendableBalance on the balance read before.
CheckNew(c) ==
  LET row == call[c].row IN
  /\ call[c].step = "check"
  /\ IF /\ Allowed(row)
        /\ \A l \in call[c].ledger :
             Spendable(l.balance, row.employee, row.year) >= row.cost
     THEN Hold(c, "insert", call[c].id, row)
     ELSE Return(c)
  /\ UNCHANGED <<db, clock>>

Insert(c) ==
  /\ call[c].step = "insert"
  /\ requests' = [requests EXCEPT ![call[c].id] = call[c].row]
  /\ Return(c)
  /\ UNCHANGED <<balances, options, booked, clock>>

-----------------------------------------------------------------------------
(* Decisions: load and check the row, change the entity, save it *)

ManagerApprove(c, r) ==
  /\ "managerApprove" \in Ops /\ Free(c)
  /\ \E approver \in Users : CanManagerApprove(requests[r], approver)
  /\ Hold(c, "save", r,
          ManagerApproved(requests[r], options[requests[r].type].requiresHr, now))
  /\ UNCHANGED <<db, clock>>

HrApprove(c, r) ==
  /\ "hrApprove" \in Ops /\ Free(c)
  /\ CanHrApprove(requests[r])
  /\ \E hr \in HrApprovers : Hold(c, "save", r, HrApproved(requests[r], hr, now))
  /\ UNCHANGED <<db, clock>>

Reject(c, r) ==
  /\ "reject" \in Ops /\ Free(c)
  /\ \E rejector \in Users, level \in {"manager", "hr"} :
       /\ CanReject(requests[r], rejector, level)
       /\ Hold(c, "save", r, Rejected(requests[r], rejector, level, now))
  /\ UNCHANGED <<db, clock>>

\* The approvers' notifications are sent between the guard and the save.
Cancel(c, r) ==
  /\ "cancel" \in Ops /\ Free(c)
  /\ CanCancel(requests[r])
  /\ Hold(c, "save", r, Cancelled(requests[r]))
  /\ UNCHANGED <<db, clock>>

Resubmit(c, r) ==
  LET row == requests[r] IN
  /\ "resubmit" \in Ops /\ Free(c)
  /\ CanResubmit(row)
  /\ \/ Hold(c, "save", r, Resubmitted(row, row.cost, row.coach))
     \/ /\ row.type = "coaching"
        /\ \E coach \in Coaches \ {row.employee} :
             Hold(c, "save", r, Resubmitted(row, row.cost, coach))
     \/ /\ row.type = "learning_subsidy"
        /\ \E cost \in 1..MaxSubsidy :
             Hold(c, "recheck", r, Resubmitted(row, cost, row.coach))
  /\ UNCHANGED <<db, clock>>

\* A changed subsidy amount is checked against the cap and the balance of the
\* current year.
Recheck(c) ==
  LET row == call[c].row IN
  /\ call[c].step = "recheck"
  /\ IF /\ SubsidyHeld(row.employee, year, {call[c].id}) + row.cost <= MaxSubsidy
        /\ CanPay(balances[<<row.employee, year>>], row.cost)
     THEN Hold(c, "save", call[c].id, row)
     ELSE Return(c)
  /\ UNCHANGED <<db, clock>>

\* repository.save: the row becomes the entity, whatever it is by now. A call
\* that approved the request goes on to deduct its tokens.
Save(c) ==
  LET row == call[c].row IN
  /\ call[c].step = "save"
  /\ requests' = [requests EXCEPT ![call[c].id] = row]
  /\ IF row.status = "approved" THEN Hold(c, "deduct", call[c].id, row) ELSE Return(c)
  /\ UNCHANGED <<balances, options, booked, clock>>

-----------------------------------------------------------------------------
(* Balances *)

\* deductTokens without a transaction: the request is already saved as approved
\* when an insufficient balance makes this throw.
Deduct(c) ==
  LET row == call[c].row
      a == Account(row)
  IN
  /\ call[c].step = "deduct"
  /\ IF CanPay(balances[a], row.cost)
     THEN call' = [call EXCEPT ![c] =
                    [Idle EXCEPT !.step = "charge",
                       !.ledger = {[account |-> a,
                                    balance |-> [balances[a] EXCEPT !.used = @ + row.cost]]}]]
     ELSE Return(c)
  /\ UNCHANGED <<db, clock>>

UpdateBoost(c, a) ==
  /\ "updateBoost" \in Ops /\ Free(c)
  /\ \E boost \in Boosts :
       call' = [call EXCEPT ![c] =
                 [Idle EXCEPT !.step = "charge",
                    !.ledger = {[account |-> a,
                                 balance |-> [balances[a] EXCEPT !.boost = boost]]}]]
  /\ UNCHANGED <<db, clock>>

SaveBalance(c) ==
  /\ call[c].step = "charge"
  /\ \E l \in call[c].ledger : balances' = [balances EXCEPT ![l.account] = l.balance]
  /\ Return(c)
  /\ UNCHANGED <<requests, options, booked, clock>>

\* The use-it-or-lose-it reminder loads every balance of the year, then mails
\* and saves one row after the other.
TokenReminder(c) ==
  /\ "tokenReminder" \in Ops /\ Free(c)
  /\ call' = [call EXCEPT ![c] =
               [Idle EXCEPT !.step = "remind",
                  !.ledger = {[account |-> <<e, year>>, balance |-> balances[<<e, year>>]] :
                                e \in Employees}]]
  /\ UNCHANGED <<db, clock>>

RemindOne(c) ==
  /\ call[c].step = "remind"
  /\ \E l \in call[c].ledger :
       /\ \/ /\ Remaining(l.balance) > 0
             /\ balances' = [balances EXCEPT ![l.account] = l.balance]
          \/ UNCHANGED balances           \* not due, inactive, or the mail failed
       /\ call' = [call EXCEPT ![c].ledger = @ \ {l}]
  /\ UNCHANGED <<requests, options, booked, clock>>

-----------------------------------------------------------------------------
(* Undo: one transaction that locks the request row and the balance row *)

\* Faulty: forgets that an option without HR charges at the first level.
RefundOfHrOnly(row) == IF row.decision.type = "hr_approve" THEN row.cost ELSE 0

RefundOf(row) == IF row.status = "approved" THEN row.cost ELSE 0

\* Faulty: not clamped at zero.
RefundedPastZero(balance, amount) == [balance EXCEPT !.used = @ - amount]

Refunded(balance, amount) ==
  [balance EXCEPT !.used = IF @ < amount THEN 0 ELSE @ - amount]

\* Faulty: does not look for sessions.
NeverHasSessions(r) == FALSE

HasSessions(r) == requests[r].type = "coaching" /\ r \in booked

Undo(c, r, actor) ==
  LET row == requests[r]
      a == Account(row)
  IN
  /\ "undo" \in Ops /\ Free(c)
  /\ CanUndo(row, actor, now)
  /\ ~(row.status = "approved" /\ HasSessions(r))
  /\ requests' = [requests EXCEPT ![r] = Undone(row)]
  /\ balances' = [balances EXCEPT ![a] = Refunded(@, RefundOf(row))]
  /\ UNCHANGED <<options, booked, call, clock>>

-----------------------------------------------------------------------------
(* Development options, and the requests a policy change leaves behind *)

\* Faulty: looks one stage too early.
StrandedAtManager(t) ==
  {[id |-> r, row |-> requests[r]] :
     r \in {q \in Requests : requests[q].type = t /\ requests[q].status = "pending"}}

Stranded(t) ==
  {[id |-> r, row |-> requests[r]] :
     r \in {q \in Requests : requests[q].type = t /\ requests[q].status = "manager_approved"}}

SetRequiresHr(c, t) ==
  /\ "setRequiresHr" \in Ops /\ Free(c)
  /\ \E b \in BOOLEAN :
       /\ options' = [options EXCEPT ![t].requiresHr = b]
       /\ IF options[t].requiresHr /\ ~b
          THEN call' = [call EXCEPT ![c] =
                         [Idle EXCEPT !.step = "finalize", !.todo = Stranded(t)]]
          ELSE UNCHANGED call
  /\ UNCHANGED <<requests, balances, booked, clock>>

ToggleOption(c, t) ==
  /\ "toggleOption" \in Ops /\ Free(c)
  /\ options' = [options EXCEPT ![t].active = ~@]
  /\ UNCHANGED <<requests, balances, booked, call, clock>>

\* One transaction: deduct from the locked balance row and save the request as
\* it was loaded; a request whose employee cannot pay is skipped.
FinalizeOne(c) ==
  /\ call[c].step = "finalize"
  /\ \E s \in call[c].todo :
       LET a == Account(s.row) IN
       /\ IF CanPay(balances[a], s.row.cost)
          THEN /\ requests' = [requests EXCEPT ![s.id] = PolicyApproved(s.row)]
               /\ balances' = [balances EXCEPT ![a].used = @ + s.row.cost]
          ELSE UNCHANGED <<requests, balances>>
       /\ call' = [call EXCEPT ![c].todo = @ \ {s}]
  /\ UNCHANGED <<options, booked, clock>>

-----------------------------------------------------------------------------
(* The approver-SLA sweep: load what is in flight, mail, save row after row *)

SlaSweep(c) ==
  /\ "slaSweep" \in Ops /\ Free(c)
  /\ call' = [call EXCEPT ![c] =
               [Idle EXCEPT !.step = "sweep",
                  !.todo = {[id |-> r, row |-> requests[r]] :
                              r \in {q \in Requests : requests[q].status \in Pipeline}}]]
  /\ UNCHANGED <<db, clock>>

SweepOne(c) ==
  /\ call[c].step = "sweep"
  /\ \E s \in call[c].todo :
       /\ \/ /\ ~s.row.escalated
             /\ requests' = [requests EXCEPT ![s.id] = [s.row EXCEPT !.escalated = TRUE]]
          \/ /\ ~s.row.reminded
             /\ requests' = [requests EXCEPT ![s.id] = [s.row EXCEPT !.reminded = TRUE]]
          \/ UNCHANGED requests           \* young enough, or the mail failed
       /\ call' = [call EXCEPT ![c].todo = @ \ {s}]
  /\ UNCHANGED <<balances, options, booked, clock>>

\* A loop over rows that has none left returns.
LoopDone(c) ==
  /\ \/ call[c].step \in {"finalize", "sweep"} /\ call[c].todo = {}
     \/ call[c].step = "remind" /\ call[c].ledger = {}
  /\ Return(c)
  /\ UNCHANGED <<db, clock>>

-----------------------------------------------------------------------------
(* Coaching sessions, as far as undo looks at them *)

BookSession(c, r) ==
  /\ "bookSession" \in Ops /\ Free(c)
  /\ requests[r].type = "coaching" /\ requests[r].status = "approved"
  /\ Hold(c, "book", r, Vacant)
  /\ UNCHANGED <<db, clock>>

InsertSession(c) ==
  /\ call[c].step = "book"
  /\ booked' = booked \cup {call[c].id}
  /\ Return(c)
  /\ UNCHANGED <<requests, balances, options, clock>>

-----------------------------------------------------------------------------
(* Time, and a restart of the process *)

Tick ==
  /\ now < MaxNow
  /\ now' = now + 1
  /\ UNCHANGED <<db, call, year>>

NextYear ==
  /\ "nextYear" \in Ops /\ year < MaxYear
  /\ year' = year + 1
  /\ UNCHANGED <<db, call, now>>

\* Every handler in flight is lost; what it had saved stays.
Restart ==
  /\ "restart" \in Ops /\ \E c \in Calls : ~Free(c)
  /\ call' = [c \in Calls |-> Idle]
  /\ UNCHANGED <<db, clock>>

-----------------------------------------------------------------------------

OnRequest(c, r) ==
  \/ Create(c, r)
  \/ ManagerApprove(c, r)
  \/ HrApprove(c, r)
  \/ Reject(c, r)
  \/ Cancel(c, r)
  \/ Resubmit(c, r)
  \/ \E actor \in Users : Undo(c, r, actor)
  \/ BookSession(c, r)

OnTables(c) ==
  \/ \E a \in Accounts : UpdateBoost(c, a)
  \/ \E t \in Offered : SetRequiresHr(c, t) \/ ToggleOption(c, t)
  \/ TokenReminder(c)
  \/ SlaSweep(c)

Continue(c) ==
  \/ CheckNew(c)
  \/ Insert(c)
  \/ Recheck(c)
  \/ Save(c)
  \/ Deduct(c)
  \/ SaveBalance(c)
  \/ RemindOne(c)
  \/ FinalizeOne(c)
  \/ SweepOne(c)
  \/ LoopDone(c)
  \/ InsertSession(c)

Next ==
  \/ \E c \in Calls, r \in Requests : OnRequest(c, r)
  \/ \E c \in Calls : OnTables(c) \/ Continue(c)
  \/ Tick
  \/ NextYear
  \/ Restart

Spec == Init /\ [][Next]_vars

-----------------------------------------------------------------------------
(* Invariants *)

\* Every table and every call in flight holds values of its type.
TypeOK ==
  /\ requests \in [Requests -> Row]
  /\ balances \in [Accounts -> Balance]
  /\ options \in [OptionTypes -> [requiresHr : BOOLEAN, active : BOOLEAN]]
  /\ booked \subseteq Requests
  /\ call \in [Calls -> CallState]
  /\ year \in Years
  /\ now \in Nat

\* In every stored row, the undo record fits the status (DecisionAgrees).
DecisionRecordAgrees == \A r \in Requests : DecisionAgrees(requests[r])

\* In every stored row, the approval and rejection columns fit the status
\* (AuditAgrees).
AuditColumnsAgree == \A r \in Requests : AuditAgrees(requests[r])

ApprovedCost(a) ==
  TotalCost({r \in Requests : Account(requests[r]) = a /\ requests[r].status = "approved"})

\* `used` never counts a token for which no approved request of that employee
\* and year stands: neither a rejected, withdrawn or undone request nor a second
\* deduction is paid for.
ChargedOnlyForApproved == \A a \in Accounts : balances[a].used <= ApprovedCost(a)

\* When no handler is running, the approved requests of a year add up to the
\* `used` of that year: the breakdown getUsageByYear returns.
UsageAddsUp ==
  (\A c \in Calls : Free(c)) => \A a \in Accounts : balances[a].used = ApprovedCost(a)

\* What waits for approval can still be paid: the requests in the pipeline and
\* the tokens already used fit in the allocation of the year.
PipelineFunded ==
  \A e \in Employees, y \in Years : Committed(e, y) <= Remaining(balances[<<e, y>>])

Held(row) == row.status \in Pipeline \cup {"approved"}

Subsidies(a) ==
  {r \in Requests : /\ requests[r].type = "learning_subsidy" /\ Held(requests[r])
                    /\ Account(requests[r]) = a}

\* The learning subsidies of one employee and year, waiting or approved, stay
\* within the yearly cap.
SubsidyWithinCap ==
  \A a \in Accounts : TotalCost(Subsidies(a)) <= MaxSubsidy

\* One task-offloading project per employee and year, waiting or approved.
OneProjectPerYear ==
  \A q, r \in Requests :
    /\ requests[q].type = "task_offloading" /\ Held(requests[q])
    /\ requests[r].type = "task_offloading" /\ Held(requests[r])
    /\ Account(requests[q]) = Account(requests[r])
    => q = r

\* One coaching request per employee waits for approval at a time.
OneCoachingInPipeline ==
  \A q, r \in Requests :
    /\ requests[q].type = "coaching" /\ requests[q].status \in Pipeline
    /\ requests[r].type = "coaching" /\ requests[r].status \in Pipeline
    /\ requests[q].employee = requests[r].employee
    => q = r

\* The coach an employee asked for is the one the request is routed to.
CoachIsFirstApprover ==
  \A r \in Requests :
    requests[r].type = "coaching" /\ requests[r].status = "pending"
      => requests[r].manager = requests[r].coach

\* A booked session belongs to a request that is approved.
SessionsOnlyForApproved ==
  \A r \in booked : requests[r].status = "approved"

\* With no handler running, nobody waits on HR for an option that skips HR,
\* unless the tokens are not there to pay for it.
NobodyWaitsOnSkippedHr ==
  (\A c \in Calls : Free(c)) =>
    \A r \in Requests :
      /\ requests[r].status = "manager_approved"
      /\ ~options[requests[r].type].requiresHr
      => Remaining(balances[Account(requests[r])]) < requests[r].cost

-----------------------------------------------------------------------------
(* Action properties *)

\* Withdrawing a request is final: nothing brings a cancelled one back.
CancelledIsFinal ==
  [][\A r \in Requests :
       requests[r].status = "cancelled" => requests'[r].status = "cancelled"]_vars

\* Once a request is approved, withdrawing it is blocked.
ApprovedNeverCancelled ==
  [][\A r \in Requests :
       requests[r].status = "approved" => requests'[r].status # "cancelled"]_vars

RefundsWhatItReverses ==
  \A r \in Requests :
    LET a == Account(requests[r]) IN
    requests[r].status = "approved" /\ requests'[r].status # "approved" =>
      balances'[a].used = IF balances[a].used < requests[r].cost
                          THEN 0 ELSE balances[a].used - requests[r].cost

\* A request stops being approved only together with the refund of its tokens.
ReversalRefunds == [][RefundsWhatItReverses]_vars

TakesWithinAllocation ==
  \A a \in Accounts :
    balances'[a].used > balances[a].used => Remaining(balances'[a]) >= 0

\* Whatever takes tokens leaves the employee within the year's allocation.
NeverOverdrawn == [][TakesWithinAllocation]_vars

\* HR's approval is only ever saved on a request that is waiting for HR.
HrApprovesWhatIsQueued ==
  [][\A r \in Requests :
       requests'[r].hrApproved /\ ~requests[r].hrApproved
         => requests[r].status = "manager_approved"]_vars

Passed(c, from, to) == call[c].step = from /\ call'[c].step = to

PassedWithRoom ==
  \A c \in Calls :
    Passed(c, "check", "insert") \/ Passed(c, "recheck", "save") =>
      LET row == call'[c].row IN
      Committed(row.employee, row.year) + row.cost <= Remaining(balances[Account(row)])

\* A balance check that lets a request pass has left room for the requests that
\* already wait for approval, in the year it will be charged to.
ChecksSubtractCommitted == [][PassedWithRoom]_vars

RecheckedWithinCap ==
  \A c \in Calls :
    Passed(c, "recheck", "save") =>
      LET row == call'[c].row IN
      TotalCost(Subsidies(Account(row)) \ {call[c].id}) + row.cost <= MaxSubsidy

\* A changed subsidy that passes its recheck fits in the cap of the year it will
\* be charged to, next to the employee's other subsidies of that year.
RecheckKeepsCap == [][RecheckedWithinCap]_vars

-----------------------------------------------------------------------------
(***************************************************************************)
(* The rows as the abstract lifecycle sees them. Served one at a time, the *)
(* handlers are its atomic steps: nothing moves a request that the         *)
(* lifecycle does not, and an undo returns it exactly to where the         *)
(* decision it takes back found it.                                        *)
(***************************************************************************)
Lifecycle ==
  INSTANCE RequestLifecycle WITH
    status <- [r \in Requests |-> requests[r].status],
    returnsTo <- [r \in Requests |->
                    IF Live(requests[r].decision) THEN requests[r].decision.previous
                    ELSE "none"]

ImplementsLifecycle == Lifecycle!Spec

\* A stored withdrawal is final, a reversal gives back what the approval took, no
\* deduction overdraws, and HR approves what is in its queue by then.
StepsKeepPromises ==
  CancelledIsFinal /\ ReversalRefunds /\ NeverOverdrawn /\ HrApprovesWhatIsQueued

\* What was charged, and every session, rests on an approval that stands.
ApprovalsBackThem == ChargedOnlyForApproved /\ SessionsOnlyForApproved

\* The rules of a submission hold from the check to the decision. What waits can still
\* be paid, the subsidies of a year stay within the cap, there is one project a year
\* and one coaching request at a time, which the coach asked for decides; and between
\* handlers exactly the approved requests have been charged.
SubmissionRulesHold ==
  /\ PipelineFunded /\ UsageAddsUp
  /\ SubsidyWithinCap /\ OneProjectPerYear
  /\ OneCoachingInPipeline /\ CoachIsFirstApprover

=============================================================================
