----------------------------- MODULE SessionRows -----------------------------
(***************************************************************************)
(* One row of coaching_sessions, and what each handler of                  *)
(* coaching-sessions.service.ts does to the entity it has loaded: the      *)
(* statuses it accepts (Can...) and the row it is about to write back.     *)
(* Guards that look at other rows are in CoachingSessions.                 *)
(*                                                                         *)
(* As in RequestRows, an operator under a comment "Faulty: ..." is a       *)
(* variant, with a plausible mistake, of the one that follows it.          *)
(***************************************************************************)
EXTENDS Integers

CONSTANTS
  Cycles,            \* approved coaching requests
  NoCycle,           \* the cycle of a row not inserted yet
  Slots,             \* primary keys of coach_availability
  NoSlot,
  Times,             \* the intervals that slots and proposals range over
  SessionsPerCycle   \* SESSIONS_PER_CYCLE

ASSUME CyclesAssumption == NoCycle \notin Cycles
ASSUME SlotsAssumption == NoSlot \notin Slots
ASSUME TimesAssumption ==
  Times \subseteq {t \in [start : Nat, end : Nat] : t.start < t.end}
ASSUME NumbersAssumption == SessionsPerCycle \in Nat

NoTime == [start |-> 0, end |-> 0]

Parties == {"employee", "coach"}

Released == {"cancelled", "declined", "no_show"}

\* What a coach may counter-propose a time for, other than an open proposal.
Proposable == {"pending_coach_approval", "scheduled", "pending_cancellation", "no_show"}

Statuses == Released \cup Proposable \cup {"pending_employee_approval", "completed"}

Row ==
  [status : Statuses \cup {"none"},
   cycle : Cycles \cup {NoCycle},                       \* tokenRequestId
   number : 0..SessionsPerCycle,                        \* sessionNumber
   slot : Slots \cup {NoSlot},                          \* availabilityId
   at : Times \cup {NoTime},                            \* scheduledAt, and its end
   proposed : Times \cup {NoTime},                      \* proposedDate, Start-, EndTime
   returned : BOOLEAN,                                  \* proposalReturnedAt
   before : Proposable \cup {"none"},                   \* statusBeforeProposal
   cancelBy : Parties \cup {"none"},                    \* cancelRequestedById
   beforeCancel : {"none", "scheduled"},                \* statusBeforeCancellation
   event : Times \cup {NoTime}]                         \* graphEventId: the event at this time

Vacant ==
  [status |-> "none", cycle |-> NoCycle, number |-> 0, slot |-> NoSlot,
   at |-> NoTime, proposed |-> NoTime, returned |-> FALSE, before |-> "none",
   cancelBy |-> "none", beforeCancel |-> "none", event |-> NoTime]

Booking(q, n, slot, t) ==
  [Vacant EXCEPT !.status = "pending_coach_approval", !.cycle = q, !.number = n,
                 !.slot = slot, !.at = t]

-----------------------------------------------------------------------------
(* The coach's answer, and what becomes of a confirmed session *)

AwaitsCoach(row) == row.status = "pending_coach_approval"

Confirmed(row) == [row EXCEPT !.status = "scheduled"]

Declined(row) == [row EXCEPT !.status = "declined"]

CanCancel(row) == row.status = "pending_coach_approval"

Cancelled(row) == [row EXCEPT !.status = "cancelled"]

IsScheduled(row) == row.status = "scheduled"

Completed(row) == [row EXCEPT !.status = "completed"]

NoShow(row) == [row EXCEPT !.status = "no_show"]

-----------------------------------------------------------------------------
(* Cancelling by mutual consent *)

CancelRequested(row, by) ==
  [row EXCEPT !.beforeCancel = row.status, !.status = "pending_cancellation",
              !.cancelBy = by]

CanAnswerCancel(row) == row.status = "pending_cancellation"

CanApproveCancel(row, caller) == CanAnswerCancel(row) /\ caller # row.cancelBy

\* The event reference is cleared when the event has been removed.
CancelApproved(row) ==
  [row EXCEPT !.status = "cancelled", !.beforeCancel = "none"]

CancelDeclined(row) ==
  [row EXCEPT !.status = IF row.beforeCancel = "none" THEN "scheduled" ELSE row.beforeCancel,
              !.beforeCancel = "none", !.cancelBy = "none"]

-----------------------------------------------------------------------------
(* The coach's counter-proposal *)

CanPropose(row, t) ==
  /\ row.status \in Proposable \cup {"pending_employee_approval"}
  /\ t.start # row.at.start

\* Faulty: a second proposal forgets where the first one came from.
ProposedAfresh(row, t) ==
  [row EXCEPT !.before = IF row.status \in Proposable THEN row.status ELSE "scheduled",
              !.status = "pending_employee_approval",
              !.proposed = t, !.returned = FALSE]

\* The first proposal records where to revert to; a re-propose keeps it.
Proposed(row, t) ==
  [row EXCEPT !.before = IF row.status \in Proposable THEN row.status ELSE @,
              !.status = "pending_employee_approval",
              !.proposed = t, !.returned = FALSE]

HasProposal(row) == row.status = "pending_employee_approval"

Origin(row) == IF row.before = "none" THEN "scheduled" ELSE row.before

ClearProposal(row) ==
  [row EXCEPT !.proposed = NoTime, !.returned = FALSE, !.before = "none"]

ClearCancellation(row) == [row EXCEPT !.cancelBy = "none", !.beforeCancel = "none"]

\* Faulty: an open request to cancel survives the agreement on a new time.
AcceptedOnly(row, slot) ==
  [ClearProposal(row) EXCEPT !.at = row.proposed, !.slot = slot, !.status = "scheduled"]

\* The session moves to the proposed time and its new slot.
Accepted(row, slot) ==
  [ClearProposal(ClearCancellation(row)) EXCEPT
     !.at = row.proposed, !.slot = slot, !.status = "scheduled"]

ProposalRejected(row) ==
  CASE Origin(row) = "pending_coach_approval" ->
         [ClearProposal(row) EXCEPT !.status = "declined"]
    [] Origin(row) = "pending_cancellation" ->
         [ClearProposal(ClearCancellation(row)) EXCEPT !.status = "cancelled"]
    [] OTHER ->
         [ClearProposal(row) EXCEPT !.status = "scheduled"]

CanAskAnother(row) == HasProposal(row) /\ ~row.returned

AnotherAsked(row) == [row EXCEPT !.returned = TRUE]

Withdrawn(row) == [ClearProposal(row) EXCEPT !.status = Origin(row)]

-----------------------------------------------------------------------------
(* What the columns of one row say about each other *)

\* The status of the session underneath an open proposal.
Standing(row) == IF HasProposal(row) THEN Origin(row) ELSE row.status

(***************************************************************************)
(* A proposal is recorded exactly while the session waits for the          *)
(* employee, and remembers what the session was; a request to cancel is    *)
(* recorded exactly while one is open, under a proposal too; and only a    *)
(* session both parties have agreed on is in a calendar.                   *)
(***************************************************************************)
RowAgrees(row) ==
  /\ HasProposal(row) <=> row.before # "none"
  /\ HasProposal(row) <=> row.proposed # NoTime
  /\ row.returned => HasProposal(row)
  /\ Standing(row) = "pending_cancellation" <=> row.beforeCancel = "scheduled"
  /\ Standing(row) = "pending_cancellation" => row.cancelBy # "none"
  /\ row.cancelBy # "none" => Standing(row) \in {"pending_cancellation", "cancelled"}
  /\ row.event # NoTime =>
       Standing(row) \notin {"none", "pending_coach_approval", "declined", "cancelled"}

=============================================================================
