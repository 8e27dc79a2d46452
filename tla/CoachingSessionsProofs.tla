----------------------- MODULE CoachingSessionsProofs -----------------------
(***************************************************************************)
(* Type correctness of coaching sessions, and the agreement of the columns *)
(* of every stored session, for any number of sessions, slots, cycles,     *)
(* times and handlers in flight. As for token requests, the invariant      *)
(* speaks of the rows that calls hold as well: any of them may be the next *)
(* to be written, however stale. It differs in that a session that is      *)
(* called off is not consistent before its event reference is dropped, so  *)
(* a call that is about to do so may hold a row that must not be saved.    *)
(***************************************************************************)
EXTENDS CoachingSessions, TLAPS, SequenceTheorems

(* Every handler's change to the row of a booked session leaves the row of a *)
(* booked session, with its columns in agreement                             *)

\* A session that was really booked, and whose columns agree.
Good(row) ==
  /\ row \in Row /\ RowAgrees(row)
  /\ row.status # "none" /\ row.at \in Times /\ row.cycle \in Cycles

\* Where a session can stand when no proposal is open.
Settled == Statuses \ {"pending_employee_approval"}

LEMMA VacantOK == Vacant \in Row /\ RowAgrees(Vacant)
<1>1. 0 \in 0..SessionsPerCycle
  BY NumbersAssumption
<1>2. Vacant \in Row
  BY <1>1 DEF Vacant, Row
<1>3. RowAgrees(Vacant)
  BY DEF Vacant, RowAgrees, HasProposal, Standing
<1> QED BY <1>2, <1>3

LEMMA NoTimeOK == NoTime \notin Times
  BY TimesAssumption DEF NoTime

LEMMA StatusesOK ==
  /\ Settled \subseteq Statuses /\ Proposable \subseteq Settled
  /\ {"pending_coach_approval", "scheduled", "pending_cancellation", "no_show",
      "declined", "cancelled", "completed"} \subseteq Settled
  /\ "pending_employee_approval" \in Statuses \ Proposable
  /\ "none" \notin Statuses
  BY DEF Settled, Statuses, Released, Proposable

\* The agreement of the columns of a row without an open proposal, spelled out.
LEMMA SettledAgrees ==
  ASSUME NEW row \in Row, row.status \in Settled,
         row.before = "none", row.proposed = NoTime, row.returned = FALSE,
         row.status = "pending_cancellation" <=> row.beforeCancel = "scheduled",
         row.status = "pending_cancellation" => row.cancelBy # "none",
         row.cancelBy # "none" => row.status \in {"pending_cancellation", "cancelled"},
         row.event # NoTime =>
           row.status \notin {"pending_coach_approval", "declined", "cancelled"},
         row.at \in Times, row.cycle \in Cycles
  PROVE  Good(row)
<1>1. ~HasProposal(row) /\ Standing(row) = row.status /\ row.status # "none"
  BY StatusesOK DEF HasProposal, Standing, Settled
<1> QED BY <1>1 DEF Good, RowAgrees

\* And what it says of such a row.
LEMMA AgreesSettled ==
  ASSUME NEW row, Good(row), row.status \in Settled
  PROVE  /\ row.before = "none" /\ row.proposed = NoTime /\ row.returned = FALSE
         /\ row.status = "pending_cancellation" <=> row.beforeCancel = "scheduled"
         /\ row.status = "pending_cancellation" => row.cancelBy # "none"
         /\ row.cancelBy # "none" => row.status \in {"pending_cancellation", "cancelled"}
         /\ row.event # NoTime =>
              row.status \notin {"pending_coach_approval", "declined", "cancelled"}
<1>1. ~HasProposal(row) /\ Standing(row) = row.status
  BY DEF HasProposal, Standing, Settled
<1>2. row.returned \in BOOLEAN
  BY DEF Good, Row
<1> QED BY <1>1, <1>2 DEF Good, RowAgrees

LEMMA BookingOK ==
  ASSUME NEW q \in Cycles, NEW n \in 1..SessionsPerCycle, NEW k \in Slots, NEW t \in Times
  PROVE  Good(Booking(q, n, k, t))
<1> DEFINE new == Booking(q, n, k, t)
<1>1. n \in 0..SessionsPerCycle
  BY NumbersAssumption
<1>2. new = [Vacant EXCEPT !.status = "pending_coach_approval", !.cycle = q, !.number = n,
                           !.slot = k, !.at = t]
  BY DEF Booking
<1>3. "pending_coach_approval" \in Statuses /\ "pending_coach_approval" \in Settled
  BY StatusesOK
<1> HIDE DEF new
<1>4. new \in Row
  BY <1>1, <1>2, <1>3, VacantOK DEF Row
<1>5. /\ new.status = "pending_coach_approval" /\ new.at = t /\ new.cycle = q
      /\ new.before = "none" /\ new.proposed = NoTime /\ new.returned = FALSE
      /\ new.cancelBy = "none" /\ new.beforeCancel = "none" /\ new.event = NoTime
  BY <1>2 DEF Vacant
<1>6. Good(new)
  BY <1>3, <1>4, <1>5, SettledAgrees
<1> QED BY <1>6 DEF new

\* A settled session that only changes its status, to one with no obligations.
LEMMA RestatedOK ==
  ASSUME NEW row, Good(row), NEW to,
         \/ row.status = "pending_coach_approval" /\ to \in {"scheduled", "declined", "cancelled"}
         \/ row.status = "scheduled" /\ to \in {"completed", "no_show"}
  PROVE  Good([row EXCEPT !.status = to])
<1> DEFINE new == [row EXCEPT !.status = to]
<1>1. row.status \in Settled /\ to \in Settled /\ to \in Statuses
  BY StatusesOK
<1>2. new \in Row
  BY <1>1 DEF Good, Row
<1>3. /\ new.status = to /\ new.at = row.at /\ new.cycle = row.cycle
      /\ new.before = row.before /\ new.proposed = row.proposed
      /\ new.returned = row.returned /\ new.cancelBy = row.cancelBy
      /\ new.beforeCancel = row.beforeCancel /\ new.event = row.event
  BY DEF Good, Row
<1> HIDE DEF new
<1>4. row.cancelBy = "none" /\ row.beforeCancel # "scheduled"
  BY <1>1, AgreesSettled
<1>5. row.event # NoTime => row.status # "pending_coach_approval"
  BY <1>1, AgreesSettled
<1>6. row.before = "none" /\ row.proposed = NoTime /\ row.returned = FALSE
  BY <1>1, AgreesSettled
<1>7. Good(new)
  BY <1>1, <1>2, <1>3, <1>4, <1>5, <1>6, SettledAgrees DEF Good
<1> QED BY <1>7 DEF new

LEMMA AnswerOK ==
  ASSUME NEW row, Good(row), row.status = "pending_coach_approval"
  PROVE  Good(Confirmed(row)) /\ Good(Declined(row)) /\ Good(Cancelled(row))
  BY RestatedOK DEF Confirmed, Declined, Cancelled

LEMMA HeldOK ==
  ASSUME NEW row, Good(row), IsScheduled(row)
  PROVE  Good(Completed(row)) /\ Good(NoShow(row))
  BY RestatedOK DEF IsScheduled, Completed, NoShow

LEMMA CancelRequestedOK ==
  ASSUME NEW row, Good(row), IsScheduled(row), NEW by \in Parties
  PROVE  Good(CancelRequested(row, by))
<1> DEFINE new == CancelRequested(row, by)
<1>1. row.status = "scheduled" /\ row.status \in Settled
  BY StatusesOK DEF IsScheduled
<1>2. new = [row EXCEPT !.beforeCancel = "scheduled", !.status = "pending_cancellation",
                        !.cancelBy = by]
  BY <1>1 DEF CancelRequested
<1>3. "pending_cancellation" \in Settled /\ "pending_cancellation" \in Statuses /\ by # "none"
  BY StatusesOK DEF Parties
<1> HIDE DEF new
<1>4. new \in Row
  BY <1>2, <1>3 DEF Good, Row
<1>5. /\ new.status = "pending_cancellation" /\ new.at = row.at /\ new.cycle = row.cycle
      /\ new.before = row.before /\ new.proposed = row.proposed
      /\ new.returned = row.returned /\ new.cancelBy = by
      /\ new.beforeCancel = "scheduled" /\ new.event = row.event
  BY <1>2 DEF Good, Row
<1>6. row.before = "none" /\ row.proposed = NoTime /\ row.returned = FALSE
  BY <1>1, AgreesSettled
<1>7. Good(new)
  BY <1>3, <1>4, <1>5, <1>6, SettledAgrees DEF Good
<1> QED BY <1>7 DEF new

\* Calling off by consent is only consistent once the event reference is gone.
LEMMA CancelApprovedOK ==
  ASSUME NEW row, Good(row), CanAnswerCancel(row)
  PROVE  /\ CancelApproved(row) \in Row
         /\ Good([CancelApproved(row) EXCEPT !.event = NoTime])
         /\ CancelApproved(row).event = row.event
<1> DEFINE off == CancelApproved(row)
           new == [off EXCEPT !.event = NoTime]
<1>1. row.status = "pending_cancellation" /\ row.status \in Settled
  BY StatusesOK DEF CanAnswerCancel
<1>2. off = [row EXCEPT !.status = "cancelled", !.beforeCancel = "none"]
  BY DEF CancelApproved
<1>3. "cancelled" \in Settled /\ "cancelled" \in Statuses
  BY StatusesOK
<1> HIDE DEF off
<1>4. off \in Row
  BY <1>2, <1>3 DEF Good, Row
<1>5. /\ off.status = "cancelled" /\ off.at = row.at /\ off.cycle = row.cycle
      /\ off.before = row.before /\ off.proposed = row.proposed
      /\ off.returned = row.returned /\ off.cancelBy = row.cancelBy
      /\ off.beforeCancel = "none" /\ off.event = row.event
  BY <1>2 DEF Good, Row
<1>6. new \in Row
  BY <1>4 DEF Row
<1>7. /\ new.status = "cancelled" /\ new.at = row.at /\ new.cycle = row.cycle
      /\ new.before = row.before /\ new.proposed = row.proposed
      /\ new.returned = row.returned /\ new.cancelBy = row.cancelBy
      /\ new.beforeCancel = "none" /\ new.event = NoTime
  BY <1>4, <1>5 DEF Row
<1> HIDE DEF new
<1>8. row.before = "none" /\ row.proposed = NoTime /\ row.returned = FALSE
  BY <1>1, AgreesSettled
<1>9. Good(new)
  BY <1>3, <1>6, <1>7, <1>8, SettledAgrees DEF Good
<1> QED BY <1>4, <1>5, <1>9 DEF new, off

LEMMA CancelDeclinedOK ==
  ASSUME NEW row, Good(row), CanAnswerCancel(row)
  PROVE  Good(CancelDeclined(row))
<1> DEFINE new == CancelDeclined(row)
<1>1. row.status = "pending_cancellation" /\ row.status \in Settled
  BY StatusesOK DEF CanAnswerCancel
<1>2. row.beforeCancel = "scheduled"
  BY <1>1, AgreesSettled
<1>3. new = [row EXCEPT !.status = "scheduled", !.beforeCancel = "none", !.cancelBy = "none"]
  BY <1>2 DEF CancelDeclined
<1>4. "scheduled" \in Settled /\ "scheduled" \in Statuses
  BY StatusesOK
<1> HIDE DEF new
<1>5. new \in Row
  BY <1>3, <1>4 DEF Good, Row
<1>6. /\ new.status = "scheduled" /\ new.at = row.at /\ new.cycle = row.cycle
      /\ new.before = row.before /\ new.proposed = row.proposed
      /\ new.returned = row.returned /\ new.cancelBy = "none"
      /\ new.beforeCancel = "none" /\ new.event = row.event
  BY <1>3 DEF Good, Row
<1>7. row.before = "none" /\ row.proposed = NoTime /\ row.returned = FALSE
  BY <1>1, AgreesSettled
<1>8. Good(new)
  BY <1>4, <1>5, <1>6, <1>7, SettledAgrees DEF Good
<1> QED BY <1>8 DEF new

-----------------------------------------------------------------------------
(* Proposals *)

\* What a session under an open proposal is, spelled out as for a settled one.
LEMMA AgreesProposed ==
  ASSUME NEW row, Good(row), HasProposal(row)
  PROVE  /\ row.before \in Proposable /\ Origin(row) = row.before
         /\ row.proposed \in Times
         /\ row.before = "pending_cancellation" <=> row.beforeCancel = "scheduled"
         /\ row.before = "pending_cancellation" => row.cancelBy # "none"
         /\ row.cancelBy # "none" => row.before = "pending_cancellation"
         /\ row.event # NoTime => row.before # "pending_coach_approval"
<1>1. row.before # "none" /\ row.before \in Proposable
  BY DEF Good, RowAgrees, Row
<1>2. Origin(row) = row.before /\ Standing(row) = row.before
  BY <1>1 DEF Origin, Standing
<1>3. row.before # "cancelled"
  BY <1>1 DEF Proposable
<1>4. row.proposed \in Times
  BY DEF Good, RowAgrees, Row
<1> QED BY <1>1, <1>2, <1>3, <1>4 DEF Good, RowAgrees

LEMMA ProposedAgrees ==
  ASSUME NEW row \in Row, HasProposal(row), row.before \in Proposable,
         row.proposed \in Times,
         row.before = "pending_cancellation" <=> row.beforeCancel = "scheduled",
         row.before = "pending_cancellation" => row.cancelBy # "none",
         row.cancelBy # "none" => row.before = "pending_cancellation",
         row.event # NoTime => row.before # "pending_coach_approval",
         row.at \in Times, row.cycle \in Cycles
  PROVE  Good(row)
<1>1. row.before \notin {"none", "declined", "cancelled"}
  BY DEF Proposable
<1>2. Standing(row) = row.before /\ row.status # "none"
  BY <1>1 DEF Standing, Origin, HasProposal
<1> QED BY <1>1, <1>2, NoTimeOK DEF Good, RowAgrees

LEMMA ProposedOK ==
  ASSUME NEW row, Good(row), NEW t \in Times, CanPropose(row, t)
  PROVE  Good(Proposed(row, t))
<1> DEFINE new == Proposed(row, t)
           origin == IF row.status \in Proposable THEN row.status ELSE row.before
<1>1. new = [row EXCEPT !.before = origin, !.status = "pending_employee_approval",
                        !.proposed = t, !.returned = FALSE]
  BY DEF Proposed
<1>2. /\ origin \in Proposable
      /\ origin = "pending_cancellation" <=> row.beforeCancel = "scheduled"
      /\ origin = "pending_cancellation" => row.cancelBy # "none"
      /\ row.cancelBy # "none" => origin = "pending_cancellation"
      /\ row.event # NoTime => origin # "pending_coach_approval"
  <2>1. CASE row.status \in Proposable
    <3>1. origin = row.status /\ row.status \in Settled
      BY <2>1, StatusesOK
    <3> QED BY <2>1, <3>1, AgreesSettled DEF Proposable
  <2>2. CASE row.status \notin Proposable
    <3>1. HasProposal(row) /\ origin = row.before
      BY <2>2 DEF CanPropose, HasProposal
    <3> QED BY <3>1, AgreesProposed
  <2> QED BY <2>1, <2>2
<1>3. "pending_employee_approval" \in Statuses
  BY StatusesOK
<1> HIDE DEF new, origin
<1>4. new \in Row
  BY <1>1, <1>2, <1>3 DEF Good, Row
<1>5. /\ new.status = "pending_employee_approval" /\ new.at = row.at /\ new.cycle = row.cycle
      /\ new.before = origin /\ new.proposed = t /\ new.cancelBy = row.cancelBy
      /\ new.beforeCancel = row.beforeCancel /\ new.event = row.event
  BY <1>1 DEF Good, Row
<1>6. Good(new)
  BY <1>2, <1>4, <1>5, ProposedAgrees DEF Good, HasProposal
<1> QED BY <1>6 DEF new

LEMMA AcceptedOK ==
  ASSUME NEW row, Good(row), HasProposal(row), NEW k \in Slots
  PROVE  Good(Accepted(row, k)) /\ Accepted(row, k).status = "scheduled"
<1> DEFINE new == Accepted(row, k)
<1>1. new = [row EXCEPT !.proposed = NoTime, !.returned = FALSE, !.before = "none",
                        !.cancelBy = "none", !.beforeCancel = "none",
                        !.at = row.proposed, !.slot = k, !.status = "scheduled"]
  BY DEF Accepted, ClearProposal, ClearCancellation, Good, Row
<1>2. "scheduled" \in Settled /\ "scheduled" \in Statuses
  BY StatusesOK
<1>3. row.proposed \in Times
  BY AgreesProposed
<1> HIDE DEF new
<1>4. new \in Row
  BY <1>1, <1>2, <1>3 DEF Good, Row
<1>5. /\ new.status = "scheduled" /\ new.at = row.proposed /\ new.cycle = row.cycle
      /\ new.before = "none" /\ new.proposed = NoTime /\ new.returned = FALSE
      /\ new.cancelBy = "none" /\ new.beforeCancel = "none"
  BY <1>1 DEF Good, Row
<1>6. Good(new)
  BY <1>2, <1>3, <1>4, <1>5, SettledAgrees DEF Good
<1> QED BY <1>5, <1>6 DEF new

\* What the row of a refused proposal is, whichever way it goes.
LEMMA ProposalRejectedOK ==
  ASSUME NEW row, Good(row), HasProposal(row)
  PROVE  /\ Origin(row) # "pending_cancellation" => Good(ProposalRejected(row))
         /\ Origin(row) = "pending_cancellation" =>
              /\ ProposalRejected(row) \in Row
              /\ Good([ProposalRejected(row) EXCEPT !.event = NoTime])
         /\ ProposalRejected(row).event = row.event
<1> DEFINE new == ProposalRejected(row)
           off == [new EXCEPT !.event = NoTime]
<1>1. {"declined", "cancelled", "scheduled"} \subseteq Settled \cap Statuses
  BY StatusesOK
<1>2. CASE Origin(row) = "pending_cancellation"
  <2>1. new = [row EXCEPT !.proposed = NoTime, !.returned = FALSE, !.before = "none",
                          !.cancelBy = "none", !.beforeCancel = "none",
                          !.status = "cancelled"]
    BY <1>2 DEF ProposalRejected, ClearProposal, ClearCancellation, Good, Row
  <2> HIDE DEF new
  <2>2. new \in Row /\ new.event = row.event
    BY <2>1, <1>1 DEF Good, Row
  <2>3. off \in Row
    BY <2>2 DEF Row
  <2>4. /\ off.status = "cancelled" /\ off.at = row.at /\ off.cycle = row.cycle
        /\ off.before = "none" /\ off.proposed = NoTime /\ off.returned = FALSE
        /\ off.cancelBy = "none" /\ off.beforeCancel = "none" /\ off.event = NoTime
    BY <2>1 DEF Good, Row
  <2> HIDE DEF off
  <2>5. Good(off)
    BY <1>1, <2>3, <2>4, SettledAgrees DEF Good
  <2> QED BY <1>2, <2>2, <2>5 DEF new, off
<1>3. CASE Origin(row) # "pending_cancellation"
  <2> DEFINE to == IF Origin(row) = "pending_coach_approval" THEN "declined" ELSE "scheduled"
  <2>1. new = [row EXCEPT !.proposed = NoTime, !.returned = FALSE, !.before = "none",
                          !.status = to]
    BY <1>3 DEF ProposalRejected, ClearProposal, Good, Row
  <2>2. to \in Settled /\ to \in Statuses /\ to \in {"declined", "scheduled"}
    BY <1>1
  <2>3. /\ row.beforeCancel # "scheduled" /\ row.cancelBy = "none"
        /\ to = "declined" => row.event = NoTime
    BY <1>3, AgreesProposed
  <2> HIDE DEF new, to
  <2>4. new \in Row
    BY <2>1, <2>2 DEF Good, Row
  <2>5. /\ new.status = to /\ new.at = row.at /\ new.cycle = row.cycle
        /\ new.before = "none" /\ new.proposed = NoTime /\ new.returned = FALSE
        /\ new.cancelBy = row.cancelBy /\ new.beforeCancel = row.beforeCancel
        /\ new.event = row.event
    BY <2>1 DEF Good, Row
  <2>6. Good(new)
    BY <2>2, <2>3, <2>4, <2>5, SettledAgrees DEF Good
  <2> QED BY <1>3, <2>5, <2>6 DEF new
<1> QED BY <1>2, <1>3

LEMMA AnotherAskedOK ==
  ASSUME NEW row, Good(row), CanAskAnother(row)
  PROVE  Good(AnotherAsked(row))
<1> DEFINE new == AnotherAsked(row)
<1>1. new = [row EXCEPT !.returned = TRUE] /\ HasProposal(row)
  BY DEF AnotherAsked, CanAskAnother
<1> HIDE DEF new
<1>2. new \in Row
  BY <1>1 DEF Good, Row
<1>3. /\ new.status = row.status /\ new.at = row.at /\ new.cycle = row.cycle
      /\ new.before = row.before /\ new.proposed = row.proposed /\ new.cancelBy = row.cancelBy
      /\ new.beforeCancel = row.beforeCancel /\ new.event = row.event
  BY <1>1 DEF Good, Row
<1>4. HasProposal(new)
  BY <1>1, <1>3 DEF HasProposal
<1>5. Good(new)
  BY <1>1, <1>2, <1>3, <1>4, AgreesProposed, ProposedAgrees DEF Good
<1> QED BY <1>5 DEF new

LEMMA WithdrawnOK ==
  ASSUME NEW row, Good(row), HasProposal(row)
  PROVE  Good(Withdrawn(row))
<1> DEFINE new == Withdrawn(row)
<1>1. row.before \in Proposable /\ Origin(row) = row.before
  BY AgreesProposed
<1>2. new = [row EXCEPT !.proposed = NoTime, !.returned = FALSE, !.before = "none",
                        !.status = row.before]
  BY <1>1 DEF Withdrawn, ClearProposal, Good, Row
<1>3. row.before \in Settled /\ row.before \in Statuses
  BY <1>1, StatusesOK
<1> HIDE DEF new
<1>4. new \in Row
  BY <1>2, <1>3 DEF Good, Row
<1>5. /\ new.status = row.before /\ new.at = row.at /\ new.cycle = row.cycle
      /\ new.before = "none" /\ new.proposed = NoTime /\ new.returned = FALSE
      /\ new.cancelBy = row.cancelBy /\ new.beforeCancel = row.beforeCancel
      /\ new.event = row.event
  BY <1>2 DEF Good, Row
<1>6. row.before \notin {"declined", "cancelled"}
  BY <1>1 DEF Proposable
<1>7. Good(new)
  BY <1>3, <1>4, <1>5, <1>6, AgreesProposed, SettledAgrees DEF Good
<1> QED BY <1>7 DEF new

-----------------------------------------------------------------------------
(* The reference to the calendar event *)

LEMMA UnlinkedOK ==
  ASSUME NEW row, Good(row)
  PROVE  Good([row EXCEPT !.event = NoTime])
<1> DEFINE new == [row EXCEPT !.event = NoTime]
<1>1. new \in Row
  BY DEF Good, Row
<1>2. /\ new.status = row.status /\ new.at = row.at /\ new.cycle = row.cycle
      /\ new.before = row.before /\ new.proposed = row.proposed /\ new.returned = row.returned
      /\ new.cancelBy = row.cancelBy /\ new.beforeCancel = row.beforeCancel
      /\ new.event = NoTime
  BY DEF Good, Row
<1> HIDE DEF new
<1>3. (HasProposal(new) <=> HasProposal(row)) /\ Standing(new) = Standing(row)
  BY <1>2 DEF HasProposal, Standing, Origin
<1>4. Good(new)
  BY <1>1, <1>2, <1>3 DEF Good, RowAgrees
<1> QED BY <1>4 DEF new

LEMMA LinkedOK ==
  ASSUME NEW row, Good(row), row.status = "scheduled"
  PROVE  Good([row EXCEPT !.event = row.at])
<1> DEFINE new == [row EXCEPT !.event = row.at]
<1>1. new \in Row
  BY DEF Good, Row
<1>2. /\ new.status = row.status /\ new.at = row.at /\ new.cycle = row.cycle
      /\ new.before = row.before /\ new.proposed = row.proposed /\ new.returned = row.returned
      /\ new.cancelBy = row.cancelBy /\ new.beforeCancel = row.beforeCancel
  BY DEF Good, Row
<1> HIDE DEF new
<1>3. row.status \in Settled
  BY StatusesOK
<1>4. Good(new)
  BY <1>1, <1>2, <1>3, AgreesSettled, SettledAgrees DEF Good
<1> QED BY <1>4 DEF new

-----------------------------------------------------------------------------
Stored(row) == row = Vacant \/ Good(row)

Unlinked(row) == [row EXCEPT !.event = NoTime]

\* A slot that has a coach has a time.
Dated(slot) == slot.coach = NoCoach \/ slot.time \in Times

\* The call has still to create the calendar event of a session.
WillSync(k) == \E i \in 1..Len(k.todo) : k.todo[i] = "sync"

CallOK(k) ==
  /\ (k.todo # <<>> /\ Head(k.todo) = "unlink") \/ Stored(k.row)
  /\ Stored(Unlinked(k.row))
  /\ WillSync(k) => k.id \in Sessions /\ k.row.status = "scheduled"
  /\ Dated(k.entity)

RowsOK == \A s \in Sessions : Stored(sessions[s])
SlotsOK == \A k \in Slots : Dated(slots[k])
CallsOK == \A c \in Calls : CallOK(call[c])

IInv == TypeOK /\ RowsOK /\ SlotsOK /\ CallsOK

-----------------------------------------------------------------------------
(* What the invariant says of a session that has a status *)

LEMMA Booked ==
  ASSUME IInv, NEW s \in Sessions, sessions[s].status # "none"
  PROVE  Good(sessions[s])
  BY DEF IInv, RowsOK, Stored, Vacant

LEMMA StoredUnlinked ==
  ASSUME NEW row, Stored(row)
  PROVE  row \in Row /\ Stored(Unlinked(row))
<1>1. CASE row = Vacant
  <2>1. [Vacant EXCEPT !.event = Vacant.event] = Vacant
    BY VacantOK DEF Row
  <2>2. Vacant.event = NoTime
    BY DEF Vacant
  <2> QED BY <1>1, <2>1, <2>2, VacantOK DEF Stored, Unlinked
<1>2. CASE Good(row)
  BY <1>2, UnlinkedOK DEF Stored, Unlinked, Good
<1> QED BY <1>1, <1>2 DEF Stored

-----------------------------------------------------------------------------
(* The kinds of step: a row or a slot is written, a call moves on *)

LEMMA SessionWritten ==
  ASSUME IInv, NEW s, NEW new, Stored(new), sessions' = [sessions EXCEPT ![s] = new]
  PROVE  sessions' \in [Sessions -> Row] /\ RowsOK'
<1>1. new \in Row
  BY StoredUnlinked
<1>2. sessions' \in [Sessions -> Row]
  BY <1>1 DEF IInv, TypeOK
<1>3. ASSUME NEW o \in Sessions PROVE Stored(sessions'[o])
  BY DEF IInv, TypeOK, RowsOK
<1>4. RowsOK'
  BY <1>3 DEF RowsOK
<1> QED BY <1>2, <1>4

LEMMA SlotWritten ==
  ASSUME IInv, NEW k, NEW new \in Slot, Dated(new), slots' = [slots EXCEPT ![k] = new]
  PROVE  slots' \in [Slots -> Slot] /\ SlotsOK'
<1>1. slots' \in [Slots -> Slot]
  BY DEF IInv, TypeOK
<1>2. ASSUME NEW j \in Slots PROVE Dated(slots'[j])
  BY DEF IInv, TypeOK, SlotsOK
<1>3. SlotsOK'
  BY <1>2 DEF SlotsOK
<1> QED BY <1>1, <1>3

LEMMA CallWritten ==
  ASSUME IInv, NEW c \in Calls, NEW k \in CallState, CallOK(k),
         call' = [call EXCEPT ![c] = k]
  PROVE  call' \in [Calls -> CallState] /\ CallsOK'
<1>1. call' \in [Calls -> CallState]
  BY DEF IInv, TypeOK
<1>2. ASSUME NEW d \in Calls PROVE CallOK(call'[d])
  BY DEF IInv, TypeOK, CallsOK
<1>3. CallsOK'
  BY <1>2 DEF CallsOK
<1> QED BY <1>1, <1>3

LEMMA NoEntityOK == NoEntity \in Slot /\ Dated(NoEntity)
  BY DEF NoEntity, Slot, Dated

LEMMA IdleOK == Idle \in CallState /\ CallOK(Idle)
<1>1. Idle.todo = <<>> /\ Idle.row = Vacant /\ Idle.entity = NoEntity
  BY DEF Idle
<1>2. <<>> \in Seq(Tasks) /\ Len(<<>>) = 0
  OBVIOUS
<1>3. Idle \in CallState
  BY <1>2, VacantOK, NoEntityOK DEF Idle, CallState
<1>4. Stored(Vacant)
  BY DEF Stored
<1>5. ~WillSync(Idle)
  BY <1>1, <1>2 DEF WillSync
<1>6. CallOK(Idle)
  BY <1>1, <1>4, <1>5, StoredUnlinked, NoEntityOK DEF CallOK
<1> QED BY <1>3, <1>6

LEMMA Returned ==
  ASSUME IInv, NEW c \in Calls, Return(c)
  PROVE  call' \in [Calls -> CallState] /\ CallsOK'
  BY IdleOK, CallWritten DEF Return

\* A call moves on to its next await, whatever that is, with a row that can be
\* saved.
LEMMA Resumed ==
  ASSUME IInv, NEW c \in Calls, call[c].todo # <<>>, NEW new \in CallState,
         new.todo = call[c].todo, new.id = call[c].id, new.entity = call[c].entity,
         Stored(new.row), new.row.status = call[c].row.status, Resume(c, new)
  PROVE  call' \in [Calls -> CallState] /\ CallsOK'
<1> DEFINE k == [new EXCEPT !.todo = Tail(@)]
<1>1. CASE Tail(new.todo) = <<>>
  <2>1. Return(c)
    BY <1>1 DEF Resume, Return
  <2> QED BY <2>1, Returned
<1>2. CASE Tail(new.todo) # <<>>
  <2>1. call' = [call EXCEPT ![c] = k]
    BY <1>2 DEF Resume
  <2>2. new.todo \in Seq(Tasks)
    BY DEF CallState
  <2>3. /\ Tail(new.todo) \in Seq(Tasks) /\ Len(Tail(new.todo)) = Len(new.todo) - 1
        /\ \A i \in 1..Len(Tail(new.todo)) : Tail(new.todo)[i] = new.todo[i + 1]
    BY <2>2, HeadTailProperties
  <2>4. /\ k.todo = Tail(new.todo) /\ k.id = new.id /\ k.row = new.row
        /\ k.entity = new.entity
    BY DEF CallState
  <2>5. k \in CallState
    BY <2>3 DEF CallState
  <2> HIDE DEF k
  <2>6. WillSync(k) => WillSync(call[c])
    BY <2>2, <2>3, <2>4 DEF WillSync
  <2>7. CallOK(call[c])
    BY DEF IInv, CallsOK
  <2>8. CallOK(k)
    BY <2>4, <2>6, <2>7, StoredUnlinked DEF CallOK
  <2> QED BY <2>1, <2>5, <2>8, CallWritten
<1> QED BY <1>1, <1>2

LEMMA Advanced ==
  ASSUME IInv, NEW c \in Calls, NEW task, Doing(c, task), task # "unlink", Advance(c)
  PROVE  call' \in [Calls -> CallState] /\ CallsOK'
<1>1. call[c] \in CallState /\ CallOK(call[c])
  BY DEF IInv, TypeOK, CallsOK
<1>2. call[c].todo # <<>> /\ Stored(call[c].row)
  BY <1>1 DEF Doing, CallOK
<1> QED BY <1>1, <1>2, Resumed DEF Advance

\* A handler has loaded session s and is about to save it as `row`.
LEMMA Started ==
  ASSUME IInv, NEW c \in Calls, NEW s \in Sessions, NEW row \in Row,
         NEW todo \in Seq(Tasks), Start(c, s, row, todo),
         (todo # <<>> /\ Head(todo) = "unlink") \/ Good(row), Good(Unlinked(row)),
         (\E i \in 1..Len(todo) : todo[i] = "sync") => row.status = "scheduled"
  PROVE  call' \in [Calls -> CallState] /\ CallsOK'
<1> DEFINE k == [Idle EXCEPT !.todo = todo, !.id = s, !.row = row, !.old = sessions[s].slot]
<1>1. /\ k.todo = todo /\ k.id = s /\ k.row = row /\ k.entity = NoEntity
      /\ call' = [call EXCEPT ![c] = k]
  BY DEF Idle, Start
<1>2. sessions[s].slot \in Slots \cup {NoSlot}
  BY DEF IInv, TypeOK, Row
<1>3. k \in CallState
  BY <1>2, IdleOK DEF CallState
<1> HIDE DEF k
<1>4. WillSync(k) => row.status = "scheduled"
  BY <1>1 DEF WillSync
<1>5. CallOK(k)
  BY <1>1, <1>4, NoEntityOK DEF CallOK, Stored
<1> QED BY <1>1, <1>3, <1>5, CallWritten

\* The task lists of the handlers that do not create an event.
LEMMA TasksOK ==
  /\ <<"save">> \in Seq(Tasks) /\ <<"release", "save">> \in Seq(Tasks)
  /\ ~\E i \in 1..Len(<<"save">>) : <<"save">>[i] = "sync"
  /\ ~\E i \in 1..Len(<<"release", "save">>) :
        <<"release", "save">>[i] = "sync"
  BY DEF Tasks

LEMMA StartedPlain ==
  ASSUME IInv, NEW c \in Calls, NEW s \in Sessions, NEW row, Good(row),
         Start(c, s, row, <<"save">>) \/ Start(c, s, row, <<"release", "save">>)
  PROVE  call' \in [Calls -> CallState] /\ CallsOK'
<1>1. row \in Row /\ Good(Unlinked(row))
  BY UnlinkedOK DEF Good, Unlinked
<1>2. CASE Start(c, s, row, <<"save">>)
  BY <1>1, <1>2, TasksOK, Started
<1>3. CASE Start(c, s, row, <<"release", "save">>)
  BY <1>1, <1>3, TasksOK, Started
<1> QED BY <1>2, <1>3

\* A session is called off: its row may be saved once the reference to its event
\* is gone, which is at once when there is none.
LEMMA StartedCallOff ==
  ASSUME IInv, NEW c \in Calls, NEW s \in Sessions, NEW old, NEW row \in Row,
         Good(Unlinked(row)), row.event = old.event, Start(c, s, row, CallOff(old))
  PROVE  call' \in [Calls -> CallState] /\ CallsOK'
<1>1. CASE old.event = NoTime
  <2>1. [row EXCEPT !.event = row.event] = row
    BY DEF Row
  <2>2. Good(row) /\ CallOff(old) = <<"release", "save">>
    BY <1>1, <2>1 DEF CallOff, Unlinked
  <2> QED BY <2>2, StartedPlain
<1>2. CASE old.event # NoTime
  <2> DEFINE todo == <<"unlink", "release", "save">>
  <2>1. CallOff(old) = todo
    BY <1>2 DEF CallOff
  <2>2. /\ todo \in Seq(Tasks) /\ todo # <<>> /\ Head(todo) = "unlink"
        /\ ~\E i \in 1..Len(todo) : todo[i] = "sync"
    BY DEF Tasks
  <2> HIDE DEF todo
  <2> QED BY <2>1, <2>2, Started
<1> QED BY <1>1, <1>2

\* The tables stay as they are.
LEMMA OnlyCalls ==
  ASSUME IInv, call' \in [Calls -> CallState], CallsOK', UNCHANGED db
  PROVE  IInv'
<1>1. TypeOK'
  BY DEF IInv, TypeOK, db
<1>2. RowsOK' /\ SlotsOK'
  BY DEF IInv, RowsOK, SlotsOK, db
<1> QED BY <1>1, <1>2 DEF IInv

\* One table changes, next to the call.
LEMMA OnlyRowsAndCalls ==
  ASSUME IInv, call' \in [Calls -> CallState], CallsOK',
         sessions' \in [Sessions -> Row], RowsOK', UNCHANGED <<slots, calendar>>
  PROVE  IInv'
<1>1. TypeOK' /\ SlotsOK'
  BY DEF IInv, TypeOK, SlotsOK
<1> QED BY <1>1 DEF IInv

LEMMA OnlySlotsAndCalls ==
  ASSUME IInv, call' \in [Calls -> CallState], CallsOK',
         slots' \in [Slots -> Slot], SlotsOK', UNCHANGED <<sessions, calendar>>
  PROVE  IInv'
<1>1. TypeOK' /\ RowsOK'
  BY DEF IInv, TypeOK, RowsOK
<1> QED BY <1>1 DEF IInv

LEMMA OnlyCalendarAndCalls ==
  ASSUME IInv, call' \in [Calls -> CallState], CallsOK',
         calendar' \subseteq Sessions \X Times, UNCHANGED <<sessions, slots>>
  PROVE  IInv'
<1>1. TypeOK' /\ RowsOK' /\ SlotsOK'
  BY DEF IInv, TypeOK, RowsOK, SlotsOK
<1> QED BY <1>1 DEF IInv

-----------------------------------------------------------------------------
(* One lemma per action *)

LEMMA InitIInv == Init => IInv
<1> SUFFICES ASSUME Init PROVE IInv
  OBVIOUS
<1>1. sessions \in [Sessions -> Row] /\ RowsOK
  BY VacantOK DEF Init, RowsOK, Stored
<1>2. slots \in [Slots -> Slot] /\ SlotsOK
  BY NoEntityOK DEF Init, SlotsOK
<1>3. call \in [Calls -> CallState] /\ CallsOK
  BY IdleOK DEF Init, CallsOK
<1>4. calendar \subseteq Sessions \X Times
  BY DEF Init
<1> QED BY <1>1, <1>2, <1>3, <1>4 DEF IInv, TypeOK

LEMMA FreshSlotOK ==
  ASSUME NEW coach \in Coaches, NEW t \in Times
  PROVE  /\ FreshSlot(coach, t) \in Slot /\ Dated(FreshSlot(coach, t))
         /\ [FreshSlot(coach, t) EXCEPT !.booked = TRUE] \in Slot
         /\ Dated([FreshSlot(coach, t) EXCEPT !.booked = TRUE])
  BY DEF FreshSlot, Slot, Dated

LEMMA BookableOK ==
  ASSUME IInv, NEW k \in Slots, NEW coach \in Coaches, NEW entity \in BookableEntities(k, coach)
  PROVE  entity \in Slot /\ entity.time \in Times
<1>1. CASE NewSlot(k)
  <2>1. PICK t \in Times : entity = FreshSlot(coach, t)
    BY <1>1 DEF BookableEntities
  <2> QED BY <2>1, FreshSlotOK DEF FreshSlot
<1>2. CASE ~NewSlot(k)
  <2>1. entity = slots[k] /\ entity.coach = coach
    BY <1>2 DEF BookableEntities
  <2>2. entity \in Slot /\ Dated(entity)
    BY <2>1 DEF IInv, TypeOK, SlotsOK
  <2> QED BY <2>1, <2>2, SessionsAssumption DEF Dated
<1> QED BY <1>1, <1>2

LEMMA BookOK ==
  ASSUME IInv, NEW c \in Calls, NEW s \in Sessions, Book(c, s)
  PROVE  IInv'
<1>1. PICK q \in Cycles, k \in Slots :
        \E n \in FreeNumbers(q), entity \in BookableEntities(k, CoachOf[q]) :
          call' = [call EXCEPT ![c] =
            [todo |-> <<"overlap", "saveSlot", "insert">>, id |-> s,
             row |-> Booking(q, n, k, entity.time), old |-> NoSlot,
             slot |-> k, entity |-> [entity EXCEPT !.booked = TRUE]]]
  BY DEF Book
<1>2. PICK n \in FreeNumbers(q), entity \in BookableEntities(k, CoachOf[q]) :
        call' = [call EXCEPT ![c] =
          [todo |-> <<"overlap", "saveSlot", "insert">>, id |-> s,
           row |-> Booking(q, n, k, entity.time), old |-> NoSlot,
           slot |-> k, entity |-> [entity EXCEPT !.booked = TRUE]]]
  BY <1>1
<1> DEFINE row == Booking(q, n, k, entity.time)
           taken == [entity EXCEPT !.booked = TRUE]
           todo == <<"overlap", "saveSlot", "insert">>
           new == [todo |-> todo, id |-> s, row |-> row, old |-> NoSlot, slot |-> k,
                   entity |-> taken]
<1>3. entity \in Slot /\ entity.time \in Times
  BY BookableOK, SessionsAssumption
<1>4. n \in 1..SessionsPerCycle
  BY DEF FreeNumbers
<1>5. Good(row)
  BY <1>3, <1>4, BookingOK
<1>6. taken \in Slot /\ Dated(taken)
  BY <1>3 DEF Slot, Dated
<1>7. /\ todo \in Seq(Tasks) /\ Head(todo) # "unlink"
      /\ ~\E i \in 1..Len(todo) : todo[i] = "sync"
  BY DEF Tasks
<1>8. call' = [call EXCEPT ![c] = new]
  BY <1>2
<1> HIDE DEF row, taken, todo
<1>9. new \in CallState
  BY <1>5, <1>6, <1>7 DEF CallState, Good
<1>10. ~WillSync(new)
  BY <1>7 DEF WillSync
<1>11. CallOK(new)
  BY <1>5, <1>6, <1>10, StoredUnlinked DEF CallOK, Stored
<1> HIDE DEF new
<1>12. call' \in [Calls -> CallState] /\ CallsOK'
  BY <1>8, <1>9, <1>11, CallWritten
<1> QED BY <1>12, OnlyCalls DEF Book

LEMMA CheckOverlapOK ==
  ASSUME IInv, NEW c \in Calls, CheckOverlap(c)
  PROVE  IInv'
<1>1. call' \in [Calls -> CallState] /\ CallsOK'
  BY Returned, Advanced DEF CheckOverlap
<1> QED BY <1>1, OnlyCalls DEF CheckOverlap

LEMMA SaveSlotOK ==
  ASSUME IInv, NEW c \in Calls, SaveSlot(c)
  PROVE  IInv'
<1>1. call[c].entity \in Slot /\ Dated(call[c].entity)
  BY DEF IInv, TypeOK, CallState, CallsOK, CallOK
<1>2. slots' \in [Slots -> Slot] /\ SlotsOK'
  BY <1>1, SlotWritten DEF SaveSlot
<1>3. call' \in [Calls -> CallState] /\ CallsOK'
  BY Advanced DEF SaveSlot
<1> QED BY <1>2, <1>3, OnlySlotsAndCalls DEF SaveSlot

LEMMA InsertOK ==
  ASSUME IInv, NEW c \in Calls, Insert(c)
  PROVE  IInv'
<1>1. Stored(call[c].row)
  BY DEF IInv, CallsOK, CallOK, Insert, Doing
<1>2. sessions' \in [Sessions -> Row] /\ RowsOK'
  <2>1. CASE UNCHANGED sessions
    BY <2>1 DEF IInv, TypeOK, RowsOK
  <2>2. CASE sessions' = [sessions EXCEPT ![call[c].id] = call[c].row]
    BY <1>1, <2>2, SessionWritten
  <2> QED BY <2>1, <2>2 DEF Insert
<1>3. call' \in [Calls -> CallState] /\ CallsOK'
  BY Returned DEF Insert
<1> QED BY <1>2, <1>3, OnlyRowsAndCalls DEF Insert

LEMMA ConfirmOK ==
  ASSUME IInv, NEW c \in Calls, NEW s \in Sessions, Confirm(c, s)
  PROVE  IInv'
<1> DEFINE row == Confirmed(sessions[s])
           todo == <<"save", "sync", "save">>
<1>1. sessions[s].status = "pending_coach_approval"
  BY DEF Confirm, AwaitsCoach
<1>2. Good(sessions[s])
  BY <1>1, Booked
<1>3. Good(row)
  BY <1>1, <1>2, AnswerOK
<1>4. row \in Row /\ Good(Unlinked(row))
  BY <1>3, UnlinkedOK DEF Good, Unlinked
<1>5. row.status = "scheduled"
  BY <1>2 DEF Confirmed, Good, Row
<1>6. todo \in Seq(Tasks) /\ Start(c, s, row, todo)
  BY DEF Tasks, Confirm
<1> HIDE DEF row, todo
<1>7. call' \in [Calls -> CallState] /\ CallsOK'
  BY <1>3, <1>4, <1>5, <1>6, Started
<1> QED BY <1>7, OnlyCalls DEF Confirm

LEMMA DeclineOK ==
  ASSUME IInv, NEW c \in Calls, NEW s \in Sessions, Decline(c, s)
  PROVE  IInv'
<1>1. sessions[s].status = "pending_coach_approval"
  BY DEF Decline, AwaitsCoach
<1>2. Good(sessions[s])
  BY <1>1, Booked
<1>3. call' \in [Calls -> CallState] /\ CallsOK'
  BY <1>1, <1>2, AnswerOK, StartedPlain DEF Decline
<1> QED BY <1>3, OnlyCalls DEF Decline

LEMMA CancelOK ==
  ASSUME IInv, NEW c \in Calls, NEW s \in Sessions, Cancel(c, s)
  PROVE  IInv'
<1>1. sessions[s].status = "pending_coach_approval"
  BY DEF Cancel, CanCancel
<1>2. Good(sessions[s])
  BY <1>1, Booked
<1>3. call' \in [Calls -> CallState] /\ CallsOK'
  BY <1>1, <1>2, AnswerOK, StartedPlain DEF Cancel
<1> QED BY <1>3, OnlyCalls DEF Cancel

LEMMA CompleteOK ==
  ASSUME IInv, NEW c \in Calls, NEW s \in Sessions, Complete(c, s)
  PROVE  IInv'
<1>1. IsScheduled(sessions[s])
  BY DEF Complete
<1>2. Good(sessions[s])
  BY <1>1, Booked DEF IsScheduled
<1>3. call' \in [Calls -> CallState] /\ CallsOK'
  BY <1>1, <1>2, HeldOK, StartedPlain DEF Complete
<1> QED BY <1>3, OnlyCalls DEF Complete

LEMMA MarkNoShowOK ==
  ASSUME IInv, NEW c \in Calls, NEW s \in Sessions, MarkNoShow(c, s)
  PROVE  IInv'
<1>1. IsScheduled(sessions[s])
  BY DEF MarkNoShow
<1>2. Good(sessions[s])
  BY <1>1, Booked DEF IsScheduled
<1>3. call' \in [Calls -> CallState] /\ CallsOK'
  BY <1>1, <1>2, HeldOK, StartedPlain DEF MarkNoShow
<1> QED BY <1>3, OnlyCalls DEF MarkNoShow

LEMMA RequestCancelOK ==
  ASSUME IInv, NEW c \in Calls, NEW s \in Sessions, RequestCancel(c, s)
  PROVE  IInv'
<1>1. IsScheduled(sessions[s])
  BY DEF RequestCancel
<1>2. Good(sessions[s])
  BY <1>1, Booked DEF IsScheduled
<1>3. PICK by \in Parties : Start(c, s, CancelRequested(sessions[s], by), <<"save">>)
  BY DEF RequestCancel
<1>4. call' \in [Calls -> CallState] /\ CallsOK'
  BY <1>1, <1>2, <1>3, CancelRequestedOK, StartedPlain
<1> QED BY <1>4, OnlyCalls DEF RequestCancel

LEMMA ApproveCancelOK ==
  ASSUME IInv, NEW c \in Calls, NEW s \in Sessions, ApproveCancel(c, s)
  PROVE  IInv'
<1> DEFINE row == CancelApproved(sessions[s])
<1>1. CanAnswerCancel(sessions[s])
  BY DEF ApproveCancel, CanApproveCancel
<1>2. Good(sessions[s])
  BY <1>1, Booked DEF CanAnswerCancel
<1>3. row \in Row /\ Good(Unlinked(row)) /\ row.event = sessions[s].event
  BY <1>1, <1>2, CancelApprovedOK DEF Unlinked
<1>4. Start(c, s, row, CallOff(sessions[s]))
  BY DEF ApproveCancel
<1> HIDE DEF row
<1>5. call' \in [Calls -> CallState] /\ CallsOK'
  BY <1>3, <1>4, StartedCallOff
<1> QED BY <1>5, OnlyCalls DEF ApproveCancel

LEMMA DeclineCancelOK ==
  ASSUME IInv, NEW c \in Calls, NEW s \in Sessions, DeclineCancel(c, s)
  PROVE  IInv'
<1>1. CanAnswerCancel(sessions[s])
  BY DEF DeclineCancel
<1>2. Good(sessions[s])
  BY <1>1, Booked DEF CanAnswerCancel
<1>3. call' \in [Calls -> CallState] /\ CallsOK'
  BY <1>1, <1>2, CancelDeclinedOK, StartedPlain DEF DeclineCancel
<1> QED BY <1>3, OnlyCalls DEF DeclineCancel

LEMMA ProposeOK ==
  ASSUME IInv, NEW c \in Calls, NEW s \in Sessions, Propose(c, s)
  PROVE  IInv'
<1>1. PICK t \in Times :
        CanPropose(sessions[s], t) /\ Start(c, s, Proposed(sessions[s], t), <<"save">>)
  BY DEF Propose
<1>2. Good(sessions[s])
  BY <1>1, Booked DEF CanPropose, Proposable
<1>3. call' \in [Calls -> CallState] /\ CallsOK'
  BY <1>1, <1>2, ProposedOK, StartedPlain
<1> QED BY <1>3, OnlyCalls DEF Propose

LEMMA AcceptOK ==
  ASSUME IInv, NEW c \in Calls, NEW s \in Sessions, Accept(c, s)
  PROVE  IInv'
<1> DEFINE old == sessions[s]
           todo == Reschedule(old)
<1>1. PICK k \in Slots :
        call' = [call EXCEPT ![c] =
          [todo |-> todo, id |-> s, row |-> Accepted(old, k), old |-> old.slot, slot |-> k,
           entity |-> [FreshSlot(CoachOf[old.cycle], old.proposed) EXCEPT !.booked = TRUE]]]
  BY DEF Accept
<1> DEFINE row == Accepted(old, k)
           taken == [FreshSlot(CoachOf[old.cycle], old.proposed) EXCEPT !.booked = TRUE]
           held == old.slot
           new == [todo |-> todo, id |-> s, row |-> row, old |-> held, slot |-> k,
                   entity |-> taken]
<1>2. HasProposal(old)
  BY DEF Accept
<1>3. Good(old)
  BY <1>2, Booked DEF HasProposal
<1>4. Good(row) /\ row.status = "scheduled"
  BY <1>2, <1>3, AcceptedOK
<1>5. taken \in Slot /\ Dated(taken)
  <2>1. old.proposed \in Times /\ CoachOf[old.cycle] \in Coaches
    BY <1>2, <1>3, AgreesProposed, SessionsAssumption DEF Good
  <2> QED BY <2>1, FreshSlotOK
<1>6. todo \in Seq(Tasks) /\ Head(todo) # "unlink"
  <2>1. CASE old.event = NoTime
    BY <2>1 DEF Reschedule, Tasks
  <2>2. CASE old.event # NoTime
    BY <2>2 DEF Reschedule, Tasks
  <2> QED BY <2>1, <2>2
<1>7. call' = [call EXCEPT ![c] = new]
  BY <1>1
<1>8. held \in Slots \cup {NoSlot}
  BY <1>3 DEF Good, Row
<1> HIDE DEF row, taken, todo, held, old
<1>9. new \in CallState
  BY <1>4, <1>5, <1>6, <1>8 DEF CallState, Good
<1>10. CallOK(new)
  BY <1>4, <1>5, <1>6, StoredUnlinked DEF CallOK, Stored
<1> HIDE DEF new
<1>11. call' \in [Calls -> CallState] /\ CallsOK'
  BY <1>7, <1>9, <1>10, CallWritten
<1> QED BY <1>11, OnlyCalls DEF Accept

LEMMA RejectOK ==
  ASSUME IInv, NEW c \in Calls, NEW s \in Sessions, Reject(c, s)
  PROVE  IInv'
<1> DEFINE old == sessions[s]
           row == ProposalRejected(old)
<1>1. HasProposal(old)
  BY DEF Reject
<1>2. Good(old)
  BY <1>1, Booked DEF HasProposal
<1>3. CASE Origin(old) = "pending_cancellation"
  <2>1. row \in Row /\ Good(Unlinked(row)) /\ row.event = old.event
    BY <1>1, <1>2, <1>3, ProposalRejectedOK DEF Unlinked
  <2>2. Start(c, s, row, CallOff(old))
    BY <1>3 DEF Reject
  <2> HIDE DEF row, old
  <2>3. call' \in [Calls -> CallState] /\ CallsOK'
    BY <2>1, <2>2, StartedCallOff
  <2> QED BY <2>3, OnlyCalls DEF Reject
<1>4. CASE Origin(old) # "pending_cancellation"
  <2>1. Good(row)
    BY <1>1, <1>2, <1>4, ProposalRejectedOK
  <2>2. Start(c, s, row, <<"save">>) \/ Start(c, s, row, <<"release", "save">>)
    BY <1>4 DEF Reject
  <2> HIDE DEF row, old
  <2>3. call' \in [Calls -> CallState] /\ CallsOK'
    BY <2>1, <2>2, StartedPlain
  <2> QED BY <2>3, OnlyCalls DEF Reject
<1> QED BY <1>3, <1>4

LEMMA RequestAnotherOK ==
  ASSUME IInv, NEW c \in Calls, NEW s \in Sessions, RequestAnother(c, s)
  PROVE  IInv'
<1>1. CanAskAnother(sessions[s])
  BY DEF RequestAnother
<1>2. Good(sessions[s])
  BY <1>1, Booked DEF CanAskAnother, HasProposal
<1>3. call' \in [Calls -> CallState] /\ CallsOK'
  BY <1>1, <1>2, AnotherAskedOK, StartedPlain DEF RequestAnother
<1> QED BY <1>3, OnlyCalls DEF RequestAnother

LEMMA WithdrawOK ==
  ASSUME IInv, NEW c \in Calls, NEW s \in Sessions, Withdraw(c, s)
  PROVE  IInv'
<1>1. HasProposal(sessions[s])
  BY DEF Withdraw
<1>2. Good(sessions[s])
  BY <1>1, Booked DEF HasProposal
<1>3. call' \in [Calls -> CallState] /\ CallsOK'
  BY <1>1, <1>2, WithdrawnOK, StartedPlain DEF Withdraw
<1> QED BY <1>3, OnlyCalls DEF Withdraw

LEMMA SaveOK ==
  ASSUME IInv, NEW c \in Calls, Save(c)
  PROVE  IInv'
<1>1. CASE Return(c) /\ UNCHANGED sessions
  <2>1. call' \in [Calls -> CallState] /\ CallsOK'
    BY <1>1, Returned
  <2> QED BY <1>1, <2>1, OnlyCalls DEF Save, db
<1>2. CASE sessions' = [sessions EXCEPT ![call[c].id] = call[c].row] /\ Advance(c)
  <2>1. Stored(call[c].row)
    BY DEF IInv, CallsOK, CallOK, Save, Doing
  <2>2. sessions' \in [Sessions -> Row] /\ RowsOK'
    BY <1>2, <2>1, SessionWritten
  <2>3. call' \in [Calls -> CallState] /\ CallsOK'
    BY <1>2, Advanced DEF Save
  <2> QED BY <2>2, <2>3, OnlyRowsAndCalls DEF Save
<1> QED BY <1>1, <1>2 DEF Save

LEMMA MoveOK ==
  ASSUME IInv, NEW c \in Calls, Move(c)
  PROVE  IInv'
<1>1. CASE /\ slots' = [slots EXCEPT ![call[c].slot] = NoEntity]
           /\ Return(c) /\ UNCHANGED sessions
  <2>1. slots' \in [Slots -> Slot] /\ SlotsOK'
    BY <1>1, NoEntityOK, SlotWritten
  <2>2. call' \in [Calls -> CallState] /\ CallsOK'
    BY <1>1, Returned
  <2> QED BY <1>1, <2>1, <2>2, OnlySlotsAndCalls DEF Move
<1>2. CASE /\ sessions' = [sessions EXCEPT ![call[c].id] = call[c].row]
           /\ Advance(c) /\ UNCHANGED slots
  <2>1. Stored(call[c].row)
    BY DEF IInv, CallsOK, CallOK, Move, Doing
  <2>2. sessions' \in [Sessions -> Row] /\ RowsOK'
    BY <1>2, <2>1, SessionWritten
  <2>3. call' \in [Calls -> CallState] /\ CallsOK'
    BY <1>2, Advanced DEF Move
  <2> QED BY <1>2, <2>2, <2>3, OnlyRowsAndCalls DEF Move
<1> QED BY <1>1, <1>2 DEF Move

LEMMA ReleaseOK ==
  ASSUME IInv, NEW c \in Calls, Release(c)
  PROVE  IInv'
<1>1. slots' \in [Slots -> Slot] /\ SlotsOK'
  <2>1. slots' \in [Slots -> Slot]
    BY DEF Release, IInv, TypeOK, Slot
  <2>2. ASSUME NEW k \in Slots PROVE Dated(slots'[k])
    <3>1. slots'[k].coach = slots[k].coach /\ slots'[k].time = slots[k].time
      BY DEF Release, IInv, TypeOK, Slot
    <3> QED BY <3>1 DEF IInv, SlotsOK, Dated
  <2>3. SlotsOK'
    BY <2>2 DEF SlotsOK
  <2> QED BY <2>1, <2>3
<1>2. call' \in [Calls -> CallState] /\ CallsOK'
  BY Advanced DEF Release
<1> QED BY <1>1, <1>2, OnlySlotsAndCalls DEF Release

LEMMA UnlinkOK ==
  ASSUME IInv, NEW c \in Calls, Unlink(c)
  PROVE  IInv'
<1> DEFINE new == [call[c] EXCEPT !.row.event = NoTime]
<1>1. call[c] \in CallState /\ CallOK(call[c]) /\ call[c].todo # <<>>
  BY DEF IInv, TypeOK, CallsOK, Unlink, Doing
<1>2. call[c].row \in Row
  BY <1>1 DEF CallState
<1>3. /\ new.row = Unlinked(call[c].row) /\ new.row \in Row
      /\ new.row.status = call[c].row.status
  BY <1>1, <1>2 DEF CallState, Unlinked, Row
<1>4. /\ new.todo = call[c].todo /\ new.id = call[c].id /\ new.entity = call[c].entity
      /\ new \in CallState
  BY <1>1, <1>3 DEF CallState
<1>5. Stored(new.row)
  BY <1>1, <1>3 DEF CallOK
<1>6. Resume(c, new)
  BY DEF Unlink
<1> HIDE DEF new
<1>7. call' \in [Calls -> CallState] /\ CallsOK'
  BY <1>1, <1>3, <1>4, <1>5, <1>6, Resumed
<1>8. calendar' \subseteq Sessions \X Times
  BY DEF Unlink, IInv, TypeOK
<1> QED BY <1>7, <1>8, OnlyCalendarAndCalls DEF Unlink

LEMMA SyncOK ==
  ASSUME IInv, NEW c \in Calls, Sync(c)
  PROVE  IInv'
<1> DEFINE row == call[c].row
           new == [call[c] EXCEPT !.row.event = row.at]
<1>1. /\ call[c] \in CallState /\ CallOK(call[c])
      /\ call[c].todo # <<>> /\ Head(call[c].todo) = "sync"
  BY DEF IInv, TypeOK, CallsOK, Sync, Doing
<1>2. call[c].id \in Sessions /\ row.status = "scheduled"
  <2>1. call[c].todo \in Seq(Tasks)
    BY <1>1 DEF CallState
  <2>2. 1 \in 1..Len(call[c].todo) /\ call[c].todo[1] = "sync"
    BY <1>1, <2>1
  <2>3. WillSync(call[c])
    BY <2>2 DEF WillSync
  <2> QED BY <1>1, <2>3 DEF CallOK
<1>3. Good(row)
  <2>1. Vacant.status # "scheduled"
    BY DEF Vacant
  <2> QED BY <1>1, <1>2, <2>1 DEF CallOK, Stored
<1>4. /\ new.row = [row EXCEPT !.event = row.at] /\ new.row.status = row.status
      /\ new.row \in Row
  BY <1>1, <1>3 DEF CallState, Good, Row
<1>5. /\ new.todo = call[c].todo /\ new.id = call[c].id /\ new.entity = call[c].entity
      /\ new \in CallState
  BY <1>1, <1>4 DEF CallState
<1>6. Stored(new.row)
  BY <1>2, <1>3, <1>4, LinkedOK DEF Stored
<1>7. CASE Return(c) /\ UNCHANGED calendar
  <2>1. call' \in [Calls -> CallState] /\ CallsOK'
    BY <1>7, Returned
  <2> QED BY <1>7, <2>1, OnlyCalls DEF Sync, db
<1>8. CASE calendar' = calendar \cup {<<call[c].id, row.at>>} /\ Resume(c, new)
  <2> HIDE DEF new
  <2>1. call' \in [Calls -> CallState] /\ CallsOK'
    BY <1>1, <1>4, <1>5, <1>6, <1>8, Resumed
  <2>2. calendar' \subseteq Sessions \X Times
    BY <1>2, <1>3, <1>8 DEF IInv, TypeOK, Good
  <2> QED BY <2>1, <2>2, OnlyCalendarAndCalls DEF Sync
<1>9. CASE Advance(c) /\ UNCHANGED calendar
  <2>1. call' \in [Calls -> CallState] /\ CallsOK'
    BY <1>9, Advanced DEF Sync
  <2> QED BY <1>9, <2>1, OnlyCalls DEF Sync, db
<1> QED BY <1>7, <1>8, <1>9 DEF Sync

LEMMA StartedSlot ==
  ASSUME IInv, NEW c \in Calls, NEW k \in Slots, NEW entity \in Slot, Dated(entity),
         StartSlot(c, k, entity, <<"saveSlot">>) \/ StartSlot(c, k, entity, <<"deleteSlot">>)
  PROVE  call' \in [Calls -> CallState] /\ CallsOK'
<1>1. PICK task \in {"saveSlot", "deleteSlot"} : StartSlot(c, k, entity, <<task>>)
  OBVIOUS
<1> DEFINE new == [Idle EXCEPT !.todo = <<task>>, !.slot = k, !.entity = entity]
<1>2. /\ new.todo = <<task>> /\ new.entity = entity /\ new.row = Vacant
      /\ call' = [call EXCEPT ![c] = new]
  BY <1>1 DEF StartSlot, Idle
<1>3. <<task>> \in Seq(Tasks) /\ task # "sync"
  BY DEF Tasks
<1>4. new \in CallState
  BY <1>3, IdleOK DEF CallState
<1> HIDE DEF new
<1>5. ~WillSync(new)
  BY <1>2, <1>3 DEF WillSync
<1>6. CallOK(new)
  BY <1>2, <1>5, StoredUnlinked DEF CallOK, Stored
<1> QED BY <1>2, <1>4, <1>6, CallWritten

LEMMA AddSlotOK ==
  ASSUME IInv, NEW c \in Calls, NEW k \in Slots, AddSlot(c, k)
  PROVE  IInv'
<1>1. PICK coach \in Coaches, t \in Times :
        StartSlot(c, k, FreshSlot(coach, t), <<"saveSlot">>)
  BY DEF AddSlot
<1>2. call' \in [Calls -> CallState] /\ CallsOK'
  BY <1>1, FreshSlotOK, StartedSlot
<1> QED BY <1>2, OnlyCalls DEF AddSlot

LEMMA SwitchSlotOK ==
  ASSUME IInv, NEW c \in Calls, NEW k \in Slots,
         SwitchSlot(c, k) \/ SyncWithOutlook(c, k)
  PROVE  IInv'
<1>1. PICK active \in BOOLEAN :
        StartSlot(c, k, [slots[k] EXCEPT !.active = active], <<"saveSlot">>)
  BY DEF SwitchSlot, SyncWithOutlook
<1>2. /\ [slots[k] EXCEPT !.active = active] \in Slot
      /\ Dated([slots[k] EXCEPT !.active = active])
  <2>1. slots[k] \in Slot /\ Dated(slots[k])
    BY DEF IInv, TypeOK, SlotsOK
  <2> QED BY <2>1 DEF Slot, Dated
<1>3. call' \in [Calls -> CallState] /\ CallsOK'
  BY <1>1, <1>2, StartedSlot
<1> QED BY <1>3, OnlyCalls DEF SwitchSlot, SyncWithOutlook

LEMMA RemoveSlotOK ==
  ASSUME IInv, NEW c \in Calls, NEW k \in Slots, RemoveSlot(c, k)
  PROVE  IInv'
<1>1. call' \in [Calls -> CallState] /\ CallsOK'
  BY NoEntityOK, StartedSlot DEF RemoveSlot
<1> QED BY <1>1, OnlyCalls DEF RemoveSlot

LEMMA DeleteSlotOK ==
  ASSUME IInv, NEW c \in Calls, DeleteSlot(c)
  PROVE  IInv'
<1>1. call' \in [Calls -> CallState] /\ CallsOK'
  BY Returned DEF DeleteSlot
<1>2. slots' \in [Slots -> Slot] /\ SlotsOK'
  <2>1. CASE UNCHANGED slots
    BY <2>1 DEF IInv, TypeOK, SlotsOK
  <2>2. CASE slots' = [slots EXCEPT ![call[c].slot] = NoEntity]
    BY <2>2, NoEntityOK, SlotWritten
  <2> QED BY <2>1, <2>2 DEF DeleteSlot
<1> QED BY <1>1, <1>2, OnlySlotsAndCalls DEF DeleteSlot

LEMMA RestartOK ==
  ASSUME IInv, Restart
  PROVE  IInv'
<1>1. call' \in [Calls -> CallState] /\ CallsOK'
  BY IdleOK DEF Restart, CallsOK
<1> QED BY <1>1, OnlyCalls DEF Restart

LEMMA StutterOK ==
  ASSUME IInv, UNCHANGED vars
  PROVE  IInv'
<1>1. call' \in [Calls -> CallState] /\ CallsOK'
  BY DEF IInv, TypeOK, CallsOK, vars
<1> QED BY <1>1, OnlyCalls DEF vars, db

-----------------------------------------------------------------------------
(* The theorems *)

LEMMA NextIInv == IInv /\ [Next]_vars => IInv'
<1> SUFFICES ASSUME IInv, [Next]_vars PROVE IInv'
  OBVIOUS
<1>1. ASSUME NEW c \in Calls, NEW s \in Sessions, OnSession(c, s) PROVE IInv'
  BY <1>1, BookOK, ConfirmOK, DeclineOK, CancelOK, CompleteOK, MarkNoShowOK,
     RequestCancelOK, ApproveCancelOK, DeclineCancelOK, ProposeOK, AcceptOK, RejectOK,
     RequestAnotherOK, WithdrawOK DEF OnSession
<1>2. ASSUME NEW c \in Calls, NEW k \in Slots, OnSlot(c, k) PROVE IInv'
  BY <1>2, AddSlotOK, SwitchSlotOK, RemoveSlotOK DEF OnSlot
<1>3. ASSUME NEW c \in Calls, Continue(c) PROVE IInv'
  BY <1>3, CheckOverlapOK, SaveSlotOK, InsertOK, SaveOK, MoveOK, ReleaseOK, UnlinkOK,
     SyncOK, DeleteSlotOK DEF Continue
<1> QED BY <1>1, <1>2, <1>3, RestartOK, StutterOK DEF Next

\* Whatever the handlers write, and however they interleave, fail and are lost
\* in a restart: what is stored, and what any of them may still store, is a
\* session whose columns agree.
THEOREM SessionsInductive == Spec => []IInv
<1> QED BY InitIInv, NextIInv, PTL DEF Spec

\* Every table and every handler in flight holds values of its type
\* (entities/coaching-session.entity.ts, entities/coach-availability.entity.ts).
THEOREM SessionTypes == Spec => []TypeOK
<1>1. IInv => TypeOK
  BY DEF IInv
<1> QED BY <1>1, SessionsInductive, PTL

\* The proposal, cancellation and calendar columns of every stored session fit
\* its status, with any number of handlers of coaching-sessions.service.ts at
\* work on it.
THEOREM SessionColumns == Spec => []SessionRowsAgree
<1>1. IInv => SessionRowsAgree
  BY VacantOK DEF IInv, RowsOK, Stored, Good, SessionRowsAgree
<1> QED BY <1>1, SessionsInductive, PTL

=============================================================================
