------------------------ MODULE SessionPromisesProofs ------------------------
(***************************************************************************)
(* What coaching promises across sessions, when handlers do not meet: no   *)
(* two commitments of one person overlap, no cycle has two live sessions   *)
(* of one number, and a session runs through its abstract lifecycle. A     *)
(* handler decides on what it has read, so what is inductive is that the   *)
(* row it is about to save still fits the table it will be saved into.     *)
(*                                                                         *)
(* Then the other two tables against the sessions, with one handler at a   *)
(* time and no restart: the coaching events in Outlook, and the slots of   *)
(* the coaches. Between a change to the calendar and the save of the new   *)
(* reference the two disagree; where the calendar answers, such a save     *)
(* cannot fail, because it calls the session off or because its row was    *)
(* just saved. A handler marks a slot some awaits before a session refers  *)
(* to it, and releases one before or after the session leaves it; the      *)
(* invariant says for each of those awaits which slot is out of step, and  *)
(* why the save that is to follow cannot fail.                             *)
(***************************************************************************)
EXTENDS CoachingSessionsProofs

CancelAsk(row) ==
  IF Standing(row) = "pending_cancellation" THEN row.cancelBy ELSE "none"

\* The lifecycle sees no difference.
SameView(old, new) ==
  /\ Stage(new) = Stage(old) /\ new.at = old.at
  /\ CancelAsk(new) = CancelAsk(old) /\ new.proposed = old.proposed

NoneAsked(row) == CancelAsk(row) = "none" /\ row.proposed = NoTime

\* The steps of SessionLifecycle, of one row.
Asks(old, new) ==
  \/ /\ Stage(old) = "none" /\ Stage(new) = "requested" /\ new.at \in Times
     /\ CancelAsk(new) = CancelAsk(old) /\ new.proposed = old.proposed
  \/ /\ NoneAsked(old) /\ Stage(old) = "agreed" /\ Stage(new) = "agreed"
     /\ new.at = old.at /\ CancelAsk(new) \in Parties /\ new.proposed = old.proposed
  \/ /\ Stage(old) \in {"requested", "agreed", "missed"} /\ Stage(new) = Stage(old)
     /\ new.at = old.at /\ CancelAsk(new) = CancelAsk(old)
     /\ new.proposed \in Times \ {old.at}

Proceeds(old, new) ==
  /\ NoneAsked(old) /\ NoneAsked(new) /\ new.at = old.at
  /\ \/ Stage(old) = "requested" /\ Stage(new) \in {"agreed", "off"}
     \/ Stage(old) = "agreed" /\ Stage(new) \in {"held", "missed"}

Answers(old, new) ==
  \/ /\ CancelAsk(old) # "none" /\ old.proposed = NoTime
     /\ Stage(new) \in {"off", "agreed"} /\ new.at = old.at /\ NoneAsked(new)
  \/ /\ old.proposed # NoTime
     /\ Stage(new) = "agreed" /\ new.at = old.proposed /\ NoneAsked(new)
  \/ /\ old.proposed # NoTime /\ new.at = old.at /\ NoneAsked(new)
     /\ Stage(new) = IF Stage(old) = "requested" \/ CancelAsk(old) # "none"
                     THEN "off" ELSE Stage(old)
  \/ /\ old.proposed # NoTime /\ new.at = old.at /\ new.proposed = NoTime
     /\ Stage(new) = Stage(old) /\ CancelAsk(new) = CancelAsk(old)

Follows(old, new) ==
  SameView(old, new) \/ Asks(old, new) \/ Proceeds(old, new) \/ Answers(old, new)

\* Two rows that differ in their event reference at most.
Alike(old, new) ==
  /\ new.status = old.status /\ new.before = old.before /\ new.cycle = old.cycle
  /\ new.number = old.number /\ new.at = old.at /\ new.proposed = old.proposed
  /\ new.cancelBy = old.cancelBy

LEMMA AlikeLooks ==
  ASSUME NEW old, NEW new, Alike(old, new)
  PROVE  /\ Standing(new) = Standing(old) /\ Stage(new) = Stage(old)
         /\ CancelAsk(new) = CancelAsk(old) /\ SameView(old, new)
         /\ (Active(new) <=> Active(old)) /\ (Committed(new) <=> Committed(old))
<1>1. Standing(new) = Standing(old)
  BY DEF Alike, Standing, HasProposal, Origin
<1>2. Stage(new) = Stage(old) /\ CancelAsk(new) = CancelAsk(old)
  BY <1>1 DEF Stage, CancelAsk, Alike
<1> QED BY <1>1, <1>2 DEF SameView, Active, Committed, Alike

LEMMA FollowsAlike ==
  ASSUME NEW old, NEW row, NEW new, Follows(old, row), Alike(row, new)
  PROVE  Follows(old, new)
<1>1. /\ Stage(new) = Stage(row) /\ new.at = row.at /\ new.proposed = row.proposed
      /\ CancelAsk(new) = CancelAsk(row)
  BY AlikeLooks DEF Alike
<1>2. NoneAsked(new) <=> NoneAsked(row)
  BY <1>1 DEF NoneAsked
<1> QED BY <1>1, <1>2 DEF Follows, SameView, Asks, Proceeds, Answers

-----------------------------------------------------------------------------
(* What the handlers make of a row *)

\* The same session, and no claim that the row did not make before.
Keeps(old, new) == new.cycle = old.cycle /\ new.number = old.number

Plain(old, new) ==
  /\ Follows(old, new) /\ Keeps(old, new)
  /\ Active(new) => Active(old)
  /\ Committed(new) => Committed(old) /\ new.at = old.at

\* The view of a row without an open proposal, by its status.
LEMMA SettledView ==
  ASSUME NEW row, row.status \in Settled
  PROVE  /\ Standing(row) = row.status
         /\ row.status = "pending_coach_approval" => Stage(row) = "requested"
         /\ row.status \in {"scheduled", "pending_cancellation"} => Stage(row) = "agreed"
         /\ row.status = "completed" => Stage(row) = "held"
         /\ row.status = "no_show" => Stage(row) = "missed"
         /\ row.status \in {"declined", "cancelled"} => Stage(row) = "off"
         /\ row.status # "pending_cancellation" => CancelAsk(row) = "none"
         /\ row.status = "pending_cancellation" => CancelAsk(row) = row.cancelBy
         /\ Active(row) <=> row.status \notin Released
         /\ Committed(row) <=> row.status \in {"scheduled", "pending_cancellation", "completed"}
<1>1. Standing(row) = row.status /\ row.status # "none"
  BY StatusesOK DEF Standing, HasProposal, Settled
<1>2. row.status \in {"scheduled", "pending_cancellation"} => Stage(row) = "agreed"
  BY <1>1 DEF Stage
<1>3. /\ row.status = "pending_coach_approval" => Stage(row) = "requested"
      /\ row.status = "completed" => Stage(row) = "held"
      /\ row.status = "no_show" => Stage(row) = "missed"
  BY <1>1 DEF Stage
<1>4. row.status \in {"declined", "cancelled"} => Stage(row) = "off"
  BY <1>1 DEF Stage
<1> QED BY <1>1, <1>2, <1>3, <1>4 DEF CancelAsk, Active, Committed

\* And of one under a proposal, by what it was before.
LEMMA ProposedView ==
  ASSUME NEW row, HasProposal(row), row.before \in Proposable
  PROVE  /\ Standing(row) = row.before /\ Origin(row) = row.before
         /\ row.before = "pending_coach_approval" => Stage(row) = "requested"
         /\ row.before \in {"scheduled", "pending_cancellation"} => Stage(row) = "agreed"
         /\ row.before = "no_show" => Stage(row) = "missed"
         /\ row.before # "pending_cancellation" => CancelAsk(row) = "none"
         /\ row.before = "pending_cancellation" => CancelAsk(row) = row.cancelBy
         /\ Active(row)
         /\ Committed(row) <=> row.before \in {"scheduled", "pending_cancellation"}
<1>1. Standing(row) = row.before /\ Origin(row) = row.before
  BY DEF Standing, Origin, Proposable
<1>2. /\ row.before = "pending_coach_approval" => Stage(row) = "requested"
      /\ row.before \in {"scheduled", "pending_cancellation"} => Stage(row) = "agreed"
      /\ row.before = "no_show" => Stage(row) = "missed"
  BY <1>1 DEF Stage
<1>3. Active(row)
  BY DEF Active, HasProposal, Released
<1> QED BY <1>1, <1>2, <1>3 DEF CancelAsk, Committed, Proposable

\* A settled session that only changes its status.
LEMMA RestatedGoes ==
  ASSUME NEW row, Good(row), NEW to,
         \/ row.status = "pending_coach_approval" /\ to \in {"scheduled", "declined", "cancelled"}
         \/ row.status = "scheduled" /\ to \in {"completed", "no_show"}
  PROVE  LET new == [row EXCEPT !.status = to] IN
         /\ Follows(row, new) /\ Keeps(row, new) /\ new.at = row.at
         /\ Active(new) => Active(row)
         /\ to # "scheduled" => Plain(row, new)
<1> DEFINE new == [row EXCEPT !.status = to]
<1>1. row.status \in Settled /\ to \in Settled
  BY StatusesOK
<1>2. /\ new.status = to /\ new.at = row.at /\ new.cycle = row.cycle
      /\ new.number = row.number /\ new.proposed = row.proposed
  BY DEF Good, Row
<1> HIDE DEF new
<1>3. row.proposed = NoTime
  BY <1>1, AgreesSettled
<1>4. NoneAsked(row) /\ NoneAsked(new)
  BY <1>1, <1>2, <1>3, SettledView DEF NoneAsked
<1>5. Proceeds(row, new)
  BY <1>1, <1>2, <1>4, SettledView DEF Proceeds
<1>6. Active(new) => Active(row)
  BY <1>1, SettledView DEF Released
<1>7. to # "scheduled" /\ Committed(new) => Committed(row)
  BY <1>1, <1>2, SettledView
<1> QED BY <1>2, <1>5, <1>6, <1>7 DEF Follows, Keeps, Plain, new

LEMMA AnswerGoes ==
  ASSUME NEW row, Good(row), row.status = "pending_coach_approval"
  PROVE  /\ Follows(row, Confirmed(row)) /\ Keeps(row, Confirmed(row))
         /\ Confirmed(row).at = row.at
         /\ Active(Confirmed(row)) => Active(row)
         /\ Plain(row, Declined(row)) /\ Plain(row, Cancelled(row))
  BY RestatedGoes DEF Confirmed, Declined, Cancelled

LEMMA HeldGoes ==
  ASSUME NEW row, Good(row), IsScheduled(row)
  PROVE  Plain(row, Completed(row)) /\ Plain(row, NoShow(row))
  BY RestatedGoes DEF IsScheduled, Completed, NoShow

LEMMA CancelRequestedGoes ==
  ASSUME NEW row, Good(row), IsScheduled(row), NEW by \in Parties
  PROVE  Plain(row, CancelRequested(row, by))
<1> DEFINE new == CancelRequested(row, by)
<1>1. row.status = "scheduled" /\ row.status \in Settled
  BY StatusesOK DEF IsScheduled
<1>2. /\ new.status = "pending_cancellation" /\ new.at = row.at /\ new.cycle = row.cycle
      /\ new.number = row.number /\ new.proposed = row.proposed /\ new.cancelBy = by
  BY DEF CancelRequested, Good, Row
<1> HIDE DEF new
<1>3. new.status \in Settled /\ row.proposed = NoTime
  BY <1>1, <1>2, StatusesOK, AgreesSettled
<1>4. NoneAsked(row) /\ CancelAsk(new) = by /\ Stage(row) = "agreed" /\ Stage(new) = "agreed"
  BY <1>1, <1>2, <1>3, SettledView DEF NoneAsked
<1>5. Active(row) /\ Committed(row)
  BY <1>1, SettledView DEF Released
<1> QED BY <1>2, <1>4, <1>5 DEF Follows, Asks, Keeps, Plain, new

LEMMA CancelAnsweredGoes ==
  ASSUME NEW row, Good(row), CanAnswerCancel(row)
  PROVE  Plain(row, CancelApproved(row)) /\ Plain(row, CancelDeclined(row))
<1>1. row.status = "pending_cancellation" /\ row.status \in Settled
  BY StatusesOK DEF CanAnswerCancel
<1>2. row.proposed = NoTime /\ row.beforeCancel = "scheduled" /\ row.cancelBy # "none"
  BY <1>1, AgreesSettled
<1>3. CancelAsk(row) # "none" /\ Active(row) /\ Committed(row)
  BY <1>1, <1>2, SettledView DEF Released
<1>4. ASSUME NEW new, new.status \in {"cancelled", "scheduled"}, new.at = row.at,
             new.cycle = row.cycle, new.number = row.number, new.proposed = row.proposed
      PROVE  Plain(row, new)
  <2>1. new.status \in Settled
    BY <1>4, StatusesOK
  <2>2. NoneAsked(new) /\ Stage(new) \in {"off", "agreed"}
    BY <1>2, <1>4, <2>1, SettledView DEF NoneAsked
  <2> QED BY <1>2, <1>3, <1>4, <2>2 DEF Follows, Answers, Keeps, Plain
<1>5. Plain(row, CancelApproved(row))
  <2> DEFINE new == CancelApproved(row)
  <2>1. /\ new.status = "cancelled" /\ new.at = row.at /\ new.cycle = row.cycle
        /\ new.number = row.number /\ new.proposed = row.proposed
    BY DEF CancelApproved, Good, Row
  <2> HIDE DEF new
  <2> QED BY <1>4, <2>1 DEF new
<1>6. Plain(row, CancelDeclined(row))
  <2> DEFINE new == CancelDeclined(row)
  <2>1. /\ new.status = "scheduled" /\ new.at = row.at /\ new.cycle = row.cycle
        /\ new.number = row.number /\ new.proposed = row.proposed
    BY <1>2 DEF CancelDeclined, Good, Row
  <2> HIDE DEF new
  <2> QED BY <1>4, <2>1 DEF new
<1> QED BY <1>5, <1>6

-----------------------------------------------------------------------------
(* Proposals *)

\* The rows that come of a proposal, one way or the other, by their status.
LEMMA ProposedGoes ==
  ASSUME NEW row, Good(row), NEW t \in Times, CanPropose(row, t)
  PROVE  LET new == Proposed(row, t) IN
         /\ Follows(row, new) /\ Keeps(row, new) /\ new.at = row.at
         /\ Active(new) => Active(row) \/ row.status \in Released
         /\ Committed(new) => Committed(row)
<1> DEFINE new == Proposed(row, t)
           origin == IF row.status \in Proposable THEN row.status ELSE row.before
<1>1. /\ new.status = "pending_employee_approval" /\ new.before = origin
      /\ new.proposed = t /\ new.at = row.at /\ new.cycle = row.cycle
      /\ new.number = row.number /\ new.cancelBy = row.cancelBy
  BY DEF Proposed, Good, Row
<1>2. t \in Times \ {row.at}
  BY DEF CanPropose
<1>3. /\ Standing(row) = origin /\ origin \in Proposable
      /\ Active(row) \/ row.status \in Released
      /\ Stage(row) \in {"requested", "agreed", "missed"}
  <2>1. CASE row.status \in Proposable
    <3>1. origin = row.status /\ row.status \in Settled
      BY <2>1, StatusesOK
    <3> QED BY <2>1, <3>1, SettledView DEF Proposable
  <2>2. CASE row.status \notin Proposable
    <3>1. HasProposal(row) /\ origin = row.before
      BY <2>2 DEF CanPropose, HasProposal
    <3>2. row.before \in Proposable
      BY <3>1, AgreesProposed
    <3> QED BY <3>1, <3>2, ProposedView DEF Proposable
  <2> QED BY <2>1, <2>2
<1> HIDE DEF new, origin
<1>4. HasProposal(new) /\ Standing(new) = origin
  BY <1>1, <1>3, ProposedView DEF HasProposal
<1>5. Stage(new) = Stage(row) /\ (Committed(new) <=> Committed(row))
  BY <1>3, <1>4 DEF Stage, Committed
<1>6. CancelAsk(new) = CancelAsk(row)
  BY <1>1, <1>3, <1>4 DEF CancelAsk
<1>7. Asks(row, new)
  BY <1>1, <1>2, <1>3, <1>5, <1>6 DEF Asks
<1> QED BY <1>1, <1>3, <1>5, <1>7 DEF Follows, Keeps, new

\* An open proposal comes to an end without a new time.
LEMMA EndedGoes ==
  ASSUME NEW row, Good(row), HasProposal(row), NEW new,
         new.at = row.at, new.cycle = row.cycle, new.number = row.number,
         new.proposed = NoTime, new.cancelBy \in {row.cancelBy, "none"},
         \/ new.status = row.before /\ new.cancelBy = row.cancelBy
         \/ row.before = "pending_coach_approval" /\ new.status = "declined"
         \/ row.before = "pending_cancellation" /\ new.status = "cancelled"
         \/ row.before = "scheduled" /\ new.status = "scheduled"
  PROVE  Plain(row, new)
<1>1. row.before \in Proposable /\ row.proposed # NoTime /\ new.status \in Settled
  BY AgreesProposed, NoTimeOK, StatusesOK
<1>2. row.before = "pending_cancellation" => row.cancelBy # "none"
  BY AgreesProposed
<1>3. Active(row) /\ (Committed(new) => Committed(row))
  BY <1>1, ProposedView, SettledView DEF Proposable
<1>4. CASE new.status = row.before /\ new.cancelBy = row.cancelBy
  <2>1. Stage(new) = Stage(row) /\ CancelAsk(new) = CancelAsk(row)
    BY <1>1, <1>4, ProposedView, SettledView DEF Proposable
  <2>2. Answers(row, new)
    BY <1>1, <2>1 DEF Answers
  <2> QED BY <1>3, <2>2 DEF Follows, Keeps, Plain
<1>5. ASSUME \/ row.before = "pending_coach_approval" /\ new.status = "declined"
             \/ row.before = "pending_cancellation" /\ new.status = "cancelled"
             \/ row.before = "scheduled" /\ new.status = "scheduled"
      PROVE  Plain(row, new)
  <2>1. NoneAsked(new)
    BY <1>1, <1>5, SettledView DEF NoneAsked
  <2>2. Stage(new) = IF Stage(row) = "requested" \/ CancelAsk(row) # "none"
                     THEN "off" ELSE Stage(row)
    BY <1>1, <1>2, <1>5, ProposedView, SettledView
  <2>3. Answers(row, new)
    BY <1>1, <2>1, <2>2 DEF Answers
  <2> QED BY <1>3, <2>3 DEF Follows, Keeps, Plain
<1> QED BY <1>4, <1>5

LEMMA AcceptedGoes ==
  ASSUME NEW row, Good(row), HasProposal(row), NEW k \in Slots
  PROVE  LET new == Accepted(row, k) IN
         /\ Follows(row, new) /\ Keeps(row, new) /\ new.at = row.proposed
         /\ Active(new) => Active(row)
<1> DEFINE new == Accepted(row, k)
<1>1. /\ new.status = "scheduled" /\ new.at = row.proposed /\ new.cycle = row.cycle
      /\ new.number = row.number /\ new.proposed = NoTime
  BY DEF Accepted, ClearProposal, ClearCancellation, Good, Row
<1> HIDE DEF new
<1>2. row.before \in Proposable /\ row.proposed # NoTime /\ new.status \in Settled
  BY <1>1, AgreesProposed, NoTimeOK, StatusesOK
<1>3. Stage(new) = "agreed" /\ NoneAsked(new)
  BY <1>1, <1>2, SettledView DEF NoneAsked
<1>4. Answers(row, new) /\ Active(row)
  BY <1>1, <1>2, <1>3, ProposedView DEF Answers
<1> QED BY <1>1, <1>4 DEF Follows, Keeps, new

\* A refusal, except of a replacement for a no-show.
LEMMA ProposalRejectedGoes ==
  ASSUME NEW row, Good(row), HasProposal(row), Origin(row) # "no_show"
  PROVE  Plain(row, ProposalRejected(row))
<1> DEFINE new == ProposalRejected(row)
<1>1. Origin(row) = row.before /\ row.before \in Proposable
  BY AgreesProposed
<1>2. /\ new.at = row.at /\ new.cycle = row.cycle /\ new.number = row.number
      /\ new.proposed = NoTime /\ new.cancelBy \in {row.cancelBy, "none"}
      /\ \/ row.before = "pending_coach_approval" /\ new.status = "declined"
         \/ row.before = "pending_cancellation" /\ new.status = "cancelled"
         \/ row.before = "scheduled" /\ new.status = "scheduled"
  <2>1. CASE row.before = "pending_coach_approval"
    BY <1>1, <2>1 DEF ProposalRejected, ClearProposal, Good, Row
  <2>2. CASE row.before = "pending_cancellation"
    BY <1>1, <2>2 DEF ProposalRejected, ClearProposal, ClearCancellation, Good, Row
  <2>3. CASE row.before = "scheduled"
    BY <1>1, <2>3 DEF ProposalRejected, ClearProposal, Good, Row
  <2> QED BY <1>1, <2>1, <2>2, <2>3 DEF Proposable
<1> HIDE DEF new
<1>3. Plain(row, new)
  BY <1>2, EndedGoes
<1> QED BY <1>3 DEF new

\* Refusing a replacement claims no number, whatever it does to the agenda.
LEMMA ReplacementRejectedGoes ==
  ASSUME NEW row, Good(row), HasProposal(row), Origin(row) = "no_show"
  PROVE  Active(row) /\ Keeps(row, ProposalRejected(row))
<1>1. row.before \in Proposable
  BY AgreesProposed
<1>2. Active(row)
  BY <1>1, ProposedView
<1>3. /\ ProposalRejected(row).cycle = row.cycle
      /\ ProposalRejected(row).number = row.number
  BY DEF ProposalRejected, ClearProposal, Good, Row
<1> QED BY <1>2, <1>3 DEF Keeps

LEMMA AnotherAskedGoes ==
  ASSUME NEW row, Good(row), CanAskAnother(row)
  PROVE  Plain(row, AnotherAsked(row))
<1> DEFINE new == AnotherAsked(row)
<1>1. Alike(row, new)
  BY DEF Alike, AnotherAsked, Good, Row
<1> HIDE DEF new
<1>2. Plain(row, new)
  BY <1>1, AlikeLooks DEF Plain, Follows, Keeps, Alike
<1> QED BY <1>2 DEF new

LEMMA WithdrawnGoes ==
  ASSUME NEW row, Good(row), HasProposal(row)
  PROVE  Plain(row, Withdrawn(row))
<1> DEFINE new == Withdrawn(row)
<1>1. Origin(row) = row.before
  BY AgreesProposed
<1>2. /\ new.at = row.at /\ new.cycle = row.cycle /\ new.number = row.number
      /\ new.proposed = NoTime /\ new.cancelBy = row.cancelBy /\ new.status = row.before
  BY <1>1 DEF Withdrawn, ClearProposal, Good, Row
<1> HIDE DEF new
<1>3. Plain(row, new)
  BY <1>2, EndedGoes
<1> QED BY <1>3 DEF new

\* A booking is a request, and commits nobody.
LEMMA BookingGoes ==
  ASSUME NEW q \in Cycles, NEW n \in 1..SessionsPerCycle, NEW k \in Slots, NEW t \in Times
  PROVE  LET new == Booking(q, n, k, t) IN
         /\ Follows(Vacant, new) /\ new.cycle = q /\ new.number = n /\ ~Committed(new)
<1> DEFINE new == Booking(q, n, k, t)
<1>1. /\ new.status = "pending_coach_approval" /\ new.cycle = q /\ new.number = n
      /\ new.at = t /\ new.proposed = NoTime
  BY DEF Booking, Vacant
<1>2. Vacant.status = "none" /\ Vacant.proposed = NoTime
  BY DEF Vacant
<1> HIDE DEF new
<1>3. new.status \in Settled
  BY <1>1, StatusesOK
<1>4. Standing(Vacant) = "none"
  BY <1>2 DEF Standing, HasProposal
<1>5. Stage(Vacant) = "none" /\ CancelAsk(Vacant) = "none"
  BY <1>4 DEF Stage, CancelAsk
<1>6. Asks(Vacant, new)
  BY <1>1, <1>2, <1>3, <1>5, SettledView DEF Asks
<1>7. ~Committed(new)
  BY <1>1, <1>3, SettledView
<1> QED BY <1>1, <1>6, <1>7 DEF Follows, new

-----------------------------------------------------------------------------
(* What a handler may begin, and what it does then *)

\* A replacement offered for a no-show is not refused: the refusal would bring the
\* session back to a time that may be taken.
NoReplacementRefused == "rejectReplacement" \notin Ops

\* The row fits the other sessions as they are when the handler reads them.
Begins(s, row) ==
  /\ Active(row) => \/ Active(sessions[s]) /\ Keeps(sessions[s], row)
                    \/ row.number \in FreeNumbers(row.cycle)
  /\ NoReplacementRefused =>
       /\ Follows(sessions[s], row)
       /\ Committed(row) => \/ /\ Committed(sessions[s]) /\ row.at = sessions[s].at
                               /\ row.cycle = sessions[s].cycle
                            \/ ~Clash(s, row.cycle, row.at, NotHolding)

OthersStay(c) == \A d \in Calls \ {c} : call'[d] = call[d]

\* A handler starts with a row that fits, saves its row, or goes on with it.
TakesUp(c) ==
  /\ Free(c) /\ sessions' = sessions
  /\ call'[c].id \in Sessions => Begins(call'[c].id, call'[c].row)

GoesOn(c) ==
  /\ ~Free(c) /\ sessions' = sessions
  /\ call'[c].id \in Sessions =>
       call'[c].id = call[c].id /\ Alike(call[c].row, call'[c].row)

Stores(c) ==
  /\ ~Free(c) /\ sessions' = [sessions EXCEPT ![call[c].id] = call[c].row]
  /\ call'[c] # call[c]
  /\ call'[c].id \in Sessions => call'[c].id = call[c].id /\ call'[c].row = call[c].row

Acts(c) == OthersStay(c) /\ (TakesUp(c) \/ GoesOn(c) \/ Stores(c))

\* Nobody acts: a stutter or a restart.
Rests == sessions' = sessions /\ \A c \in Calls : call'[c] \in {call[c], Idle}

LEMMA IdleHolds == Idle.todo = <<>> /\ Idle.id = NoSession /\ Idle.id \notin Sessions
  BY SessionsAssumption DEF Idle

LEMMA StartTakes ==
  ASSUME IInv, NEW c \in Calls, NEW s, NEW row, NEW todo, Start(c, s, row, todo)
  PROVE  /\ OthersStay(c) /\ call'[c].todo = todo
         /\ call'[c].id = s /\ call'[c].row = row /\ call'[c].old = sessions[s].slot
<1>1. call \in [Calls -> CallState]
  BY DEF IInv, TypeOK
<1> DEFINE k == [Idle EXCEPT !.todo = todo, !.id = s, !.row = row, !.old = sessions[s].slot]
<1>2. k.todo = todo /\ k.id = s /\ k.row = row /\ k.old = sessions[s].slot
  BY DEF Idle
<1>3. call' = [call EXCEPT ![c] = k]
  BY DEF Start
<1> HIDE DEF k
<1> QED BY <1>1, <1>2, <1>3 DEF OthersStay

LEMMA ReturnTakes ==
  ASSUME IInv, NEW c \in Calls, Return(c)
  PROVE  OthersStay(c) /\ call'[c] = Idle
  BY DEF IInv, TypeOK, Return, OthersStay

LEMMA ResumeTakes ==
  ASSUME IInv, NEW c \in Calls, NEW new \in CallState, Resume(c, new)
  PROVE  /\ OthersStay(c)
         /\ \/ Tail(new.todo) = <<>> /\ call'[c] = Idle
            \/ /\ Tail(new.todo) # <<>> /\ call'[c].todo = Tail(new.todo)
               /\ call'[c].id = new.id /\ call'[c].row = new.row
               /\ call'[c].slot = new.slot /\ call'[c].entity = new.entity
               /\ call'[c].old = new.old
<1>1. call \in [Calls -> CallState]
  BY DEF IInv, TypeOK
<1> DEFINE k == [new EXCEPT !.todo = Tail(@)]
<1>2. /\ k.todo = Tail(new.todo) /\ k.id = new.id /\ k.row = new.row
      /\ k.slot = new.slot /\ k.entity = new.entity /\ k.old = new.old
  BY DEF CallState
<1>3. call' = [call EXCEPT ![c] = IF Tail(new.todo) = <<>> THEN Idle ELSE k]
  BY DEF Resume
<1> HIDE DEF k
<1> QED BY <1>1, <1>2, <1>3 DEF OthersStay

LEMMA AdvanceTakes ==
  ASSUME IInv, NEW c \in Calls, Advance(c)
  PROVE  /\ OthersStay(c)
         /\ \/ Tail(call[c].todo) = <<>> /\ call'[c] = Idle
            \/ /\ Tail(call[c].todo) # <<>> /\ call'[c].todo = Tail(call[c].todo)
               /\ call'[c].id = call[c].id /\ call'[c].row = call[c].row
               /\ call'[c].slot = call[c].slot /\ call'[c].entity = call[c].entity
               /\ call'[c].old = call[c].old
  BY ResumeTakes DEF IInv, TypeOK, Advance

\* A handler that began with a plain change.
LEMMA PlainBegins ==
  ASSUME NEW s \in Sessions, NEW row, Plain(sessions[s], row)
  PROVE  Begins(s, row)
  BY DEF Plain, Keeps, Begins

LEMMA PlainTakenUp ==
  ASSUME IInv, NEW c \in Calls, Free(c), NEW s \in Sessions, NEW row, NEW todo,
         Start(c, s, row, todo), Plain(sessions[s], row), UNCHANGED db
  PROVE  Acts(c)
  BY PlainBegins, StartTakes DEF Acts, TakesUp, db

LEMMA PlainHandlers ==
  ASSUME IInv, NEW c \in Calls, NEW s \in Sessions,
         \/ Decline(c, s) \/ Cancel(c, s) \/ Complete(c, s) \/ MarkNoShow(c, s)
         \/ RequestCancel(c, s) \/ ApproveCancel(c, s) \/ DeclineCancel(c, s)
         \/ Reject(c, s) \/ RequestAnother(c, s) \/ Withdraw(c, s)
  PROVE  Acts(c)
<1>1. CASE Decline(c, s) \/ Cancel(c, s)
  <2>1. sessions[s].status = "pending_coach_approval"
    BY <1>1 DEF Decline, Cancel, AwaitsCoach, CanCancel
  <2>2. Good(sessions[s])
    BY <2>1, Booked
  <2> QED BY <1>1, <2>1, <2>2, AnswerGoes, PlainTakenUp DEF Decline, Cancel
<1>2. CASE Complete(c, s) \/ MarkNoShow(c, s) \/ RequestCancel(c, s)
  <2>1. IsScheduled(sessions[s])
    BY <1>2 DEF Complete, MarkNoShow, RequestCancel
  <2>2. Good(sessions[s])
    BY <2>1, Booked DEF IsScheduled
  <2>3. CASE Complete(c, s) \/ MarkNoShow(c, s)
    BY <2>1, <2>2, <2>3, HeldGoes, PlainTakenUp DEF Complete, MarkNoShow
  <2>4. CASE RequestCancel(c, s)
    <3>1. PICK by \in Parties : Start(c, s, CancelRequested(sessions[s], by), <<"save">>)
      BY <2>4 DEF RequestCancel
    <3> QED BY <2>1, <2>2, <2>4, <3>1, CancelRequestedGoes, PlainTakenUp DEF RequestCancel
  <2> QED BY <1>2, <2>3, <2>4
<1>3. CASE ApproveCancel(c, s) \/ DeclineCancel(c, s)
  <2>1. CanAnswerCancel(sessions[s])
    BY <1>3 DEF ApproveCancel, DeclineCancel, CanApproveCancel
  <2>2. Good(sessions[s])
    BY <2>1, Booked DEF CanAnswerCancel
  <2> QED BY <1>3, <2>1, <2>2, CancelAnsweredGoes, PlainTakenUp
          DEF ApproveCancel, DeclineCancel
<1>4. CASE Reject(c, s)
  <2>1. HasProposal(sessions[s])
    BY <1>4 DEF Reject
  <2>2. Good(sessions[s])
    BY <2>1, Booked DEF HasProposal
  <2>3. CASE Origin(sessions[s]) # "no_show"
    BY <1>4, <2>1, <2>2, <2>3, ProposalRejectedGoes, PlainTakenUp DEF Reject
  <2>4. CASE Origin(sessions[s]) = "no_show"
    <3>1. Begins(s, ProposalRejected(sessions[s]))
      BY <1>4, <2>1, <2>2, <2>4, ReplacementRejectedGoes
         DEF Reject, Begins, NoReplacementRefused
    <3> QED BY <1>4, <3>1, StartTakes DEF Reject, Acts, TakesUp, db
  <2> QED BY <2>3, <2>4
<1>5. CASE RequestAnother(c, s) \/ Withdraw(c, s)
  <2>1. HasProposal(sessions[s])
    BY <1>5 DEF RequestAnother, Withdraw, CanAskAnother
  <2>2. Good(sessions[s])
    BY <2>1, Booked DEF HasProposal
  <2> QED BY <1>5, <2>1, <2>2, AnotherAskedGoes, WithdrawnGoes, PlainTakenUp
          DEF RequestAnother, Withdraw
<1> QED BY <1>1, <1>2, <1>3, <1>4, <1>5

\* The handlers that claim a number or a time.
LEMMA BookActs ==
  ASSUME IInv, NEW c \in Calls, NEW s \in Sessions, Book(c, s)
  PROVE  Acts(c)
<1>1. PICK q \in Cycles, k \in Slots :
        \E n \in FreeNumbers(q), entity \in BookableEntities(k, CoachOf[q]) :
          call' = [call EXCEPT ![c] =
            [todo |-> <<"overlap", "saveSlot", "insert">>, id |-> s,
             row |-> Booking(q, n, k, entity.time), old |-> NoSlot,
             slot |-> k, entity |-> [entity EXCEPT !.booked = TRUE]]]
  BY DEF Book
<1>2. PICK n \in FreeNumbers(q), entity \in BookableEntities(k, CoachOf[q]) :
        call' = [call EXCEPT ![c] =
          [todo |-> <<"overlap", "saveSlot", "insert">>, id |-> s,
           row |-> Booking(q, n, k, entity.time), old |-> NoSlot,
           slot |-> k, entity |-> [entity EXCEPT !.booked = TRUE]]]
  BY <1>1
<1> DEFINE row == Booking(q, n, k, entity.time)
<1>3. entity.time \in Times /\ n \in 1..SessionsPerCycle
  BY BookableOK, SessionsAssumption DEF FreeNumbers
<1>4. Follows(Vacant, row) /\ row.cycle = q /\ row.number = n /\ ~Committed(row)
  BY <1>3, BookingGoes
<1>5. sessions[s] = Vacant /\ Free(c) /\ sessions' = sessions
  BY DEF Book, NewSession, db
<1>6. OthersStay(c) /\ call'[c].id = s /\ call'[c].row = row
  BY <1>2 DEF OthersStay, IInv, TypeOK
<1> HIDE DEF row
<1>7. Begins(s, row)
  BY <1>4, <1>5 DEF Begins
<1> QED BY <1>5, <1>6, <1>7 DEF Acts, TakesUp

LEMMA ConfirmActs ==
  ASSUME IInv, NEW c \in Calls, NEW s \in Sessions, Confirm(c, s)
  PROVE  Acts(c)
<1> DEFINE row == Confirmed(sessions[s])
<1>1. sessions[s].status = "pending_coach_approval"
  BY DEF Confirm, AwaitsCoach
<1>2. Good(sessions[s])
  BY <1>1, Booked
<1>3. /\ Follows(sessions[s], row) /\ Keeps(sessions[s], row)
      /\ row.at = sessions[s].at /\ (Active(row) => Active(sessions[s]))
  BY <1>1, <1>2, AnswerGoes
<1>4. ~Clash(s, sessions[s].cycle, sessions[s].at, NotHolding)
  BY DEF Confirm
<1>5. OthersStay(c) /\ call'[c].id = s /\ call'[c].row = row
  BY StartTakes DEF Confirm
<1> HIDE DEF row
<1>6. Begins(s, row)
  BY <1>3, <1>4 DEF Begins, Keeps
<1> QED BY <1>5, <1>6 DEF Acts, TakesUp, Confirm, db

LEMMA ProposeActs ==
  ASSUME IInv, NEW c \in Calls, NEW s \in Sessions, Propose(c, s)
  PROVE  Acts(c)
<1>1. PICK t \in Times :
        CanPropose(sessions[s], t) /\ Start(c, s, Proposed(sessions[s], t), <<"save">>)
  BY DEF Propose
<1> DEFINE row == Proposed(sessions[s], t)
<1>2. Good(sessions[s])
  BY <1>1, Booked DEF CanPropose, Proposable
<1>3. /\ Follows(sessions[s], row) /\ Keeps(sessions[s], row) /\ row.at = sessions[s].at
      /\ Active(row) => Active(sessions[s]) \/ sessions[s].status \in Released
      /\ Committed(row) => Committed(sessions[s])
  BY <1>1, <1>2, ProposedGoes
<1>4. sessions[s].status \in Released =>
        sessions[s].number \in FreeNumbers(sessions[s].cycle)
  BY DEF Propose, StillFree
<1>5. OthersStay(c) /\ call'[c].id = s /\ call'[c].row = row
  BY <1>1, StartTakes
<1> HIDE DEF row
<1>6. Begins(s, row)
  BY <1>3, <1>4 DEF Begins, Keeps
<1> QED BY <1>5, <1>6 DEF Acts, TakesUp, Propose, db

LEMMA AcceptActs ==
  ASSUME IInv, NEW c \in Calls, NEW s \in Sessions, Accept(c, s)
  PROVE  Acts(c)
<1> DEFINE old == sessions[s]
<1>1. PICK k \in Slots :
        call' = [call EXCEPT ![c] =
          [todo |-> Reschedule(old), id |-> s, row |-> Accepted(old, k),
           old |-> old.slot, slot |-> k,
           entity |-> [FreshSlot(CoachOf[old.cycle], old.proposed) EXCEPT !.booked = TRUE]]]
  BY DEF Accept
<1> DEFINE row == Accepted(old, k)
<1>2. HasProposal(old) /\ ~Clash(s, old.cycle, old.proposed, NotHolding)
  BY DEF Accept
<1>3. Good(old)
  BY <1>2, Booked DEF HasProposal
<1>4. /\ Follows(old, row) /\ Keeps(old, row) /\ row.at = old.proposed
      /\ Active(row) => Active(old)
  BY <1>2, <1>3, AcceptedGoes
<1>5. OthersStay(c) /\ call'[c].id = s /\ call'[c].row = row
  BY <1>1 DEF OthersStay, IInv, TypeOK
<1> HIDE DEF row
<1>6. Begins(s, row)
  BY <1>2, <1>4 DEF Begins, Keeps
<1> QED BY <1>5, <1>6 DEF Acts, TakesUp, Accept, db

LEMMA SlotsAct ==
  ASSUME IInv, NEW c \in Calls, NEW k \in Slots, OnSlot(c, k)
  PROVE  Acts(c)
<1>1. PICK entity, todo : StartSlot(c, k, entity, todo)
  BY DEF OnSlot, AddSlot, SwitchSlot, SyncWithOutlook, RemoveSlot
<1> DEFINE new == [Idle EXCEPT !.todo = todo, !.slot = k, !.entity = entity]
<1>2. new.id = NoSession
  BY DEF Idle
<1>3. call' = [call EXCEPT ![c] = new]
  BY <1>1 DEF StartSlot
<1> HIDE DEF new
<1>4. OthersStay(c) /\ call'[c].id \notin Sessions
  BY <1>2, <1>3, SessionsAssumption DEF OthersStay, IInv, TypeOK
<1>5. Free(c) /\ sessions' = sessions
  BY DEF OnSlot, AddSlot, SwitchSlot, SyncWithOutlook, RemoveSlot, db
<1> QED BY <1>4, <1>5 DEF Acts, TakesUp

-----------------------------------------------------------------------------
(* The awaits *)

LEMMA AlikeSame ==
  ASSUME NEW row
  PROVE  Alike(row, row)
  BY DEF Alike

\* A handler that returns, or goes on with its row as it is.
LEMMA PassesOn ==
  ASSUME IInv, NEW c \in Calls, Return(c) \/ Advance(c)
  PROVE  /\ OthersStay(c)
         /\ ~Free(c) => call'[c] # call[c]
         /\ call'[c].id \in Sessions =>
              /\ call'[c].id = call[c].id /\ call'[c].row = call[c].row
              /\ Alike(call[c].row, call'[c].row)
<1>1. CASE Return(c)
  BY <1>1, ReturnTakes, IdleHolds DEF Free
<1>2. CASE Advance(c)
  <2>1. call[c].todo \in Seq(Tasks)
    BY DEF IInv, TypeOK, CallState
  <2>2. ~Free(c) => Tail(call[c].todo) # call[c].todo
    <3>1. ~Free(c) => Len(Tail(call[c].todo)) # Len(call[c].todo)
      BY <2>1 DEF Free
    <3> QED BY <3>1
  <2> QED BY <1>2, <2>2, AdvanceTakes, IdleHolds, AlikeSame DEF Free
<1> QED BY <1>1, <1>2

LEMMA ContinueActs ==
  ASSUME IInv, NEW c \in Calls, Continue(c)
  PROVE  Acts(c)
<1>1. ~Free(c)
  BY DEF Continue, CheckOverlap, SaveSlot, Insert, Save, Move, Release, Unlink, Sync,
         DeleteSlot, Doing, Free
<1>2. ASSUME sessions' = sessions, Return(c) \/ Advance(c) PROVE Acts(c)
  BY <1>1, <1>2, PassesOn DEF Acts, GoesOn
<1>3. ASSUME sessions' = [sessions EXCEPT ![call[c].id] = call[c].row],
             Return(c) \/ Advance(c)
      PROVE  Acts(c)
  BY <1>1, <1>3, PassesOn DEF Acts, Stores
<1>4. CASE CheckOverlap(c) \/ SaveSlot(c) \/ Release(c) \/ DeleteSlot(c)
  <2>1. sessions' = sessions /\ (Return(c) \/ Advance(c))
    BY <1>4 DEF CheckOverlap, SaveSlot, Release, DeleteSlot, db
  <2> QED BY <1>2, <2>1
<1>5. CASE Insert(c) \/ Save(c) \/ Move(c)
  <2>1. /\ \/ sessions' = sessions
           \/ sessions' = [sessions EXCEPT ![call[c].id] = call[c].row]
        /\ Return(c) \/ Advance(c)
    BY <1>5 DEF Insert, Save, Move
  <2> QED BY <1>2, <1>3, <2>1
<1>6. ASSUME NEW event, sessions' = sessions,
             Resume(c, [call[c] EXCEPT !.row.event = event]), event \in Times \cup {NoTime}
      PROVE  Acts(c)
  <2> DEFINE new == [call[c] EXCEPT !.row.event = event]
  <2>1. call[c] \in CallState /\ call[c].row \in Row
    BY DEF IInv, TypeOK, CallState
  <2>2. /\ new \in CallState /\ new.id = call[c].id
        /\ Alike(call[c].row, new.row)
    BY <1>6, <2>1 DEF CallState, Row, Alike
  <2>3. Resume(c, new)
    BY <1>6
  <2> HIDE DEF new
  <2> QED BY <1>1, <1>6, <2>2, <2>3, ResumeTakes, IdleHolds DEF Acts, GoesOn
<1>7. CASE Unlink(c) \/ Sync(c)
  <2>1. sessions' = sessions /\ call[c].row.at \in Times \cup {NoTime}
    BY <1>7 DEF Unlink, Sync, IInv, TypeOK, CallState, Row
  <2>2. \/ Return(c) \/ Advance(c)
        \/ Resume(c, [call[c] EXCEPT !.row.event = NoTime])
        \/ Resume(c, [call[c] EXCEPT !.row.event = call[c].row.at])
    BY <1>7 DEF Unlink, Sync
  <2> QED BY <1>2, <1>6, <2>1, <2>2
<1> QED BY <1>4, <1>5, <1>7 DEF Continue

LEMMA EveryStep ==
  ASSUME IInv, [Next]_vars
  PROVE  Rests \/ \E c \in Calls : Acts(c)
<1>1. ASSUME NEW c \in Calls, NEW s \in Sessions, OnSession(c, s) PROVE Acts(c)
  BY <1>1, BookActs, ConfirmActs, ProposeActs, AcceptActs, PlainHandlers DEF OnSession
<1>2. CASE Restart
  BY <1>2 DEF Restart, Rests, db
<1>3. CASE UNCHANGED vars
  BY <1>3 DEF Rests, vars
<1> QED BY <1>1, <1>2, <1>3, SlotsAct, ContinueActs DEF Next

-----------------------------------------------------------------------------
(* The lifecycle, while nobody disturbs a handler's row *)

\* The row a handler has in hand is one step of the lifecycle ahead of the stored one.
RowsFollow ==
  \A c \in Calls : call[c].id \in Sessions => Follows(sessions[call[c].id], call[c].row)

RowsStay ==
  \A c \in Calls :
    call[c].id \in Sessions /\ call'[c] = call[c] =>
      sessions'[call[c].id] = sessions[call[c].id]

\* While a handler has a session in hand, nobody else changes it.
RowsUndisturbed == [][RowsStay]_vars

LEMMA FollowsItself ==
  ASSUME NEW row
  PROVE  Follows(row, row)
  BY DEF Follows, SameView

LEMMA RowsFollowStays ==
  ASSUME IInv, RowsFollow, RowsStay, NoReplacementRefused, [Next]_vars
  PROVE  RowsFollow'
<1>1. sessions \in [Sessions -> Row]
  BY DEF IInv, TypeOK
<1>2. CASE Rests
  BY <1>2, IdleHolds DEF Rests, RowsFollow
<1>3. ASSUME NEW c \in Calls, Acts(c) PROVE RowsFollow'
  <2>1. ASSUME NEW d \in Calls, d # c, call'[d].id \in Sessions
        PROVE  Follows(sessions'[call'[d].id], call'[d].row)
    <3>1. call'[d] = call[d]
      BY <1>3, <2>1 DEF Acts, OthersStay
    <3> QED BY <2>1, <3>1 DEF RowsFollow, RowsStay
  <2>2. ASSUME call'[c].id \in Sessions
        PROVE  Follows(sessions'[call'[c].id], call'[c].row)
    <3>1. CASE TakesUp(c)
      BY <2>2, <3>1, NoReplacementRefused DEF TakesUp, Begins
    <3>2. CASE GoesOn(c)
      BY <2>2, <3>2, FollowsAlike DEF GoesOn, RowsFollow
    <3>3. CASE Stores(c)
      BY <1>1, <2>2, <3>3, FollowsItself DEF Stores
    <3> QED BY <1>3, <3>1, <3>2, <3>3 DEF Acts
  <2> QED BY <2>1, <2>2 DEF RowsFollow
<1> QED BY <1>2, <1>3, EveryStep

LEMMA SameAt ==
  ASSUME NEW S, NEW T, NEW f \in [S -> T], NEW s \in S
  PROVE  [f EXCEPT ![s] = f[s]] = f
  OBVIOUS

LEMMA LifecycleSteps ==
  ASSUME sessions \in [Sessions -> Row], NEW s \in Sessions, NEW new \in Row,
         sessions' = [sessions EXCEPT ![s] = new], Follows(sessions[s], new)
  PROVE  [Lifecycle!Next]_(Lifecycle!lifecycle)
<1> DEFINE old == sessions[s]
           stage == [o \in Sessions |-> Stage(sessions[o])]
           time == [o \in Sessions |-> sessions[o].at]
           cancelAsk == [o \in Sessions |->
                           IF Standing(sessions[o]) = "pending_cancellation"
                           THEN sessions[o].cancelBy ELSE "none"]
           moveAsk == [o \in Sessions |-> sessions[o].proposed]
<1>1. /\ stage' = [stage EXCEPT ![s] = Stage(new)]
      /\ time' = [time EXCEPT ![s] = new.at]
      /\ cancelAsk' = [cancelAsk EXCEPT ![s] = CancelAsk(new)]
      /\ moveAsk' = [moveAsk EXCEPT ![s] = new.proposed]
  BY DEF CancelAsk
<1>2. /\ stage[s] = Stage(old) /\ time[s] = old.at /\ cancelAsk[s] = CancelAsk(old)
      /\ moveAsk[s] = old.proposed
  BY DEF CancelAsk
<1>3. /\ stage \in [Sessions -> {Stage(sessions[o]) : o \in Sessions}]
      /\ time \in [Sessions -> {sessions[o].at : o \in Sessions}]
      /\ cancelAsk \in [Sessions -> {CancelAsk(sessions[o]) : o \in Sessions}]
      /\ moveAsk \in [Sessions -> {sessions[o].proposed : o \in Sessions}]
  BY DEF CancelAsk
<1> USE DEF Lifecycle!Next, Lifecycle!Step
<1> HIDE DEF stage, time, cancelAsk, moveAsk, old
<1>4. /\ Stage(new) = Stage(old) => stage' = stage
      /\ new.at = old.at => time' = time
      /\ CancelAsk(new) = CancelAsk(old) => cancelAsk' = cancelAsk
      /\ new.proposed = old.proposed => moveAsk' = moveAsk
  BY <1>1, <1>2, <1>3, SameAt
<1>5. CASE SameView(old, new)
  BY <1>4, <1>5 DEF SameView, Lifecycle!lifecycle, stage, time, cancelAsk, moveAsk
<1>6. CASE Asks(old, new)
  <2>1. CASE /\ Stage(old) = "none" /\ Stage(new) = "requested" /\ new.at \in Times
             /\ CancelAsk(new) = CancelAsk(old) /\ new.proposed = old.proposed
    <3>1. Lifecycle!Request(s)
      BY <1>1, <1>2, <1>4, <2>1 DEF Lifecycle!Request, stage, time, cancelAsk, moveAsk
    <3> QED BY <3>1
  <2>2. CASE /\ NoneAsked(old) /\ Stage(old) = "agreed" /\ Stage(new) = "agreed"
             /\ new.at = old.at /\ CancelAsk(new) \in Parties /\ new.proposed = old.proposed
    <3>1. Lifecycle!AskCancel(s)
      BY <1>1, <1>2, <1>4, <2>2
         DEF NoneAsked, Lifecycle!AskCancel, Lifecycle!NoQuestion, stage, time, cancelAsk, moveAsk
    <3> QED BY <3>1
  <2>3. CASE /\ Stage(old) \in {"requested", "agreed", "missed"} /\ Stage(new) = Stage(old)
             /\ new.at = old.at /\ CancelAsk(new) = CancelAsk(old)
             /\ new.proposed \in Times \ {old.at}
    <3>1. Lifecycle!AskMove(s)
      BY <1>1, <1>2, <1>4, <2>3 DEF Lifecycle!AskMove, stage, time, cancelAsk, moveAsk
    <3> QED BY <3>1
  <2> QED BY <1>6, <2>1, <2>2, <2>3 DEF Asks
<1>7. CASE Proceeds(old, new)
  <2>1. /\ cancelAsk' = cancelAsk /\ moveAsk' = moveAsk /\ time' = time
        /\ cancelAsk[s] = "none" /\ moveAsk[s] = NoTime
    BY <1>2, <1>4, <1>7 DEF Proceeds, NoneAsked
  <2>2. \/ stage[s] = "requested" /\ Stage(new) \in {"agreed", "off"}
        \/ stage[s] = "agreed" /\ Stage(new) \in {"held", "missed"}
    BY <1>2, <1>7 DEF Proceeds
  <2>3. Lifecycle!Becomes(s, Stage(new))
    BY <1>1, <2>1 DEF Lifecycle!Becomes, stage, time
  <2>4. Lifecycle!NoQuestion(s)
    BY <2>1 DEF Lifecycle!NoQuestion, cancelAsk, moveAsk
  <2>5. Lifecycle!Proceed(s)
    BY <2>1, <2>2, <2>3, <2>4 DEF Lifecycle!Proceed, stage, cancelAsk, moveAsk
  <2> QED BY <2>5
<1>8. CASE Answers(old, new)
  <2>1. new.at = old.at => Lifecycle!Becomes(s, Stage(new))
    BY <1>1, <1>4 DEF Lifecycle!Becomes, stage, time
  <2>2. NoneAsked(new) => Lifecycle!ClearQuestions(s)
    BY <1>1 DEF NoneAsked, Lifecycle!ClearQuestions, cancelAsk, moveAsk
  <2>3. CASE /\ CancelAsk(old) # "none" /\ old.proposed = NoTime
             /\ Stage(new) \in {"off", "agreed"} /\ new.at = old.at /\ NoneAsked(new)
    <3>1. Lifecycle!AnswerCancel(s)
      BY <1>2, <2>1, <2>2, <2>3 DEF Lifecycle!AnswerCancel, cancelAsk, moveAsk
    <3> QED BY <3>1
  <2>4. CASE /\ old.proposed # NoTime
             /\ Stage(new) = "agreed" /\ new.at = old.proposed /\ NoneAsked(new)
    <3>1. Lifecycle!AgreeMove(s)
      BY <1>1, <1>2, <2>2, <2>4 DEF Lifecycle!AgreeMove, stage, time, moveAsk
    <3> QED BY <3>1
  <2>5. CASE /\ old.proposed # NoTime /\ new.at = old.at /\ NoneAsked(new)
             /\ Stage(new) = IF Stage(old) = "requested" \/ CancelAsk(old) # "none"
                             THEN "off" ELSE Stage(old)
    <3>1. moveAsk[s] # NoTime /\ Lifecycle!ClearQuestions(s)
      BY <1>2, <2>2, <2>5
    <3>2. CASE Stage(old) = "requested" \/ CancelAsk(old) # "none"
      <4>1. Lifecycle!RefuseMove(s)
        BY <1>2, <2>1, <2>5, <3>1, <3>2 DEF Lifecycle!RefuseMove, stage, cancelAsk, moveAsk
      <4> QED BY <4>1
    <3>3. CASE ~(Stage(old) = "requested" \/ CancelAsk(old) # "none")
      <4>1. stage' = stage /\ time' = time
        BY <1>4, <2>5, <3>3
      <4>2. Lifecycle!RefuseMove(s)
        BY <1>2, <2>5, <3>1, <3>3, <4>1
           DEF Lifecycle!RefuseMove, stage, time, cancelAsk, moveAsk
      <4> QED BY <4>2
    <3> QED BY <3>2, <3>3
  <2>6. CASE /\ old.proposed # NoTime /\ new.at = old.at /\ new.proposed = NoTime
             /\ Stage(new) = Stage(old) /\ CancelAsk(new) = CancelAsk(old)
    <3>1. Lifecycle!WithdrawMove(s)
      BY <1>1, <1>2, <1>4, <2>6
         DEF Lifecycle!WithdrawMove, stage, time, cancelAsk, moveAsk
    <3> QED BY <3>1
  <2> QED BY <1>8, <2>3, <2>4, <2>5, <2>6 DEF Answers
<1> QED BY <1>5, <1>6, <1>7, <1>8 DEF Follows, old

LEMMA LifecycleStarts == Init => Lifecycle!Init
<1> SUFFICES ASSUME Init PROVE Lifecycle!Init
  OBVIOUS
<1>1. Standing(Vacant) = "none" /\ Vacant.at = NoTime /\ Vacant.proposed = NoTime
  BY DEF Vacant, Standing, HasProposal
<1>2. Stage(Vacant) = "none"
  BY <1>1 DEF Stage
<1> QED BY <1>1, <1>2 DEF Init, Lifecycle!Init

LEMMA StepLifecycle ==
  ASSUME IInv, RowsFollow, NoReplacementRefused, [Next]_vars
  PROVE  [Lifecycle!Next]_(Lifecycle!lifecycle)
<1>1. sessions \in [Sessions -> Row] /\ call \in [Calls -> CallState]
  BY DEF IInv, TypeOK
<1>2. CASE sessions' = sessions
  BY <1>2 DEF Lifecycle!lifecycle
<1>3. ASSUME NEW c \in Calls, sessions' = [sessions EXCEPT ![call[c].id] = call[c].row]
      PROVE  [Lifecycle!Next]_(Lifecycle!lifecycle)
  <2>1. CASE call[c].id \notin Sessions
    <3>1. sessions' = sessions
      BY <1>1, <1>3, <2>1
    <3> QED BY <1>2, <3>1
  <2>2. CASE call[c].id \in Sessions
    <3>1. call[c].row \in Row /\ Follows(sessions[call[c].id], call[c].row)
      BY <1>1, <2>2 DEF RowsFollow, CallState
    <3> QED BY <1>1, <1>3, <2>2, <3>1, LifecycleSteps
  <2> QED BY <2>1, <2>2
<1> QED BY <1>2, <1>3, EveryStep DEF Rests, Acts, TakesUp, GoesOn, Stores

LEMMA RowsFollowStarts == Init => RowsFollow
  BY IdleHolds DEF Init, RowsFollow

\* Every step of every handler is a step of the session's abstract lifecycle, for any
\* number of handlers at work, as long as no two of them have one session in hand and
\* no replacement for a no-show is refused.
THEOREM UndisturbedSessionLifecycle ==
  ASSUME NoReplacementRefused
  PROVE  Spec /\ RowsUndisturbed => ImplementsLifecycle
<1>1. IInv /\ RowsFollow /\ [Next]_vars /\ [RowsStay]_vars => RowsFollow'
  <2>1. UNCHANGED vars => RowsStay
    BY DEF vars, RowsStay
  <2> QED BY <2>1, RowsFollowStays
<1>2. IInv /\ RowsFollow /\ [Next]_vars => [Lifecycle!Next]_(Lifecycle!lifecycle)
  BY StepLifecycle
<1> QED BY <1>1, <1>2, RowsFollowStarts, LifecycleStarts, SessionsInductive, PTL
        DEF Spec, RowsUndisturbed, ImplementsLifecycle, Lifecycle!Spec

-----------------------------------------------------------------------------
(* The agenda, while nobody changes it under a handler *)

\* The row claims no number of its cycle, and no time of its people's, that another
\* session of the table has.
Numbered(table, s, row) ==
  \A o \in Sessions \ {s} :
    /\ Active(row) /\ Active(table[o])
    /\ table[o].cycle = row.cycle
    => table[o].number # row.number

Apart(table, s, row) ==
  \A o \in Sessions \ {s} :
    /\ Committed(row) /\ Committed(table[o])
    /\ SameParty(row.cycle, table[o].cycle)
    => ~Overlap(table[o].at, row.at)

Fits(table, s, row) ==
  /\ Numbered(table, s, row)
  /\ NoReplacementRefused => Apart(table, s, row)

\* The inductive invariant: every stored row fits, and so does every row that a
\* handler has in hand.
Agenda ==
  /\ \A s \in Sessions : Fits(sessions, s, sessions[s])
  /\ \A c \in Calls : call[c].id \in Sessions => Fits(sessions, call[c].id, call[c].row)

LEMMA Mutual ==
  ASSUME NEW q, NEW p, NEW t, NEW u
  PROVE  /\ SameParty(q, p) <=> SameParty(p, q)
         /\ Overlap(t, u) <=> Overlap(u, t)
  BY DEF SameParty, Overlap

\* Of the statuses that the query passes over, none commits anybody.
LEMMA CommittedHolds ==
  ASSUME NEW row, Committed(row)
  PROVE  row.status \notin NotHolding \cup {"none"}
  BY DEF Committed, Standing, HasProposal, NotHolding, Released

LEMMA BegunFits ==
  ASSUME \A o \in Sessions : Fits(sessions, o, sessions[o]),
         NEW s \in Sessions, NEW row, Begins(s, row)
  PROVE  Fits(sessions, s, row)
<1>1. Numbered(sessions, s, row)
  <2>1. CASE row.number \in FreeNumbers(row.cycle)
    BY <2>1 DEF Numbered, FreeNumbers, ActiveOf
  <2>2. CASE Active(sessions[s]) /\ Keeps(sessions[s], row)
    BY <2>2 DEF Numbered, Keeps, Fits
  <2>3. CASE ~Active(row)
    BY <2>3 DEF Numbered
  <2> QED BY <2>1, <2>2, <2>3 DEF Begins
<1>2. ASSUME NoReplacementRefused PROVE Apart(sessions, s, row)
  <2>1. CASE ~Clash(s, row.cycle, row.at, NotHolding)
    BY <2>1, CommittedHolds DEF Apart, Clash
  <2>2. CASE /\ Committed(sessions[s]) /\ row.at = sessions[s].at
             /\ row.cycle = sessions[s].cycle
    BY <1>2, <2>2 DEF Apart, Fits
  <2>3. CASE ~Committed(row)
    BY <2>3 DEF Apart
  <2> QED BY <1>2, <2>1, <2>2, <2>3 DEF Begins
<1> QED BY <1>1, <1>2 DEF Fits

LEMMA AlikeFits ==
  ASSUME NEW table, NEW s, NEW old, NEW new, Alike(old, new), Fits(table, s, old)
  PROVE  Fits(table, s, new)
<1>1. (Active(new) <=> Active(old)) /\ (Committed(new) <=> Committed(old))
  BY AlikeLooks
<1> QED BY <1>1 DEF Fits, Numbered, Apart, Alike

\* A row that fits can be stored: it then fits, and the others still do.
LEMMA StoredFits ==
  ASSUME NEW table, NEW later, NEW s \in Sessions, NEW row,
         \A o \in Sessions : later[o] = IF o = s THEN row ELSE table[o],
         \A o \in Sessions : Fits(table, o, table[o]),
         Fits(table, s, row)
  PROVE  /\ Fits(later, s, row)
         /\ \A o \in Sessions : Fits(later, o, later[o])
<1>1. Numbered(later, s, row) /\ (NoReplacementRefused => Apart(later, s, row))
  BY DEF Fits, Numbered, Apart
<1>2. ASSUME NEW o \in Sessions, o # s PROVE Numbered(later, o, table[o])
  <2>1. Numbered(table, o, table[o]) /\ Numbered(table, s, row)
    BY DEF Fits
  <2> QED BY <1>2, <2>1 DEF Numbered
<1>3. ASSUME NEW o \in Sessions, o # s, NoReplacementRefused
      PROVE  Apart(later, o, table[o])
  <2>1. Apart(table, o, table[o]) /\ Apart(table, s, row)
    BY <1>3 DEF Fits
  <2> QED BY <1>3, <2>1, Mutual DEF Apart
<1> QED BY <1>1, <1>2, <1>3 DEF Fits

TableStays ==
  \A c \in Calls : call[c].id \in Sessions /\ call'[c] = call[c] => sessions' = sessions

\* While a handler has a session in hand, nobody else changes any.
AgendaUndisturbed == [][TableStays]_vars

LEMMA AgendaStarts == Init => Agenda
<1> SUFFICES ASSUME Init PROVE Agenda
  OBVIOUS
<1>1. \A s \in Sessions : sessions[s] = Vacant
  BY DEF Init
<1>2. ~Active(Vacant) /\ ~Committed(Vacant)
  BY DEF Active, Committed, Standing, HasProposal, Vacant
<1>3. \A c \in Calls : call[c].id \notin Sessions
  BY IdleHolds DEF Init
<1> QED BY <1>1, <1>2, <1>3 DEF Agenda, Fits, Numbered, Apart

LEMMA AgendaKept ==
  ASSUME IInv, Agenda, TableStays, [Next]_vars
  PROVE  Agenda'
<1>1. sessions \in [Sessions -> Row]
  BY DEF IInv, TypeOK
<1>2. CASE Rests
  BY <1>2, IdleHolds DEF Rests, Agenda
<1>3. ASSUME NEW c \in Calls, Acts(c) PROVE Agenda'
  <2>1. CASE sessions' = sessions
    <3>1. ASSUME NEW d \in Calls, call'[d].id \in Sessions
          PROVE  Fits(sessions, call'[d].id, call'[d].row)
      <4>1. CASE call'[d] = call[d]
        BY <3>1, <4>1 DEF Agenda
      <4>2. CASE d = c /\ TakesUp(c)
        BY <3>1, <4>2, BegunFits DEF TakesUp, Agenda
      <4>3. CASE d = c /\ GoesOn(c)
        BY <3>1, <4>3, AlikeFits DEF GoesOn, Agenda
      <4>4. CASE d = c /\ Stores(c)
        BY <3>1, <4>4 DEF Stores, Agenda
      <4> QED BY <1>3, <4>1, <4>2, <4>3, <4>4 DEF Acts, OthersStay
    <3> QED BY <2>1, <3>1 DEF Agenda
  <2>2. CASE sessions' # sessions
    <3>1. Stores(c) /\ OthersStay(c)
      BY <1>3, <2>2 DEF Acts, TakesUp, GoesOn
    <3> DEFINE s == call[c].id
               row == call[c].row
    <3>2. s \in Sessions
      BY <1>1, <2>2, <3>1 DEF Stores
    <3>3. \A o \in Sessions : sessions'[o] = IF o = s THEN row ELSE sessions[o]
      BY <1>1, <3>1 DEF Stores
    <3>4. Fits(sessions, s, row) /\ \A o \in Sessions : Fits(sessions, o, sessions[o])
      BY <3>2 DEF Agenda
    <3>5. ASSUME NEW d \in Calls, call'[d].id \in Sessions
          PROVE  d = c /\ call'[d].id = s /\ call'[d].row = row
      BY <2>2, <3>1, <3>5 DEF TableStays, OthersStay, Stores
    <3> HIDE DEF s, row
    <3>6. /\ Fits(sessions', s, row)
          /\ \A o \in Sessions : Fits(sessions', o, sessions'[o])
      BY <3>2, <3>3, <3>4, StoredFits
    <3> QED BY <3>5, <3>6 DEF Agenda
  <2> QED BY <2>1, <2>2
<1> QED BY <1>2, <1>3, EveryStep

LEMMA AgendaSays ==
  ASSUME Agenda
  PROVE  /\ OneActivePerNumber
         /\ NoReplacementRefused => NoDoubleBooking
<1>1. OneActivePerNumber
  BY DEF Agenda, Fits, Numbered, OneActivePerNumber
<1>2. ASSUME NoReplacementRefused PROVE NoDoubleBooking
  <2>1. \A s \in Sessions : Apart(sessions, s, sessions[s])
    BY <1>2 DEF Agenda, Fits
  <2> QED BY <2>1, Mutual DEF Apart, NoDoubleBooking
<1> QED BY <1>1, <1>2

LEMMA AgendaHolds == Spec /\ AgendaUndisturbed => []Agenda
<1>1. IInv /\ Agenda /\ [Next]_vars /\ [TableStays]_vars => Agenda'
  <2>1. UNCHANGED vars => TableStays
    BY DEF vars, TableStays
  <2> QED BY <2>1, AgendaKept
<1> QED BY <1>1, AgendaStarts, SessionsInductive, PTL DEF Spec, AgendaUndisturbed

\* No two live sessions of a cycle have one number, for any number of handlers at
\* work, as long as nobody changes the table while another has a session in hand:
\* the number is counted when the handler starts, and used when it saves.
THEOREM UndisturbedNumbers == Spec /\ AgendaUndisturbed => []OneActivePerNumber
  BY AgendaHolds, AgendaSays, PTL

\* Under the same condition nobody is committed to two sessions at one time, if no
\* replacement for a no-show is refused.
THEOREM UndisturbedAgenda ==
  ASSUME NoReplacementRefused
  PROVE  Spec /\ AgendaUndisturbed => []NoDoubleBooking
<1>1. Agenda => NoDoubleBooking
  BY AgendaSays
<1> QED BY <1>1, AgendaHolds, PTL

-----------------------------------------------------------------------------
(* One handler at a time, as in the runs *)

OneAtATime == \A c, d \in Calls : c = d

LEMMA AloneStays ==
  ASSUME OneAtATime, IInv, [Next]_vars
  PROVE  TableStays /\ RowsStay
<1>1. TableStays
  BY EveryStep DEF TableStays, OneAtATime, Rests, Acts, TakesUp, GoesOn, Stores
<1> QED BY <1>1 DEF TableStays, RowsStay

LEMMA AloneUndisturbed ==
  ASSUME OneAtATime
  PROVE  Spec => AgendaUndisturbed /\ RowsUndisturbed
<1>1. IInv /\ [Next]_vars => [TableStays]_vars /\ [RowsStay]_vars
  BY AloneStays
<1> QED BY <1>1, SessionsInductive, PTL DEF Spec, AgendaUndisturbed, RowsUndisturbed

\* One handler after the other keeps the numbers of every cycle distinct.
THEOREM SerialNumbers ==
  ASSUME OneAtATime
  PROVE  Spec => []OneActivePerNumber
  BY AloneUndisturbed, UndisturbedNumbers, PTL

\* And, where no replacement for a no-show is refused, books nobody twice,
THEOREM SerialAgenda ==
  ASSUME OneAtATime, NoReplacementRefused
  PROVE  Spec => []NoDoubleBooking
<1>1. Spec /\ AgendaUndisturbed => []NoDoubleBooking
  BY UndisturbedAgenda
<1> QED BY <1>1, AloneUndisturbed, PTL

\* and takes every session through its lifecycle.
THEOREM SerialSessionLifecycle ==
  ASSUME OneAtATime, NoReplacementRefused
  PROVE  Spec => ImplementsLifecycle
<1>1. Spec /\ RowsUndisturbed => ImplementsLifecycle
  BY UndisturbedSessionLifecycle
<1> QED BY <1>1, AloneUndisturbed, PTL

-----------------------------------------------------------------------------
CalendarAnswers == "graphFailure" \notin Ops /\ "restart" \notin Ops

-----------------------------------------------------------------------------
(* What is left to do, by the handlers that hold a session *)

ToBook == <<"overlap", "saveSlot", "insert">>
ToTake == <<"saveSlot", "insert">>
ToInsert == <<"insert">>
ToSave == <<"save">>
ToRelease == <<"release", "save">>
ToUnlink == <<"unlink", "release", "save">>
ToConfirm == <<"save", "sync", "save">>
ToSync == <<"sync", "save">>
ToFree == <<"release", "sync", "save">>
ToMove == <<"move", "release", "sync", "save">>
ToMoveFirst == <<"saveSlot", "move", "release", "sync", "save">>
ToDrop == <<"unlink", "save", "sync", "save">>
ToFreeLinked == <<"release", "unlink", "save", "sync", "save">>
ToMoveLinked == <<"move", "release", "unlink", "save", "sync", "save">>
ToMoveLinkedFirst == <<"saveSlot", "move", "release", "unlink", "save", "sync", "save">>

-----------------------------------------------------------------------------
(* The calendar, with one handler at a time *)

\* The events of session s are the one that the row refers to.
Refers(s, row) == \A t \in Times : <<s, t>> \in calendar <=> row.event = t

OnTime(row) == row.event \in {NoTime, row.at}

Agreed(s) == Refers(s, sessions[s]) /\ OnTime(sessions[s])

AllHoused ==
  \A s \in Sessions :
    sessions[s] # Vacant => sessions[s].slot \in Slots /\ Exists(sessions[s].slot)

\* The handler can fail: the stored session refers to the same event.
Kept(k) == sessions[k.id].event = k.row.event /\ OnTime(sessions[k.id])

\* The session is about to move to a slot that no session refers to.
Moves(k) == k.row.slot = k.slot /\ \A s \in Sessions : sessions[s].slot # k.slot

\* From the first change to the calendar up to the next save, that save succeeds.
Phase(k) ==
  \/ k.todo \in {ToBook, ToTake, ToInsert} /\ Kept(k) /\ OnTime(k.row)
  \/ /\ k.todo \in {ToRelease, ToSave} /\ OnTime(k.row)
     /\ Kept(k) \/ Storable(k.id, k.row)
  \/ k.todo = ToUnlink /\ Kept(k) /\ ~Active(k.row) /\ Exists(k.row.slot)
  \/ /\ k.todo = ToConfirm /\ k.row.event = NoTime
     /\ Kept(k) \/ Storable(k.id, k.row)
  \/ /\ k.todo \in {ToFree, ToSync} /\ k.row.event = NoTime
     /\ Kept(k) /\ Storable(k.id, k.row)
  \/ k.todo \in {ToMoveFirst, ToMove} /\ k.row.event = NoTime /\ Kept(k) /\ Moves(k)
  \/ k.todo \in {ToMoveLinkedFirst, ToMoveLinked} /\ Kept(k) /\ Moves(k)
  \/ k.todo \in {ToFreeLinked, ToDrop} /\ Storable(k.id, k.row)

InHand(c) ==
  LET k == call[c] IN
  /\ Doing(c, "overlap") \/ Doing(c, "saveSlot") =>
       k.slot \in Slots /\ k.entity.coach # NoCoach
  /\ Doing(c, "move") => k.slot \in Slots /\ Exists(k.slot)
  /\ k.id \in Sessions => k.row.slot \in Slots /\ Refers(k.id, k.row) /\ Phase(k)
  /\ k.id \notin Sessions => k.todo \in {<<>>, <<"saveSlot">>, <<"deleteSlot">>}

\* The inductive invariant: a session that no handler has in hand agrees with the
\* calendar, and a handler's row does where the stored one may not.
Linked ==
  /\ AllHoused
  /\ \A s \in Sessions : (\A c \in Calls : call[c].id # s) => Agreed(s)
  /\ \A c \in Calls : InHand(c)

LEMMA Lists ==
  /\ Head(ToBook) = "overlap" /\ Tail(ToBook) = ToTake /\ ToBook # <<>>
  /\ Head(ToTake) = "saveSlot" /\ Tail(ToTake) = ToInsert /\ ToTake # <<>>
  /\ Head(ToInsert) = "insert" /\ ToInsert # <<>>
  /\ Head(ToSave) = "save" /\ Tail(ToSave) = <<>> /\ ToSave # <<>>
  /\ Head(ToRelease) = "release" /\ Tail(ToRelease) = ToSave /\ ToRelease # <<>>
  /\ Head(ToUnlink) = "unlink" /\ Tail(ToUnlink) = ToRelease /\ ToUnlink # <<>>
  /\ Head(ToConfirm) = "save" /\ Tail(ToConfirm) = ToSync /\ ToConfirm # <<>>
  /\ Head(ToSync) = "sync" /\ Tail(ToSync) = ToSave /\ ToSync # <<>>
  /\ Head(ToFree) = "release" /\ Tail(ToFree) = ToSync /\ ToFree # <<>>
  /\ Head(ToMove) = "move" /\ Tail(ToMove) = ToFree /\ ToMove # <<>>
  /\ Head(ToMoveFirst) = "saveSlot" /\ Tail(ToMoveFirst) = ToMove /\ ToMoveFirst # <<>>
  /\ Head(ToDrop) = "unlink" /\ Tail(ToDrop) = ToConfirm /\ ToDrop # <<>>
  /\ Head(ToFreeLinked) = "release" /\ Tail(ToFreeLinked) = ToDrop
  /\ ToFreeLinked # <<>>
  /\ Head(ToMoveLinked) = "move" /\ Tail(ToMoveLinked) = ToFreeLinked
  /\ ToMoveLinked # <<>>
  /\ Head(ToMoveLinkedFirst) = "saveSlot" /\ Tail(ToMoveLinkedFirst) = ToMoveLinked
  /\ ToMoveLinkedFirst # <<>>
<1>1. /\ Head(ToBook) = "overlap" /\ Tail(ToBook) = ToTake /\ ToBook # <<>>
      /\ Head(ToTake) = "saveSlot" /\ Tail(ToTake) = ToInsert /\ ToTake # <<>>
      /\ Head(ToInsert) = "insert" /\ ToInsert # <<>>
  BY DEF ToBook, ToTake, ToInsert
<1>2. /\ Head(ToSave) = "save" /\ Tail(ToSave) = <<>> /\ ToSave # <<>>
      /\ Head(ToRelease) = "release" /\ Tail(ToRelease) = ToSave /\ ToRelease # <<>>
      /\ Head(ToUnlink) = "unlink" /\ Tail(ToUnlink) = ToRelease /\ ToUnlink # <<>>
  BY DEF ToSave, ToRelease, ToUnlink
<1>3. /\ Head(ToSync) = "sync" /\ Tail(ToSync) = ToSave /\ ToSync # <<>>
      /\ Head(ToConfirm) = "save" /\ Tail(ToConfirm) = ToSync /\ ToConfirm # <<>>
      /\ Head(ToFree) = "release" /\ Tail(ToFree) = ToSync /\ ToFree # <<>>
  BY DEF ToSave, ToSync, ToConfirm, ToFree
<1>4. /\ Head(ToMove) = "move" /\ Tail(ToMove) = ToFree /\ ToMove # <<>>
      /\ Head(ToMoveFirst) = "saveSlot" /\ Tail(ToMoveFirst) = ToMove
      /\ ToMoveFirst # <<>>
  BY DEF ToFree, ToMove, ToMoveFirst
<1>5. /\ Head(ToDrop) = "unlink" /\ Tail(ToDrop) = ToConfirm /\ ToDrop # <<>>
      /\ Head(ToFreeLinked) = "release" /\ Tail(ToFreeLinked) = ToDrop
      /\ ToFreeLinked # <<>>
  BY DEF ToConfirm, ToDrop, ToFreeLinked
<1>6. /\ Head(ToMoveLinked) = "move" /\ Tail(ToMoveLinked) = ToFreeLinked
      /\ ToMoveLinked # <<>>
      /\ Head(ToMoveLinkedFirst) = "saveSlot" /\ Tail(ToMoveLinkedFirst) = ToMoveLinked
      /\ ToMoveLinkedFirst # <<>>
  BY DEF ToFreeLinked, ToMoveLinked, ToMoveLinkedFirst
<1> QED BY <1>1, <1>2, <1>3, <1>4, <1>5, <1>6

\* Where a handler is, by what it does next.
LEMMA AtTask ==
  ASSUME Linked, NEW c \in Calls
  PROVE  LET todo == call[c].todo
             held == call[c].id \in Sessions IN
         /\ Doing(c, "overlap") => held /\ todo = ToBook
         /\ Doing(c, "insert") => held /\ todo = ToInsert
         /\ Doing(c, "save") => held /\ todo \in {ToSave, ToConfirm}
         /\ Doing(c, "release") => held /\ todo \in {ToRelease, ToFree, ToFreeLinked}
         /\ Doing(c, "unlink") => held /\ todo \in {ToUnlink, ToDrop}
         /\ Doing(c, "sync") => held /\ todo = ToSync
         /\ Doing(c, "move") => held /\ todo \in {ToMove, ToMoveLinked}
         /\ Doing(c, "saveSlot") =>
              \/ ~held /\ todo = <<"saveSlot">>
              \/ held /\ todo \in {ToTake, ToMoveFirst, ToMoveLinkedFirst}
         /\ Doing(c, "deleteSlot") => ~held
         /\ Free(c) => ~held
<1>1. InHand(c)
  BY DEF Linked
<1>2. CASE call[c].id \in Sessions
  <2>1. Phase(call[c])
    BY <1>1, <1>2 DEF InHand
  <2>2. call[c].todo \in {ToBook, ToTake, ToInsert, ToSave, ToRelease, ToUnlink, ToConfirm,
                          ToSync, ToFree, ToMove, ToMoveFirst, ToDrop, ToFreeLinked,
                          ToMoveLinked, ToMoveLinkedFirst}
    BY <2>1 DEF Phase
  <2> QED BY <1>2, <2>2, Lists DEF Doing, Free
<1>3. CASE call[c].id \notin Sessions
  <2>1. call[c].todo \in {<<>>, <<"saveSlot">>, <<"deleteSlot">>}
    BY <1>1, <1>3 DEF InHand
  <2>2. Head(<<"saveSlot">>) = "saveSlot" /\ Head(<<"deleteSlot">>) = "deleteSlot"
    OBVIOUS
  <2> QED BY <1>3, <2>1, <2>2 DEF Doing
<1> QED BY <1>2, <1>3

\* The others agree with the calendar, now and after a step.
LEMMA LinkedNow ==
  ASSUME OneAtATime, Linked, NEW c \in Calls
  PROVE  \A s \in Sessions : s # call[c].id => Agreed(s)
  BY DEF OneAtATime, Linked

LEMMA LinkedNext ==
  ASSUME OneAtATime, NEW c \in Calls, AllHoused', InHand(c)',
         \A s \in Sessions : s # call'[c].id => Agreed(s)'
  PROVE  Linked'
<1>1. \A d \in Calls : InHand(d)'
  BY DEF OneAtATime
<1>2. \A s \in Sessions : (\A d \in Calls : call'[d].id # s) => Agreed(s)'
  OBVIOUS
<1> QED BY <1>1, <1>2 DEF Linked

-----------------------------------------------------------------------------
(* The awaits *)

LEMMA ReturnLinked ==
  ASSUME OneAtATime, IInv, NEW c \in Calls, Return(c), AllHoused',
         \A s \in Sessions : Agreed(s)'
  PROVE  Linked'
<1>1. call'[c].todo = <<>> /\ call'[c].id \notin Sessions
  BY ReturnTakes, IdleHolds
<1>2. InHand(c)'
  BY <1>1 DEF InHand, Doing
<1> QED BY <1>2, LinkedNext

\* A handler that fails leaves what it found.
LEMMA KeptAgrees ==
  ASSUME OneAtATime, Linked, NEW c \in Calls,
         call[c].id \in Sessions => Kept(call[c])
  PROVE  \A s \in Sessions : Agreed(s)
<1>1. call[c].id \in Sessions => Refers(call[c].id, call[c].row)
  BY DEF Linked, InHand
<1>2. call[c].id \in Sessions => Agreed(call[c].id)
  BY <1>1 DEF Kept, Refers, Agreed
<1> QED BY <1>2, LinkedNow

LEMMA SameTables ==
  ASSUME Linked, sessions' = sessions, slots' = slots
  PROVE  AllHoused'
  BY DEF Linked, AllHoused, Exists

LEMMA SameAgreed ==
  ASSUME NEW s, Agreed(s), sessions'[s] = sessions[s],
         \A t \in Times : <<s, t>> \in calendar' <=> <<s, t>> \in calendar
  PROVE  Agreed(s)'
  BY DEF Agreed, Refers

LEMMA StoredAgrees ==
  ASSUME NEW s, NEW row, Refers(s, row), OnTime(row), sessions'[s] = row,
         calendar' = calendar
  PROVE  Agreed(s)'
  BY DEF Agreed, Refers, OnTime

LEMMA FailsLinked ==
  ASSUME OneAtATime, IInv, Linked, NEW c \in Calls, Return(c),
         call[c].id \in Sessions => Kept(call[c]),
         AllHoused', UNCHANGED <<sessions, calendar>>
  PROVE  Linked'
<1>1. \A s \in Sessions : Agreed(s)'
  BY KeptAgrees, SameAgreed
<1> QED BY <1>1, ReturnLinked

LEMMA CheckOverlapLinked ==
  ASSUME OneAtATime, IInv, Linked, NEW c \in Calls, CheckOverlap(c)
  PROVE  Linked'
<1> DEFINE k == call[c]
<1>1. k.id \in Sessions /\ k.todo = ToBook /\ InHand(c)
  BY AtTask DEF CheckOverlap, Linked
<1>2. Kept(k) /\ OnTime(k.row) /\ Refers(k.id, k.row) /\ k.row.slot \in Slots
  BY <1>1, Lists DEF InHand, Phase
<1>3. sessions' = sessions /\ slots' = slots /\ calendar' = calendar
  BY DEF CheckOverlap, db
<1>4. AllHoused'
  BY <1>3, SameTables
<1>5. CASE Return(c)
  BY <1>2, <1>3, <1>4, <1>5, FailsLinked
<1>6. CASE Advance(c)
  <2>1. /\ call'[c].todo = ToTake /\ call'[c].id = k.id /\ call'[c].row = k.row
        /\ call'[c].slot = k.slot /\ call'[c].entity = k.entity
    BY <1>1, <1>6, AdvanceTakes, Lists
  <2>2. Phase(call[c])'
    BY <1>2, <1>3, <2>1 DEF Phase, Kept
  <2>3. k.slot \in Slots /\ k.entity.coach # NoCoach
    BY <1>1, Lists DEF InHand, CheckOverlap
  <2>4. InHand(c)'
    BY <1>1, <1>2, <1>3, <2>1, <2>2, <2>3, Lists DEF InHand, Refers, Doing
  <2>5. \A s \in Sessions : s # call'[c].id => Agreed(s)'
    BY <1>3, <2>1, LinkedNow, SameAgreed
  <2> QED BY <1>4, <2>4, <2>5, LinkedNext
<1> QED BY <1>5, <1>6 DEF CheckOverlap

\* A slot is written that still has a coach.
LEMMA SaveSlotLinked ==
  ASSUME OneAtATime, IInv, Linked, NEW c \in Calls, SaveSlot(c)
  PROVE  Linked'
<1> DEFINE k == call[c]
<1>1. /\ k.slot \in Slots /\ k.entity.coach # NoCoach /\ InHand(c)
      /\ sessions' = sessions /\ calendar' = calendar
      /\ slots' = [slots EXCEPT ![k.slot] = k.entity]
  BY DEF SaveSlot, Linked, InHand
<1>2. \A j \in Slots : Exists(j) => Exists(j)'
  BY <1>1 DEF Exists, IInv, TypeOK
<1>3. slots'[k.slot].coach # NoCoach
  BY <1>1 DEF IInv, TypeOK
<1>4. AllHoused'
  BY <1>1, <1>2 DEF Linked, AllHoused
<1>5. CASE k.id \notin Sessions
  <2>1. Return(c)
    <3>1. Tail(<<"saveSlot">>) = <<>>
      OBVIOUS
    <3>2. k.todo = <<"saveSlot">>
      BY <1>5, AtTask DEF SaveSlot
    <3> QED BY <3>1, <3>2 DEF SaveSlot, Advance, Resume, Return
  <2> QED BY <1>1, <1>4, <1>5, <2>1, FailsLinked
<1>6. CASE k.id \in Sessions
  <2>1. /\ k.todo \in {ToTake, ToMoveFirst, ToMoveLinkedFirst}
        /\ Phase(k) /\ Refers(k.id, k.row) /\ k.row.slot \in Slots
    BY <1>1, <1>6, AtTask DEF SaveSlot, InHand
  <2>2. /\ call'[c].todo = Tail(k.todo) /\ call'[c].id = k.id /\ call'[c].row = k.row
        /\ call'[c].slot = k.slot
    BY <2>1, AdvanceTakes, Lists DEF SaveSlot
  <2>3. Kept(k) => Kept(call[c])'
    BY <1>1, <2>2 DEF Kept
  <2>4. Moves(k) => Moves(call[c])'
    BY <1>1, <2>2 DEF Moves
  <2>5. Phase(call[c])'
    <3>1. CASE k.todo = ToTake
      <4>1. Kept(k) /\ OnTime(k.row)
        BY <2>1, <3>1, Lists DEF Phase
      <4> QED BY <2>2, <2>3, <3>1, <4>1, Lists DEF Phase
    <3>2. CASE k.todo = ToMoveFirst
      <4>1. k.row.event = NoTime /\ Kept(k) /\ Moves(k)
        BY <2>1, <3>2, Lists DEF Phase
      <4> QED BY <2>2, <2>3, <2>4, <3>2, <4>1, Lists DEF Phase
    <3>3. CASE k.todo = ToMoveLinkedFirst
      <4>1. Kept(k) /\ Moves(k)
        BY <2>1, <3>3, Lists DEF Phase
      <4> QED BY <2>2, <2>3, <2>4, <3>3, <4>1, Lists DEF Phase
    <3> QED BY <2>1, <3>1, <3>2, <3>3
  <2>6. InHand(c)'
    BY <1>1, <1>3, <1>6, <2>1, <2>2, <2>5, Lists DEF InHand, Refers, Doing, Exists
  <2>7. \A s \in Sessions : s # call'[c].id => Agreed(s)'
    BY <1>1, <2>2, LinkedNow, SameAgreed
  <2> QED BY <1>4, <2>6, <2>7, LinkedNext
<1> QED BY <1>5, <1>6

LEMMA InsertLinked ==
  ASSUME OneAtATime, IInv, Linked, NEW c \in Calls, Insert(c)
  PROVE  Linked'
<1> DEFINE k == call[c]
<1>1. k.id \in Sessions /\ k.todo = ToInsert /\ InHand(c)
  BY AtTask DEF Insert, Linked
<1>2. Kept(k) /\ OnTime(k.row) /\ Refers(k.id, k.row) /\ k.row.slot \in Slots
  BY <1>1, Lists DEF InHand, Phase
<1>3. slots' = slots /\ calendar' = calendar /\ Return(c)
  BY DEF Insert
<1>4. CASE sessions' = sessions
  BY <1>2, <1>3, <1>4, SameTables, FailsLinked
<1>5. CASE Storable(k.id, k.row) /\ sessions' = [sessions EXCEPT ![k.id] = k.row]
  <2>1. /\ sessions'[k.id] = k.row
        /\ \A s \in Sessions \ {k.id} : sessions'[s] = sessions[s]
    BY <1>1, <1>5 DEF IInv, TypeOK
  <2>2. AllHoused'
    BY <1>2, <1>3, <1>5, <2>1 DEF Linked, AllHoused, Storable, Exists
  <2>3. \A s \in Sessions : Agreed(s)'
    <3>1. \A s \in Sessions : s # k.id => Agreed(s)'
      BY <1>3, <2>1, LinkedNow, SameAgreed
    <3> QED BY <1>2, <1>3, <2>1, <3>1, StoredAgrees
  <2> QED BY <1>3, <2>2, <2>3, ReturnLinked
<1> QED BY <1>4, <1>5 DEF Insert

\* The row is stored: the table agrees with the handler.
LEMMA RowStored ==
  ASSUME OneAtATime, IInv, Linked, NEW c \in Calls, call[c].id \in Sessions,
         call[c].row.slot \in Slots, Exists(call[c].row.slot),
         sessions' = [sessions EXCEPT ![call[c].id] = call[c].row],
         slots' = slots
  PROVE  /\ AllHoused' /\ sessions'[call[c].id] = call[c].row
         /\ \A s \in Sessions \ {call[c].id} : sessions'[s] = sessions[s]
<1>1. /\ sessions'[call[c].id] = call[c].row
      /\ \A s \in Sessions \ {call[c].id} : sessions'[s] = sessions[s]
  BY DEF IInv, TypeOK
<1> QED BY <1>1 DEF Linked, AllHoused, Exists

\* What does not stand in the way of the row still does not after the step.
LEMMA StillStorable ==
  ASSUME NEW c \in Calls, Storable(call[c].id, call[c].row), call[c].row.slot \in Slots,
         call'[c].id = call[c].id, Alike(call[c].row, call'[c].row),
         call'[c].row.slot = call[c].row.slot,
         \A o \in Sessions \ {call[c].id} : sessions'[o] = sessions[o],
         \A j \in Slots : Exists(j) => Exists(j)'
  PROVE  Storable(call[c].id, call[c].row)'
<1>1. (Active(call'[c].row) <=> Active(call[c].row)) /\ Exists(call[c].row.slot)
  BY AlikeLooks DEF Storable
<1>2. slots'[call[c].row.slot].coach # NoCoach
  BY <1>1 DEF Exists
<1> QED BY <1>1, <1>2 DEF Storable, ViolatesIndex, Exists, Alike, Active

\* A handler with a session in hand moves on, to none of the tasks that touch slots.
LEMMA HandsOn ==
  ASSUME NEW c \in Calls, call[c].id \in Sessions, call'[c].id = call[c].id,
         call[c].row.slot \in Slots, call'[c].row.slot = call[c].row.slot,
         call'[c].todo \in {ToSave, ToRelease, ToConfirm, ToSync, ToFree, ToFreeLinked, ToDrop},
         \A t \in Times : <<call[c].id, t>> \in calendar' <=> call'[c].row.event = t,
         Phase(call[c])'
  PROVE  InHand(c)'
<1>1. ~Doing(c, "overlap")' /\ ~Doing(c, "saveSlot")' /\ ~Doing(c, "move")'
  BY Lists DEF Doing
<1> QED BY <1>1 DEF InHand, Refers

LEMMA SaveLinked ==
  ASSUME OneAtATime, IInv, Linked, NEW c \in Calls, Save(c)
  PROVE  Linked'
<1> DEFINE k == call[c]
           next == call'[c]
<1>1. k.id \in Sessions /\ k.todo \in {ToSave, ToConfirm} /\ InHand(c)
  BY AtTask DEF Save, Linked
<1>2. Refers(k.id, k.row) /\ k.row.slot \in Slots /\ Phase(k)
  BY <1>1 DEF InHand
<1>3. (Kept(k) \/ Storable(k.id, k.row)) /\ OnTime(k.row)
  BY <1>1, <1>2, Lists DEF Phase, OnTime
<1>4. slots' = slots /\ calendar' = calendar
  BY DEF Save
<1>5. CASE ~Storable(k.id, k.row)
  BY <1>3, <1>4, <1>5, SameTables, FailsLinked DEF Save
<1>6. CASE Storable(k.id, k.row)
  <2>1. sessions' = [sessions EXCEPT ![k.id] = k.row] /\ Advance(c) /\ Exists(k.row.slot)
    BY <1>6 DEF Save, Storable
  <2>2. /\ AllHoused' /\ sessions'[k.id] = k.row
        /\ \A s \in Sessions \ {k.id} : sessions'[s] = sessions[s]
    BY <1>1, <1>2, <1>4, <2>1, RowStored
  <2>3. \A s \in Sessions : s # k.id => Agreed(s)'
    BY <1>4, <2>2, LinkedNow, SameAgreed
  <2>4. CASE k.todo = ToSave
    <3>1. Return(c)
      BY <2>1, <2>4, Lists DEF Advance, Resume, Return
    <3>2. \A s \in Sessions : Agreed(s)'
      BY <1>2, <1>3, <1>4, <2>2, <2>3 DEF Agreed, Refers
    <3> QED BY <2>2, <3>1, <3>2, ReturnLinked
  <2>5. CASE k.todo = ToConfirm
    <3>1. next.todo = ToSync /\ next.id = k.id /\ next.row = k.row
      BY <2>1, <2>5, AdvanceTakes, Lists
    <3>2. k.row.event = NoTime
      BY <1>2, <2>5, Lists DEF Phase
    <3>3. Kept(k)'
      BY <1>3, <2>2, <3>1 DEF Kept
    <3>4. Storable(k.id, k.row)'
      BY <1>2, <1>4, <1>6, <2>2, <3>1, StillStorable, AlikeSame DEF Exists
    <3>5. InHand(c)'
      <4>1. Phase(k)'
        BY <3>1, <3>2, <3>3, <3>4 DEF Phase
      <4> QED BY <1>1, <1>2, <1>4, <3>1, <4>1, HandsOn DEF Refers
    <3> QED BY <2>2, <2>3, <3>1, <3>5, LinkedNext
  <2> QED BY <1>1, <2>4, <2>5
<1> QED BY <1>5, <1>6

LEMMA MoveLinked ==
  ASSUME OneAtATime, IInv, Linked, NEW c \in Calls, Move(c)
  PROVE  Linked'
<1> DEFINE k == call[c]
           next == call'[c]
<1>1. k.id \in Sessions /\ k.todo \in {ToMove, ToMoveLinked} /\ InHand(c)
  BY AtTask DEF Move, Linked
<1>2. /\ Refers(k.id, k.row) /\ k.row.slot \in Slots /\ Phase(k)
      /\ k.slot \in Slots /\ Exists(k.slot)
  BY <1>1 DEF InHand, Move
<1>3. Kept(k) /\ Moves(k) /\ (k.todo = ToMove => k.row.event = NoTime)
  BY <1>1, <1>2, Lists DEF Phase
<1>4. calendar' = calendar
  BY DEF Move
<1>5. CASE ViolatesIndex(k.id, k.row)
  <2>1. /\ slots' = [slots EXCEPT ![k.slot] = NoEntity] /\ Return(c)
        /\ sessions' = sessions
    BY <1>5 DEF Move
  <2>2. \A j \in Slots \ {k.slot} : Exists(j) => Exists(j)'
    BY <2>1 DEF Exists, IInv, TypeOK
  <2>3. AllHoused'
    BY <1>3, <2>1, <2>2 DEF Linked, AllHoused, Moves
  <2> QED BY <1>3, <1>4, <2>1, <2>3, FailsLinked
<1>6. CASE ~ViolatesIndex(k.id, k.row)
  <2>1. /\ sessions' = [sessions EXCEPT ![k.id] = k.row] /\ Advance(c)
        /\ slots' = slots
    BY <1>6 DEF Move
  <2>2. Storable(k.id, k.row) /\ Exists(k.row.slot)
    BY <1>2, <1>3, <1>6 DEF Moves, Storable
  <2>3. /\ AllHoused' /\ sessions'[k.id] = k.row
        /\ \A s \in Sessions \ {k.id} : sessions'[s] = sessions[s]
    BY <1>1, <1>2, <2>1, <2>2, RowStored
  <2>4. /\ next.todo = Tail(k.todo) /\ next.id = k.id /\ next.row = k.row
        /\ next.todo \in {ToFree, ToFreeLinked}
    BY <1>1, <2>1, AdvanceTakes, Lists
  <2>5. Storable(k.id, k.row)'
    BY <1>2, <2>1, <2>2, <2>3, <2>4, StillStorable, AlikeSame DEF Exists
  <2>6. Phase(k)'
    <3>1. CASE k.todo = ToMove
      BY <1>3, <2>3, <2>4, <2>5, <3>1, Lists DEF Phase, Kept, OnTime
    <3>2. CASE k.todo = ToMoveLinked
      BY <2>4, <2>5, <3>2, Lists DEF Phase
    <3> QED BY <1>1, <3>1, <3>2
  <2>7. InHand(c)'
    BY <1>1, <1>2, <1>4, <2>4, <2>6, HandsOn DEF Refers
  <2>8. \A s \in Sessions : s # next.id => Agreed(s)'
    BY <1>4, <2>3, <2>4, LinkedNow, SameAgreed
  <2> QED BY <2>3, <2>7, <2>8, LinkedNext
<1> QED BY <1>5, <1>6

LEMMA ReleaseLinked ==
  ASSUME OneAtATime, IInv, Linked, NEW c \in Calls, Release(c)
  PROVE  Linked'
<1> DEFINE k == call[c]
           next == call'[c]
<1>1. /\ k.id \in Sessions /\ k.todo \in {ToRelease, ToFree, ToFreeLinked}
      /\ InHand(c)
  BY AtTask DEF Release, Linked
<1>2. Refers(k.id, k.row) /\ k.row.slot \in Slots /\ Phase(k)
  BY <1>1 DEF InHand
<1>3. sessions' = sessions /\ calendar' = calendar /\ Advance(c)
  BY DEF Release
<1>4. \A j \in Slots : Exists(j) => Exists(j)'
  BY DEF Release, Exists, IInv, TypeOK, Slot
<1>5. AllHoused'
  BY <1>3, <1>4 DEF Linked, AllHoused
<1>6. /\ next.todo = Tail(k.todo) /\ next.id = k.id /\ next.row = k.row
      /\ next.todo \in {ToSave, ToSync, ToDrop}
  BY <1>1, <1>3, AdvanceTakes, Lists
<1>7. Storable(k.id, k.row) => Storable(k.id, k.row)'
  BY <1>2, <1>3, <1>4, <1>6, StillStorable, AlikeSame
<1>8. Kept(k) => Kept(k)'
  BY <1>3, <1>6 DEF Kept
<1>9. Phase(k)'
  <2>1. CASE k.todo = ToRelease
    <3>1. OnTime(k.row) /\ (Kept(k) \/ Storable(k.id, k.row))
      BY <1>2, <2>1, Lists DEF Phase
    <3> QED BY <1>6, <1>7, <1>8, <2>1, <3>1, Lists DEF Phase
  <2>2. CASE k.todo = ToFree
    <3>1. k.row.event = NoTime /\ Kept(k) /\ Storable(k.id, k.row)
      BY <1>2, <2>2, Lists DEF Phase
    <3> QED BY <1>6, <1>7, <1>8, <2>2, <3>1, Lists DEF Phase
  <2>3. CASE k.todo = ToFreeLinked
    <3>1. Storable(k.id, k.row)
      BY <1>2, <2>3, Lists DEF Phase
    <3> QED BY <1>6, <1>7, <2>3, <3>1, Lists DEF Phase
  <2> QED BY <1>1, <2>1, <2>2, <2>3
<1>10. InHand(c)'
  BY <1>1, <1>2, <1>3, <1>6, <1>9, HandsOn DEF Refers
<1>11. \A s \in Sessions : s # next.id => Agreed(s)'
  BY <1>3, <1>6, LinkedNow, SameAgreed
<1> QED BY <1>5, <1>10, <1>11, LinkedNext

\* A handler changes the calendar of its session, and the row accordingly.
LEMMA EventWritten ==
  ASSUME IInv, NEW c \in Calls, NEW event \in Times \cup {NoTime},
         Resume(c, [call[c] EXCEPT !.row.event = event]), Tail(call[c].todo) # <<>>
  PROVE  LET next == call'[c] IN
         /\ next.todo = Tail(call[c].todo) /\ next.id = call[c].id
         /\ next.row.event = event /\ Alike(call[c].row, next.row)
         /\ next.row.slot = call[c].row.slot /\ next.old = call[c].old
<1> DEFINE new == [call[c] EXCEPT !.row.event = event]
<1>1. call[c] \in CallState /\ call[c].row \in Row
  BY DEF IInv, TypeOK, CallState
<1>2. /\ new \in CallState /\ new.id = call[c].id /\ new.todo = call[c].todo
      /\ new.row.event = event /\ Alike(call[c].row, new.row)
      /\ new.row.slot = call[c].row.slot /\ new.old = call[c].old
  BY <1>1 DEF CallState, Row, Alike
<1>3. Resume(c, new)
  OBVIOUS
<1> HIDE DEF new
<1> QED BY <1>2, <1>3, ResumeTakes

LEMMA UnlinkLinked ==
  ASSUME OneAtATime, CalendarAnswers, IInv, Linked, NEW c \in Calls, Unlink(c)
  PROVE  Linked'
<1> DEFINE k == call[c]
           next == call'[c]
<1>1. k.id \in Sessions /\ k.todo \in {ToUnlink, ToDrop} /\ InHand(c)
  BY AtTask DEF Unlink, Linked
<1>2. Refers(k.id, k.row) /\ k.row.slot \in Slots /\ Phase(k)
  BY <1>1 DEF InHand
<1>3. /\ sessions' = sessions /\ slots' = slots
      /\ calendar' = calendar \ {<<k.id, k.row.event>>}
  BY DEF Unlink, CalendarAnswers
<1>4. /\ next.todo = Tail(k.todo) /\ next.id = k.id /\ next.row.event = NoTime
      /\ Alike(k.row, next.row) /\ next.row.slot = k.row.slot
      /\ next.todo \in {ToRelease, ToConfirm}
  BY <1>1, EventWritten, Lists DEF Unlink
<1>5. Storable(k.id, k.row)
  <2>1. CASE k.todo = ToUnlink
    BY <1>2, <2>1, Lists DEF Phase, Storable, ViolatesIndex
  <2>2. CASE k.todo = ToDrop
    BY <1>2, <2>2, Lists DEF Phase
  <2> QED BY <1>1, <2>1, <2>2
<1>6. Storable(k.id, k.row)'
  BY <1>2, <1>3, <1>4, <1>5, StillStorable DEF Exists
<1>7. Phase(k)'
  BY <1>4, <1>6 DEF Phase, OnTime
<1>8. \A t \in Times : <<k.id, t>> \in calendar' <=> next.row.event = t
  BY <1>2, <1>3, <1>4, NoTimeOK DEF Refers
<1>9. InHand(c)'
  BY <1>1, <1>2, <1>4, <1>7, <1>8, HandsOn
<1>10. \A s \in Sessions : s # next.id => Agreed(s)'
  BY <1>3, <1>4, LinkedNow, SameAgreed
<1> QED BY <1>3, <1>9, <1>10, SameTables, LinkedNext

LEMMA SyncLinked ==
  ASSUME OneAtATime, CalendarAnswers, IInv, Linked, NEW c \in Calls, Sync(c)
  PROVE  Linked'
<1> DEFINE k == call[c]
           next == call'[c]
<1>1. k.id \in Sessions /\ k.todo = ToSync /\ InHand(c)
  BY AtTask DEF Sync, Linked
<1>2. Refers(k.id, k.row) /\ k.row.slot \in Slots /\ Phase(k)
  BY <1>1 DEF InHand
<1>3. k.row.event = NoTime /\ Kept(k) /\ Storable(k.id, k.row)
  BY <1>1, <1>2, Lists DEF Phase
<1>4. sessions' = sessions /\ slots' = slots
  BY DEF Sync
<1>5. CASE Return(c) /\ calendar' = calendar
  BY <1>3, <1>4, <1>5, SameTables, FailsLinked
<1>6. CASE /\ calendar' = calendar \cup {<<k.id, k.row.at>>}
           /\ Resume(c, [k EXCEPT !.row.event = k.row.at])
  <2>1. k.row.at \in Times \cup {NoTime}
    BY DEF IInv, TypeOK, CallState, Row
  <2>2. /\ next.todo = ToSave /\ next.id = k.id /\ next.row.event = k.row.at
        /\ Alike(k.row, next.row) /\ next.row.slot = k.row.slot
    BY <1>1, <1>6, <2>1, EventWritten, Lists
  <2>3. Storable(k.id, k.row)'
    BY <1>2, <1>3, <1>4, <2>2, StillStorable DEF Exists
  <2>4. Phase(k)'
    BY <2>2, <2>3 DEF Phase, OnTime, Alike
  <2>5. \A t \in Times : <<k.id, t>> \in calendar' <=> next.row.event = t
    BY <1>2, <1>3, <1>6, <2>2, NoTimeOK DEF Refers
  <2>6. InHand(c)'
    BY <1>1, <1>2, <2>2, <2>4, <2>5, HandsOn
  <2>7. \A s \in Sessions : s # next.id => Agreed(s)'
    BY <1>4, <1>6, <2>2, LinkedNow, SameAgreed
  <2> QED BY <1>4, <2>6, <2>7, SameTables, LinkedNext
<1> QED BY <1>5, <1>6 DEF Sync, CalendarAnswers

LEMMA DeleteSlotLinked ==
  ASSUME OneAtATime, IInv, Linked, NEW c \in Calls, DeleteSlot(c)
  PROVE  Linked'
<1>1. call[c].id \notin Sessions
  BY AtTask DEF DeleteSlot
<1>2. sessions' = sessions /\ calendar' = calendar /\ Return(c)
  BY DEF DeleteSlot
<1>3. AllHoused'
  <2>1. CASE slots' = slots
    BY <1>2, <2>1, SameTables
  <2>2. CASE /\ \A s \in Sessions : sessions[s].slot # call[c].slot
             /\ slots' = [slots EXCEPT ![call[c].slot] = NoEntity]
    BY <1>2, <2>2 DEF Linked, AllHoused, Exists, IInv, TypeOK
  <2> QED BY <2>1, <2>2 DEF DeleteSlot
<1> QED BY <1>1, <1>2, <1>3, FailsLinked

LEMMA ContinueLinked ==
  ASSUME OneAtATime, CalendarAnswers, IInv, Linked, NEW c \in Calls, Continue(c)
  PROVE  Linked'
  BY CheckOverlapLinked, SaveSlotLinked, InsertLinked, SaveLinked, MoveLinked,
     ReleaseLinked, UnlinkLinked, SyncLinked, DeleteSlotLinked
     DEF Continue

-----------------------------------------------------------------------------
(* The handlers *)

\* The row still refers to the slot and the event of the stored one.
Holding(old, row) == row.event = old.event /\ row.slot = old.slot

LEMMA StartLinked ==
  ASSUME OneAtATime, IInv, Linked, NEW c \in Calls, Free(c), UNCHANGED db,
         NEW s \in Sessions, Good(sessions[s]), NEW row, Holding(sessions[s], row),
         NEW todo, Start(c, s, row, todo),
         \/ todo \in {ToSave, ToRelease} /\ row.at = sessions[s].at
         \/ todo = ToUnlink /\ ~Active(row)
         \/ todo = ToConfirm /\ row.event = NoTime
  PROVE  Linked'
<1> DEFINE next == call'[c]
<1>1. next.todo = todo /\ next.id = s /\ next.row = row
  BY StartTakes
<1>2. sessions' = sessions /\ slots' = slots /\ calendar' = calendar
  BY DEF db
<1>3. \A o \in Sessions : Agreed(o)
  BY AtTask, KeptAgrees
<1>4. sessions[s].slot \in Slots /\ Exists(sessions[s].slot)
  <2>1. sessions[s] # Vacant
    BY DEF Good, Vacant
  <2> QED BY <2>1 DEF Linked, AllHoused
<1>5. OnTime(sessions[s]) /\ Refers(s, sessions[s])
  BY <1>3 DEF Agreed
<1>6. Kept(call[c])'
  BY <1>1, <1>2, <1>5 DEF Kept, Holding
<1>7. Phase(call[c])'
  <2>1. CASE todo \in {ToSave, ToRelease} /\ row.at = sessions[s].at
    BY <1>1, <1>5, <1>6, <2>1 DEF Phase, OnTime, Holding
  <2>2. CASE todo = ToUnlink /\ ~Active(row)
    BY <1>1, <1>2, <1>4, <1>6, <2>2 DEF Phase, Exists, Holding
  <2>3. CASE todo = ToConfirm /\ row.event = NoTime
    BY <1>1, <1>6, <2>3 DEF Phase
  <2> QED BY <2>1, <2>2, <2>3
<1>8. next.todo \in {ToSave, ToRelease, ToUnlink, ToConfirm}
  BY <1>1
<1>9. InHand(c)'
  <2>1. ~Doing(c, "overlap")' /\ ~Doing(c, "saveSlot")' /\ ~Doing(c, "move")'
    BY <1>8, Lists DEF Doing
  <2> QED BY <1>1, <1>2, <1>4, <1>5, <1>7, <2>1 DEF InHand, Refers, Holding
<1>10. \A o \in Sessions : Agreed(o)'
  BY <1>2, <1>3, SameAgreed
<1> QED BY <1>2, <1>9, <1>10, SameTables, LinkedNext

\* What the handlers make of a row leaves its slot, its event and its time.
Steady(old, row) == Holding(old, row) /\ row.at = old.at

LEMMA AnswersSteady ==
  ASSUME NEW row \in Row
  PROVE  /\ Steady(row, Confirmed(row)) /\ Steady(row, Declined(row))
         /\ Steady(row, Cancelled(row)) /\ Steady(row, Completed(row))
         /\ Steady(row, NoShow(row))
  BY DEF Row, Steady, Holding, Confirmed, Declined, Cancelled, Completed, NoShow

LEMMA CancellationsSteady ==
  ASSUME NEW row \in Row
  PROVE  /\ \A by \in Parties : Steady(row, CancelRequested(row, by))
         /\ Steady(row, CancelApproved(row)) /\ ~Active(CancelApproved(row))
         /\ Steady(row, CancelDeclined(row))
<1>1. /\ \A by \in Parties : Steady(row, CancelRequested(row, by))
      /\ Steady(row, CancelDeclined(row))
  BY DEF Row, Steady, Holding, CancelRequested, CancelDeclined
<1>2. Steady(row, CancelApproved(row)) /\ CancelApproved(row).status = "cancelled"
  BY DEF Row, Steady, Holding, CancelApproved
<1> QED BY <1>1, <1>2 DEF Active, Released

LEMMA ProposalsSteady ==
  ASSUME NEW row \in Row
  PROVE  /\ \A t \in Times : Steady(row, Proposed(row, t))
         /\ Steady(row, AnotherAsked(row)) /\ Steady(row, Withdrawn(row))
         /\ Steady(row, ProposalRejected(row))
         /\ Origin(row) = "pending_cancellation" => ~Active(ProposalRejected(row))
<1>1. /\ \A t \in Times : Steady(row, Proposed(row, t))
      /\ Steady(row, AnotherAsked(row)) /\ Steady(row, Withdrawn(row))
  BY DEF Row, Steady, Holding, Proposed, AnotherAsked, Withdrawn, ClearProposal
<1>2. CASE Origin(row) = "pending_coach_approval"
  BY <1>1, <1>2 DEF Row, Steady, Holding, ProposalRejected, ClearProposal
<1>3. CASE Origin(row) = "pending_cancellation"
  <2>1. /\ Steady(row, ProposalRejected(row))
        /\ ProposalRejected(row).status = "cancelled"
    BY <1>3 DEF Row, Steady, Holding, ProposalRejected, ClearProposal, ClearCancellation
  <2> QED BY <1>1, <2>1 DEF Active, Released
<1>4. CASE Origin(row) \notin {"pending_coach_approval", "pending_cancellation"}
  BY <1>1, <1>4 DEF Row, Steady, Holding, ProposalRejected, ClearProposal
<1> QED BY <1>2, <1>3, <1>4

LEMMA SteadyLinked ==
  ASSUME OneAtATime, IInv, Linked, NEW c \in Calls, Free(c), UNCHANGED db,
         NEW s \in Sessions, Good(sessions[s]), NEW row, Steady(sessions[s], row),
         \/ Start(c, s, row, <<"save">>)
         \/ Start(c, s, row, <<"release", "save">>)
         \/ Start(c, s, row, CallOff(sessions[s])) /\ ~Active(row)
  PROVE  Linked'
<1>1. CASE Start(c, s, row, <<"save">>) \/ Start(c, s, row, <<"release", "save">>)
  BY <1>1, StartLinked DEF Steady, ToSave, ToRelease
<1>2. CASE Start(c, s, row, CallOff(sessions[s])) /\ ~Active(row)
  <2>1. CallOff(sessions[s]) \in {ToRelease, ToUnlink}
    BY DEF CallOff, ToRelease, ToUnlink
  <2> QED BY <1>2, <2>1, StartLinked DEF Steady
<1> QED BY <1>1, <1>2

LEMMA SteadyHandlers ==
  ASSUME OneAtATime, IInv, Linked, NEW c \in Calls, NEW s \in Sessions,
         \/ Decline(c, s) \/ Cancel(c, s) \/ Complete(c, s) \/ MarkNoShow(c, s)
         \/ RequestCancel(c, s) \/ ApproveCancel(c, s) \/ DeclineCancel(c, s)
         \/ Propose(c, s) \/ Reject(c, s) \/ RequestAnother(c, s) \/ Withdraw(c, s)
  PROVE  Linked'
<1> DEFINE row == sessions[s]
<1>1. row.status # "none" /\ Free(c) /\ UNCHANGED db
  BY DEF Decline, Cancel, Complete, MarkNoShow, RequestCancel, ApproveCancel, DeclineCancel,
         Propose, Reject, RequestAnother, Withdraw, AwaitsCoach, CanCancel, IsScheduled,
         CanApproveCancel, CanAnswerCancel, CanPropose, Proposable, HasProposal, CanAskAnother
<1>2. Good(row) /\ row \in Row
  BY <1>1, Booked DEF Good
<1>3. CASE Decline(c, s) \/ Cancel(c, s) \/ Complete(c, s) \/ MarkNoShow(c, s)
  BY <1>1, <1>2, <1>3, AnswersSteady, SteadyLinked
     DEF Decline, Cancel, Complete, MarkNoShow
<1>4. CASE RequestCancel(c, s)
  <2>1. PICK by \in Parties : Start(c, s, CancelRequested(row, by), <<"save">>)
    BY <1>4 DEF RequestCancel
  <2> QED BY <1>1, <1>2, <2>1, CancellationsSteady, SteadyLinked
<1>5. CASE ApproveCancel(c, s) \/ DeclineCancel(c, s)
  BY <1>1, <1>2, <1>5, CancellationsSteady, SteadyLinked DEF ApproveCancel, DeclineCancel
<1>6. CASE Propose(c, s)
  <2>1. PICK t \in Times : Start(c, s, Proposed(row, t), <<"save">>)
    BY <1>6 DEF Propose
  <2> QED BY <1>1, <1>2, <2>1, ProposalsSteady, SteadyLinked
<1>7. CASE Reject(c, s)
  <2> DEFINE todo == CASE Origin(row) = "pending_coach_approval" -> <<"release", "save">>
                       [] Origin(row) = "pending_cancellation" -> CallOff(row)
                       [] OTHER -> <<"save">>
  <2>1. Start(c, s, ProposalRejected(row), todo)
    BY <1>7 DEF Reject
  <2>2. \/ todo = <<"save">> \/ todo = <<"release", "save">>
        \/ todo = CallOff(row) /\ Origin(row) = "pending_cancellation"
    OBVIOUS
  <2> HIDE DEF todo
  <2> QED BY <1>1, <1>2, <2>1, <2>2, ProposalsSteady, SteadyLinked
<1>8. CASE RequestAnother(c, s) \/ Withdraw(c, s)
  BY <1>1, <1>2, <1>8, ProposalsSteady, SteadyLinked DEF RequestAnother, Withdraw
<1> QED BY <1>3, <1>4, <1>5, <1>6, <1>7, <1>8

\* A request has no event yet.
LEMMA ConfirmLinked ==
  ASSUME OneAtATime, IInv, Linked, NEW c \in Calls, NEW s \in Sessions, Confirm(c, s)
  PROVE  Linked'
<1> DEFINE row == sessions[s]
<1>1. row.status = "pending_coach_approval" /\ Free(c) /\ UNCHANGED db
  BY DEF Confirm, AwaitsCoach
<1>2. Good(row)
  BY <1>1, Booked
<1>3. row.event = NoTime
  BY <1>1, <1>2 DEF Good, RowAgrees, Standing, HasProposal
<1>4. Steady(row, Confirmed(row))
  BY <1>2, AnswersSteady DEF Good
<1>5. Start(c, s, Confirmed(row), ToConfirm)
  BY DEF Confirm, ToConfirm
<1> QED BY <1>1, <1>2, <1>3, <1>4, <1>5, StartLinked DEF Steady, Holding

\* The new slot is none that a session refers to: it does not exist yet.
LEMMA AcceptLinked ==
  ASSUME OneAtATime, IInv, Linked, NEW c \in Calls, NEW s \in Sessions, Accept(c, s)
  PROVE  Linked'
<1> DEFINE old == sessions[s]
           next == call'[c]
<1>1. PICK k \in Slots :
        /\ NewSlot(k)
        /\ call' = [call EXCEPT ![c] =
             [todo |-> Reschedule(old), id |-> s, row |-> Accepted(old, k),
              old |-> old.slot, slot |-> k,
              entity |-> [FreshSlot(CoachOf[old.cycle], old.proposed) EXCEPT !.booked = TRUE]]]
  BY DEF Accept
<1>2. /\ HasProposal(old) /\ Free(c)
      /\ sessions' = sessions /\ slots' = slots /\ calendar' = calendar
  BY DEF Accept, db
<1>3. Good(old)
  BY <1>2, Booked DEF HasProposal
<1>4. /\ next.todo = Reschedule(old) /\ next.id = s /\ next.row = Accepted(old, k)
      /\ next.slot = k
      /\ next.entity = [FreshSlot(CoachOf[old.cycle], old.proposed) EXCEPT !.booked = TRUE]
  BY <1>1 DEF IInv, TypeOK
<1>5. next.row.event = old.event /\ next.row.slot = k
  BY <1>3, <1>4 DEF Accepted, ClearProposal, ClearCancellation, Good, Row
<1>6. next.entity.coach # NoCoach
  <2>1. next.entity.coach = CoachOf[old.cycle]
    BY <1>4 DEF FreshSlot
  <2> QED BY <1>3, <2>1, SessionsAssumption DEF Good
<1>7. /\ next.todo \in {ToMoveFirst, ToMoveLinkedFirst}
      /\ (next.todo = ToMoveFirst => old.event = NoTime)
  <2>1. CASE old.event = NoTime
    BY <1>4, <2>1 DEF Reschedule, ToMoveFirst
  <2>2. CASE old.event # NoTime
    <3>1. next.todo = ToMoveLinkedFirst
      BY <1>4, <2>2 DEF Reschedule, ToMoveLinkedFirst
    <3>2. ToMoveLinkedFirst # ToMoveFirst
      <4>1. ToFreeLinked # ToFree
        <5>1. ToDrop # ToSync
          BY Lists
        <5> QED BY <5>1, Lists
      <4>2. ToMoveLinked # ToMove
        BY <4>1, Lists
      <4> QED BY <4>2, Lists
    <3> QED BY <3>1, <3>2
  <2> QED BY <2>1, <2>2
<1>8. \A o \in Sessions : sessions[o].slot # k
  <2>1. ~Exists(k) /\ Vacant.slot = NoSlot
    BY <1>1 DEF NewSlot, Vacant
  <2> QED BY <2>1, SlotsAssumption DEF Linked, AllHoused
<1>9. \A o \in Sessions : Agreed(o)
  BY <1>2, AtTask, KeptAgrees
<1>10. Kept(call[c])' /\ Moves(call[c])'
  BY <1>2, <1>4, <1>5, <1>8, <1>9 DEF Kept, Moves, Agreed
<1>11. Phase(call[c])'
  BY <1>5, <1>7, <1>10 DEF Phase
<1>12. InHand(c)'
  <2>1. ~Doing(c, "move")'
    BY <1>7, Lists DEF Doing
  <2> QED BY <1>2, <1>4, <1>5, <1>6, <1>9, <1>11, <2>1 DEF InHand, Agreed, Refers
<1>13. \A o \in Sessions : Agreed(o)'
  BY <1>2, <1>9, SameAgreed
<1> QED BY <1>2, <1>12, <1>13, SameTables, LinkedNext

LEMMA BookLinked ==
  ASSUME OneAtATime, IInv, Linked, NEW c \in Calls, NEW s \in Sessions, Book(c, s)
  PROVE  Linked'
<1> DEFINE next == call'[c]
<1>1. PICK q \in Cycles, k \in Slots :
        \E n \in FreeNumbers(q), entity \in BookableEntities(k, CoachOf[q]) :
          call' = [call EXCEPT ![c] =
            [todo |-> <<"overlap", "saveSlot", "insert">>, id |-> s,
             row |-> Booking(q, n, k, entity.time), old |-> NoSlot,
             slot |-> k, entity |-> [entity EXCEPT !.booked = TRUE]]]
  BY DEF Book
<1>2. PICK n \in FreeNumbers(q), entity \in BookableEntities(k, CoachOf[q]) :
        call' = [call EXCEPT ![c] =
          [todo |-> <<"overlap", "saveSlot", "insert">>, id |-> s,
           row |-> Booking(q, n, k, entity.time), old |-> NoSlot,
           slot |-> k, entity |-> [entity EXCEPT !.booked = TRUE]]]
  BY <1>1
<1>3. /\ next.todo = ToBook /\ next.id = s /\ next.row = Booking(q, n, k, entity.time)
      /\ next.slot = k /\ next.entity = [entity EXCEPT !.booked = TRUE]
  BY <1>2 DEF IInv, TypeOK, ToBook
<1>4. /\ sessions[s] = Vacant /\ Free(c)
      /\ sessions' = sessions /\ slots' = slots /\ calendar' = calendar
  BY DEF Book, NewSession, db
<1>5. next.row.event = NoTime /\ next.row.slot = k /\ Vacant.event = NoTime
  BY <1>3 DEF Booking, Vacant
<1>6. next.entity.coach # NoCoach
  <2>1. entity \in Slot /\ entity.coach = CoachOf[q]
    BY BookableOK, SessionsAssumption DEF BookableEntities, FreshSlot
  <2> QED BY <1>3, <2>1, SessionsAssumption DEF Slot
<1>7. \A o \in Sessions : Agreed(o)
  BY <1>4, AtTask, KeptAgrees
<1>8. Phase(call[c])'
  BY <1>3, <1>4, <1>5 DEF Phase, Kept, OnTime
<1>9. InHand(c)'
  <2>1. ~Doing(c, "move")'
    BY <1>3, Lists DEF Doing
  <2>2. \A t \in Times : <<s, t>> \in calendar <=> next.row.event = t
    BY <1>4, <1>5, <1>7 DEF Agreed, Refers
  <2> QED BY <1>3, <1>4, <1>5, <1>6, <1>8, <2>1, <2>2 DEF InHand, Refers
<1>10. \A o \in Sessions : Agreed(o)'
  BY <1>4, <1>7, SameAgreed
<1> QED BY <1>4, <1>9, <1>10, SameTables, LinkedNext

\* A handler of the coach's slots saves one that has a coach, or deletes one.
LEMMA OnSlotLinked ==
  ASSUME OneAtATime, IInv, Linked, NEW c \in Calls, NEW k \in Slots, OnSlot(c, k)
  PROVE  Linked'
<1> DEFINE next == call'[c]
<1>1. PICK entity, todo :
        /\ StartSlot(c, k, entity, todo)
        /\ \/ todo = <<"saveSlot">> /\ entity.coach # NoCoach
           \/ todo = <<"deleteSlot">>
  <2>1. CASE AddSlot(c, k)
    BY <2>1, SessionsAssumption DEF AddSlot, FreshSlot
  <2>2. CASE SwitchSlot(c, k) \/ SyncWithOutlook(c, k)
    <3>1. PICK b \in BOOLEAN :
            StartSlot(c, k, [slots[k] EXCEPT !.active = b], <<"saveSlot">>) /\ Exists(k)
      BY <2>2 DEF SwitchSlot, SyncWithOutlook, CanDeactivate
    <3>2. [slots[k] EXCEPT !.active = b].coach # NoCoach
      BY <3>1 DEF Exists, IInv, TypeOK, Slot
    <3> QED BY <3>1, <3>2
  <2>3. CASE RemoveSlot(c, k)
    BY <2>3 DEF RemoveSlot
  <2> QED BY <2>1, <2>2, <2>3 DEF OnSlot
<1>2. /\ Free(c) /\ sessions' = sessions /\ slots' = slots /\ calendar' = calendar
  BY DEF OnSlot, AddSlot, SwitchSlot, SyncWithOutlook, RemoveSlot, db
<1>3. next.todo = todo /\ next.id \notin Sessions /\ next.slot = k /\ next.entity = entity
  <2> DEFINE new == [Idle EXCEPT !.todo = todo, !.slot = k, !.entity = entity]
  <2>1. new.todo = todo /\ new.id = NoSession /\ new.slot = k /\ new.entity = entity
    BY DEF Idle
  <2>2. call' = [call EXCEPT ![c] = new]
    BY <1>1 DEF StartSlot
  <2> HIDE DEF new
  <2> QED BY <2>1, <2>2, SessionsAssumption DEF IInv, TypeOK
<1>4. InHand(c)'
  <2>1. Head(<<"saveSlot">>) = "saveSlot" /\ Head(<<"deleteSlot">>) = "deleteSlot"
    OBVIOUS
  <2> QED BY <1>1, <1>3, <2>1 DEF InHand, Doing
<1>5. \A o \in Sessions : Agreed(o)'
  BY <1>2, AtTask, KeptAgrees, SameAgreed
<1> QED BY <1>2, <1>4, <1>5, SameTables, LinkedNext

-----------------------------------------------------------------------------

LEMMA LinkedStarts == Init => Linked
<1> SUFFICES ASSUME Init PROVE Linked
  OBVIOUS
<1>1. AllHoused
  BY DEF Init, AllHoused
<1>2. \A s \in Sessions : Agreed(s)
  BY NoTimeOK DEF Init, Agreed, Refers, OnTime, Vacant
<1>3. ASSUME NEW c \in Calls PROVE InHand(c)
  <2>1. call[c].todo = <<>> /\ call[c].id \notin Sessions
    BY IdleHolds DEF Init
  <2> QED BY <2>1 DEF InHand, Doing
<1> QED BY <1>1, <1>2, <1>3 DEF Linked

LEMMA LinkedStep ==
  ASSUME OneAtATime, CalendarAnswers, IInv, Linked, [Next]_vars
  PROVE  Linked'
<1>1. ASSUME NEW c \in Calls, NEW s \in Sessions, OnSession(c, s) PROVE Linked'
  BY <1>1, BookLinked, ConfirmLinked, AcceptLinked, SteadyHandlers DEF OnSession
<1>2. CASE UNCHANGED vars
  BY <1>2 DEF vars, Linked, AllHoused, Agreed, Refers, InHand, Phase, Kept, Moves,
              Storable, ViolatesIndex, Exists, Doing
<1>3. ~Restart
  BY DEF Restart, CalendarAnswers
<1> QED BY <1>1, <1>2, <1>3, OnSlotLinked, ContinueLinked DEF Next

LEMMA LinkedSays ==
  ASSUME IInv, Linked
  PROVE  CalendarFollowsSessions
<1> SUFFICES ASSUME Quiet
             PROVE  /\ calendar = {<<s, sessions[s].event>> :
                                    s \in {o \in Sessions : sessions[o].event # NoTime}}
                    /\ \A s \in Sessions : sessions[s].event \in {NoTime, sessions[s].at}
  BY DEF CalendarFollowsSessions
<1>1. \A s \in Sessions : Agreed(s)
  BY AtTask DEF Quiet, Linked
<1>2. calendar \subseteq Sessions \X Times
  BY DEF IInv, TypeOK
<1>3. \A s \in Sessions : sessions[s].event \in Times \cup {NoTime}
  BY DEF IInv, TypeOK, Row
<1> DEFINE known == {<<s, sessions[s].event>> :
                       s \in {o \in Sessions : sessions[o].event # NoTime}}
<1>4. ASSUME NEW e \in calendar PROVE e \in known
  <2>1. PICK s \in Sessions : \E t \in Times : e = <<s, t>>
    BY <1>2
  <2>2. PICK t \in Times : e = <<s, t>>
    BY <2>1
  <2> QED BY <1>1, <2>2, NoTimeOK DEF Agreed, Refers
<1>5. ASSUME NEW e \in known PROVE e \in calendar
  <2>1. PICK s \in Sessions : sessions[s].event # NoTime /\ e = <<s, sessions[s].event>>
    OBVIOUS
  <2> QED BY <1>1, <1>3, <2>1 DEF Agreed, Refers
<1> QED BY <1>1, <1>4, <1>5 DEF Agreed, OnTime

\* With one handler at a time, a calendar that answers and no restart, the events in
\* Outlook are those the sessions refer to, each at its session's time.
THEOREM SerialCalendar ==
  ASSUME OneAtATime, CalendarAnswers
  PROVE  Spec => []CalendarFollowsSessions
<1>1. IInv /\ Linked /\ [Next]_vars => Linked'
  BY LinkedStep
<1>2. IInv /\ Linked => CalendarFollowsSessions
  BY LinkedSays
<1> QED BY <1>1, <1>2, LinkedStarts, SessionsInductive, PTL DEF Spec

-----------------------------------------------------------------------------
\* The process does not stop between two awaits.
NoRestart == "restart" \notin Ops

-----------------------------------------------------------------------------
(* The index, for any number of handlers *)

\* Two live sessions of one coach that start together are one.
Indexed == \A s \in Sessions : ~ViolatesIndex(s, sessions[s])

LEMMA RowIndexed ==
  ASSUME IInv, Indexed, NEW id \in Sessions, NEW row, ~ViolatesIndex(id, row),
         sessions' = [sessions EXCEPT ![id] = row]
  PROVE  Indexed'
<1>1. /\ sessions'[id] = row
      /\ \A s \in Sessions \ {id} : sessions'[s] = sessions[s]
  BY DEF IInv, TypeOK
<1>2. ASSUME NEW s \in Sessions, NEW o \in Sessions \ {s},
             Active(sessions'[s]), Active(sessions'[o]),
             CoachOf[sessions'[o].cycle] = CoachOf[sessions'[s].cycle]
      PROVE  sessions'[o].at.start # sessions'[s].at.start
  BY <1>1, <1>2 DEF Indexed, ViolatesIndex
<1> QED BY <1>2 DEF Indexed, ViolatesIndex

LEMMA IndexStays == IInv /\ Indexed /\ [Next]_vars => Indexed'
<1> SUFFICES ASSUME IInv, Indexed, [Next]_vars PROVE Indexed'
  OBVIOUS
<1>1. CASE sessions' = sessions
  BY <1>1 DEF Indexed, ViolatesIndex
<1>2. ASSUME NEW c \in Calls, Insert(c) \/ Save(c) \/ Move(c) PROVE Indexed'
  <2>1. CASE sessions' = sessions
    BY <1>1, <2>1
  <2>2. CASE /\ sessions' = [sessions EXCEPT ![call[c].id] = call[c].row]
             /\ ~ViolatesIndex(call[c].id, call[c].row)
    <3>1. CASE call[c].id \in Sessions
      BY <2>2, <3>1, RowIndexed
    <3>2. CASE call[c].id \notin Sessions
      <4>1. sessions' = sessions
        BY <2>2, <3>2 DEF IInv, TypeOK
      <4> QED BY <1>1, <4>1
    <3> QED BY <3>1, <3>2
  <2> QED BY <1>2, <2>1, <2>2 DEF Insert, Save, Move, Storable
<1>3. ASSUME NEW c \in Calls,
             CheckOverlap(c) \/ SaveSlot(c) \/ Release(c) \/ Unlink(c) \/ Sync(c) \/ DeleteSlot(c)
      PROVE  sessions' = sessions
  BY <1>3 DEF CheckOverlap, SaveSlot, Release, Unlink, Sync, DeleteSlot, db
<1>4. ASSUME NEW c \in Calls, NEW s \in Sessions, OnSession(c, s) PROVE sessions' = sessions
  BY <1>4 DEF OnSession, Book, Confirm, Decline, Cancel, Complete, MarkNoShow, RequestCancel,
              ApproveCancel, DeclineCancel, Propose, Accept, Reject, RequestAnother, Withdraw, db
<1>5. ASSUME NEW c \in Calls, NEW k \in Slots, OnSlot(c, k) PROVE sessions' = sessions
  BY <1>5 DEF OnSlot, AddSlot, SwitchSlot, SyncWithOutlook, RemoveSlot, db
<1>6. CASE Restart \/ UNCHANGED vars
  BY <1>1, <1>6 DEF Restart, vars, db
<1> QED BY <1>1, <1>2, <1>3, <1>4, <1>5, <1>6 DEF Next, Continue

-----------------------------------------------------------------------------
(* The slots while a handler is at work *)

Placed(row) == Standing(row) \notin Released \cup {"none"}

Suits(slot, row) == slot.coach = CoachOf[row.cycle] /\ slot.time = row.at

\* Every session refers to a slot of its coach at its time.
AllDwell ==
  \A s \in Sessions : sessions[s] # Vacant =>
    sessions[s].slot \in Slots /\ Suits(slots[sessions[s].slot], sessions[s])

Occupied(j) == \E s \in Sessions : Holds(sessions[s], j)

Marked(j) == (slots[j].booked <=> Occupied(j)) /\ (Occupied(j) => slots[j].active)

MarkedBut(odd) == \A j \in Slots \ odd : Marked(j)

SamePlace(old, row) == row.slot = old.slot /\ row.at = old.at /\ row.cycle = old.cycle

\* The session stays where it is: its save may succeed or fail.
Stays(k) ==
  /\ sessions[k.id] # Vacant /\ SamePlace(sessions[k.id], k.row)
  /\ Placed(k.row) <=> Placed(sessions[k.id])

\* The session gives its slot up: nothing can refuse its save.
Leaves(k) ==
  /\ sessions[k.id] # Vacant /\ SamePlace(sessions[k.id], k.row)
  /\ Placed(sessions[k.id]) /\ ~Placed(k.row) /\ ~Active(k.row) /\ k.old = k.row.slot

\* The session is booked in a slot that nobody holds.
Comes(k) == sessions[k.id] = Vacant /\ k.row.slot = k.slot /\ Placed(k.row) /\ ~Occupied(k.slot)

\* The session moves to a slot that nobody refers to.
Changes(k) ==
  /\ k.row.slot = k.slot /\ Placed(k.row) /\ \A s \in Sessions : sessions[s].slot # k.slot
  /\ Active(sessions[k.id]) /\ k.old = sessions[k.id].slot

\* The slot to be saved, or saved, for the session.
Reserves(slot, row) == Suits(slot, row) /\ slot.booked /\ slot.active

SameSlot(old, slot) == slot.coach = old.coach /\ slot.time = old.time

\* A slot is saved as marked as it was.
Edits(k) ==
  /\ k.entity.coach # NoCoach /\ (k.entity.booked <=> slots[k.slot].booked)
  /\ k.entity.booked => k.entity.active
  /\ Exists(k.slot) => SameSlot(slots[k.slot], k.entity)

OnHand(k) ==
  \/ /\ k.todo \in {ToBook, ToTake} /\ Comes(k) /\ Reserves(k.entity, k.row)
     /\ Exists(k.slot) => SameSlot(slots[k.slot], k.entity)
     /\ k.todo = ToTake => ~ViolatesIndex(k.id, k.row)
     /\ MarkedBut({})
  \/ /\ k.todo = ToInsert /\ Comes(k) /\ Reserves(slots[k.slot], k.row)
     /\ ~ViolatesIndex(k.id, k.row) /\ MarkedBut({k.slot})
  \/ /\ k.todo \in {ToMoveFirst, ToMoveLinkedFirst} /\ Changes(k)
     /\ Reserves(k.entity, k.row) /\ MarkedBut({})
  \/ /\ k.todo \in {ToMove, ToMoveLinked} /\ Changes(k)
     /\ Reserves(slots[k.slot], k.row) /\ MarkedBut({k.slot})
  \/ /\ k.todo \in {ToFree, ToFreeLinked} /\ Stays(k)
     /\ k.old \in Slots /\ ~Occupied(k.old) /\ MarkedBut({k.old})
  \/ k.todo \in {ToUnlink, ToRelease} /\ Leaves(k) /\ MarkedBut({})
  \/ k.todo = ToSave /\ Leaves(k) /\ ~slots[k.old].booked /\ MarkedBut({k.old})
  \/ k.todo \in {ToSave, ToConfirm, ToSync, ToDrop} /\ Stays(k) /\ MarkedBut({})

OffHand(k) ==
  \/ k.todo = <<>>
  \/ k.todo = <<"saveSlot">> /\ k.slot \in Slots /\ Edits(k) /\ MarkedBut({})
  \/ k.todo = <<"deleteSlot">> /\ k.slot \in Slots /\ ~slots[k.slot].booked /\ MarkedBut({})

InPlace(k) ==
  IF k.id \in Sessions THEN k.row.slot \in Slots /\ OnHand(k) ELSE OffHand(k)

\* The inductive invariant.
Slotted ==
  /\ AllDwell
  /\ Quiet => MarkedBut({})
  /\ \A c \in Calls : InPlace(call[c])

-----------------------------------------------------------------------------

\* Where a handler is, by what it does next.
LEMMA AtStep ==
  ASSUME Slotted, NEW c \in Calls
  PROVE  LET todo == call[c].todo
             held == call[c].id \in Sessions IN
         /\ Doing(c, "overlap") => held /\ todo = ToBook
         /\ Doing(c, "insert") => held /\ todo = ToInsert
         /\ Doing(c, "save") => held /\ todo \in {ToSave, ToConfirm}
         /\ Doing(c, "release") => held /\ todo \in {ToRelease, ToFree, ToFreeLinked}
         /\ Doing(c, "unlink") => held /\ todo \in {ToUnlink, ToDrop}
         /\ Doing(c, "sync") => held /\ todo = ToSync
         /\ Doing(c, "move") => held /\ todo \in {ToMove, ToMoveLinked}
         /\ Doing(c, "saveSlot") =>
              \/ ~held /\ todo = <<"saveSlot">>
              \/ held /\ todo \in {ToTake, ToMoveFirst, ToMoveLinkedFirst}
         /\ Doing(c, "deleteSlot") => ~held /\ todo = <<"deleteSlot">>
<1>1. InPlace(call[c])
  BY DEF Slotted
<1>2. CASE call[c].id \in Sessions
  <2>1. call[c].todo \in {ToBook, ToTake, ToInsert, ToSave, ToRelease, ToUnlink, ToConfirm,
                          ToSync, ToFree, ToMove, ToMoveFirst, ToDrop, ToFreeLinked,
                          ToMoveLinked, ToMoveLinkedFirst}
    BY <1>1, <1>2 DEF InPlace, OnHand
  <2> QED BY <1>2, <2>1, Lists DEF Doing
<1>3. CASE call[c].id \notin Sessions
  <2>1. call[c].todo \in {<<>>, <<"saveSlot">>, <<"deleteSlot">>}
    BY <1>1, <1>3 DEF InPlace, OffHand
  <2>2. Head(<<"saveSlot">>) = "saveSlot" /\ Head(<<"deleteSlot">>) = "deleteSlot"
    OBVIOUS
  <2> QED BY <1>3, <2>1, <2>2 DEF Doing
<1> QED BY <1>2, <1>3

\* A free handler leaves every slot marked as it should be.
LEMMA AtRest ==
  ASSUME OneAtATime, Slotted, NEW c \in Calls, Free(c)
  PROVE  MarkedBut({})
  BY DEF OneAtATime, Slotted, Quiet

LEMMA SlottedNext ==
  ASSUME OneAtATime, NEW c \in Calls, AllDwell', InPlace(call[c])', ~Free(c)'
  PROVE  Slotted'
<1>1. ~Quiet'
  BY DEF Quiet
<1> QED BY <1>1 DEF OneAtATime, Slotted

LEMMA SlottedReturns ==
  ASSUME OneAtATime, IInv, NEW c \in Calls, Return(c), AllDwell', MarkedBut({})'
  PROVE  Slotted'
<1>1. call'[c].todo = <<>> /\ call'[c].id \notin Sessions
  BY ReturnTakes, IdleHolds
<1>2. InPlace(call[c])'
  BY <1>1 DEF InPlace, OffHand
<1> QED BY <1>2 DEF OneAtATime, Slotted

\* A session that is stored has a slot that exists.
LEMMA Dwelling ==
  ASSUME IInv, AllDwell, NEW s \in Sessions, sessions[s] # Vacant
  PROVE  /\ Good(sessions[s]) /\ sessions[s].slot \in Slots
         /\ Suits(slots[sessions[s].slot], sessions[s]) /\ Exists(sessions[s].slot)
<1>1. Good(sessions[s])
  BY DEF IInv, RowsOK, Stored
<1>2. CoachOf[sessions[s].cycle] # NoCoach
  BY <1>1, SessionsAssumption DEF Good
<1> QED BY <1>1, <1>2 DEF AllDwell, Suits, Exists

LEMMA PlacedIsThere ==
  ASSUME IInv, NEW s \in Sessions
  PROVE  /\ Placed(sessions[s]) => Active(sessions[s])
         /\ Active(sessions[s]) => sessions[s] # Vacant
<1>1. ~Active(Vacant) /\ Standing(Vacant) = "none"
  BY DEF Active, Vacant, Standing, HasProposal
<1>2. ASSUME Placed(sessions[s]) PROVE Active(sessions[s])
  <2>1. CASE HasProposal(sessions[s])
    BY <2>1 DEF HasProposal, Active, Released
  <2>2. CASE ~HasProposal(sessions[s])
    BY <1>2, <2>2 DEF Placed, Standing, Active
  <2> QED BY <2>1, <2>2
<1> QED BY <1>1, <1>2

\* Two live sessions never share a slot: they would start together.
LEMMA OneHolder ==
  ASSUME IInv, Indexed, AllDwell, NEW s \in Sessions, NEW o \in Sessions,
         Active(sessions[s]), Active(sessions[o]), sessions[s].slot = sessions[o].slot
  PROVE  s = o
<1>1. /\ sessions[s].at = sessions[o].at
      /\ CoachOf[sessions[s].cycle] = CoachOf[sessions[o].cycle]
  BY PlacedIsThere, Dwelling DEF Suits
<1> QED BY <1>1 DEF Indexed, ViolatesIndex

LEMMA VacantOut == Vacant.slot \notin Slots
  BY SlotsAssumption DEF Vacant

\* Nobody holds a slot that does not exist.
LEMMA NoneThere ==
  ASSUME IInv, AllDwell, NEW j \in Slots, ~Exists(j)
  PROVE  ~Occupied(j) /\ \A s \in Sessions : sessions[s].slot # j
<1>1. \A s \in Sessions : sessions[s].slot # j
  <2>1. Vacant.slot = NoSlot
    BY DEF Vacant
  <2> QED BY <2>1, Dwelling, SlotsAssumption
<1> QED BY <1>1 DEF Occupied, Holds

\* A step that leaves the tables leaves all that is said of them.
LEMMA SameRows ==
  ASSUME sessions' = sessions, slots' = slots
  PROVE  /\ AllDwell => AllDwell'
         /\ \A odd : MarkedBut(odd) => MarkedBut(odd)'
  BY DEF AllDwell, Suits, MarkedBut, Marked, Occupied, Holds

-----------------------------------------------------------------------------
(* The awaits: booking *)

LEMMA HandRow ==
  ASSUME IInv, NEW c \in Calls, Placed(call[c].row), ~Doing(c, "unlink")
  PROVE  Good(call[c].row)
<1>1. Stored(call[c].row)
  BY DEF IInv, CallsOK, CallOK, Doing
<1>2. ~Placed(Vacant)
  BY DEF Placed, Vacant, Standing, HasProposal
<1> QED BY <1>1, <1>2 DEF Stored

LEMMA NoClashNoTwin ==
  ASSUME IInv, NEW id \in Sessions, NEW row, row.at \in Times,
         ~Clash(id, row.cycle, row.at, Released)
  PROVE  ~ViolatesIndex(id, row)
<1> SUFFICES ASSUME NEW o \in Sessions \ {id}, Active(sessions[o]),
                    CoachOf[sessions[o].cycle] = CoachOf[row.cycle],
                    sessions[o].at.start = row.at.start
             PROVE  FALSE
  BY DEF ViolatesIndex
<1>1. sessions[o].at \in Times
  BY PlacedIsThere DEF IInv, RowsOK, Stored, Good
<1>2. Overlap(sessions[o].at, row.at)
  BY <1>1, TimesAssumption DEF Overlap
<1>3. SameParty(row.cycle, sessions[o].cycle)
  BY DEF SameParty
<1> QED BY <1>2, <1>3 DEF Clash, Active

LEMMA CheckOverlapSlotted ==
  ASSUME OneAtATime, IInv, Indexed, Slotted, NEW c \in Calls, CheckOverlap(c)
  PROVE  Slotted'
<1> DEFINE k == call[c]
           next == call'[c]
<1>1. k.id \in Sessions /\ k.todo = ToBook /\ k.row.slot \in Slots /\ OnHand(k)
  BY AtStep DEF CheckOverlap, Slotted, InPlace
<1>2. /\ Comes(k) /\ Reserves(k.entity, k.row) /\ MarkedBut({})
      /\ Exists(k.slot) => SameSlot(slots[k.slot], k.entity)
  BY <1>1, Lists DEF OnHand
<1>3. sessions' = sessions /\ slots' = slots
  BY DEF CheckOverlap, db
<1>4. AllDwell' /\ MarkedBut({})'
  BY <1>2, <1>3, SameRows DEF Slotted
<1>5. CASE Return(c)
  BY <1>4, <1>5, SlottedReturns
<1>6. CASE Advance(c) /\ ~Clash(k.id, k.row.cycle, k.row.at, Released)
  <2>1. /\ next.todo = ToTake /\ next.id = k.id /\ next.row = k.row
        /\ next.slot = k.slot /\ next.entity = k.entity
    BY <1>1, <1>6, AdvanceTakes, Lists
  <2>2. Good(k.row)
    BY <1>1, <1>2, HandRow, Lists DEF Comes, Doing
  <2>3. ~ViolatesIndex(k.id, k.row)
    BY <1>1, <1>6, <2>2, NoClashNoTwin DEF Good
  <2>4. /\ Comes(k)' /\ Reserves(k.entity, k.row)' /\ ~ViolatesIndex(k.id, k.row)'
        /\ (Exists(k.slot) => SameSlot(slots[k.slot], k.entity))'
    BY <1>2, <1>3, <2>1, <2>3
       DEF Comes, Occupied, Holds, Reserves, Suits, ViolatesIndex, SameSlot, Exists
  <2>5. OnHand(k)'
    BY <1>4, <2>1, <2>4 DEF OnHand
  <2>6. InPlace(call[c])' /\ ~Free(c)'
    BY <1>1, <2>1, <2>5, Lists DEF InPlace, Free
  <2> QED BY <1>4, <2>6, SlottedNext
<1> QED BY <1>5, <1>6 DEF CheckOverlap

\* A slot is written for which every session that refers to it is as before.
LEMMA SlotWrittenDwell ==
  ASSUME IInv, AllDwell, NEW j \in Slots, NEW entity,
         Exists(j) => SameSlot(slots[j], entity),
         sessions' = sessions, slots' = [slots EXCEPT ![j] = entity]
  PROVE  /\ AllDwell' /\ slots'[j] = entity
         /\ \A i \in Slots \ {j} : slots'[i] = slots[i]
<1>1. slots'[j] = entity /\ \A i \in Slots \ {j} : slots'[i] = slots[i]
  BY DEF IInv, TypeOK
<1>2. ASSUME NEW s \in Sessions, sessions[s] # Vacant
      PROVE  sessions[s].slot \in Slots /\ Suits(slots'[sessions[s].slot], sessions[s])
  BY <1>1, <1>2, Dwelling DEF SameSlot, Suits
<1> QED BY <1>1, <1>2 DEF AllDwell, Suits

\* What is marked right stays so, where neither the slot nor its holders change.
LEMMA StillMarked ==
  ASSUME NEW j \in Slots, Marked(j), slots'[j] = slots[j], Occupied(j)' <=> Occupied(j)
  PROVE  Marked(j)'
  BY DEF Marked

LEMMA SaveSlotSlotted ==
  ASSUME OneAtATime, IInv, Indexed, Slotted, NEW c \in Calls, SaveSlot(c)
  PROVE  Slotted'
<1> DEFINE k == call[c]
           next == call'[c]
<1>1. /\ sessions' = sessions /\ slots' = [slots EXCEPT ![k.slot] = k.entity]
      /\ InPlace(k) /\ AllDwell
  BY DEF SaveSlot, Slotted
<1>2. \A j \in Slots : Occupied(j)' <=> Occupied(j)
  BY <1>1 DEF Occupied, Holds
<1>3. CASE k.id \notin Sessions
  <2>1. k.todo = <<"saveSlot">>
    BY <1>3, AtStep DEF SaveSlot
  <2>2. k.slot \in Slots /\ Edits(k) /\ MarkedBut({})
    <3>1. <<"saveSlot">> # <<>> /\ <<"saveSlot">> # <<"deleteSlot">>
      OBVIOUS
    <3> QED BY <1>1, <1>3, <2>1, <3>1 DEF InPlace, OffHand
  <2>3. /\ AllDwell' /\ slots'[k.slot] = k.entity
        /\ \A i \in Slots \ {k.slot} : slots'[i] = slots[i]
    BY <1>1, <2>2, SlotWrittenDwell DEF Edits
  <2>4. ASSUME NEW j \in Slots PROVE Marked(j)'
    <3>1. CASE j = k.slot
      BY <1>2, <2>2, <2>3, <3>1 DEF Edits, MarkedBut, Marked
    <3>2. CASE j # k.slot
      BY <1>2, <2>2, <2>3, <3>2, StillMarked DEF MarkedBut
    <3> QED BY <3>1, <3>2
  <2>5. MarkedBut({})'
    BY <2>4 DEF MarkedBut
  <2>6. Return(c)
    <3>1. Tail(<<"saveSlot">>) = <<>>
      OBVIOUS
    <3> QED BY <2>1, <3>1 DEF SaveSlot, Advance, Resume, Return
  <2> QED BY <2>3, <2>5, <2>6, SlottedReturns
<1>4. CASE k.id \in Sessions
  <2>1. k.todo \in {ToTake, ToMoveFirst, ToMoveLinkedFirst} /\ k.row.slot \in Slots
    BY <1>1, <1>4, AtStep DEF SaveSlot, InPlace
  <2>2. /\ next.todo = Tail(k.todo) /\ next.id = k.id /\ next.row = k.row
        /\ next.slot = k.slot /\ next.old = k.old /\ next.todo # <<>>
    BY <2>1, AdvanceTakes, Lists DEF SaveSlot
  <2>3. /\ MarkedBut({}) /\ Reserves(k.entity, k.row)
        /\ \/ /\ k.todo = ToTake /\ Comes(k) /\ ~ViolatesIndex(k.id, k.row)
              /\ Exists(k.slot) => SameSlot(slots[k.slot], k.entity)
           \/ k.todo \in {ToMoveFirst, ToMoveLinkedFirst} /\ Changes(k)
    BY <1>1, <1>4, <2>1, Lists DEF InPlace, OnHand
  <2>4. k.slot \in Slots
    BY <2>1, <2>3 DEF Comes, Changes
  <2>5. /\ slots'[k.slot] = k.entity
        /\ \A i \in Slots \ {k.slot} : slots'[i] = slots[i]
    BY <1>1, <2>4 DEF IInv, TypeOK
  <2>6. AllDwell'
    <3>1. CASE Exists(k.slot) => SameSlot(slots[k.slot], k.entity)
      BY <1>1, <2>4, <3>1, SlotWrittenDwell
    <3>2. CASE Changes(k)
      BY <1>1, <2>5, <3>2 DEF Changes, AllDwell, Suits
    <3> QED BY <2>3, <3>1, <3>2
  <2>7. MarkedBut({k.slot})'
    BY <1>2, <2>2, <2>3, <2>5, StillMarked DEF MarkedBut
  <2>8. Reserves(slots[k.slot], k.row)'
    BY <2>2, <2>3, <2>5 DEF Reserves, Suits
  <2>9. OnHand(k)'
    <3>1. CASE k.todo = ToTake
      <4>1. Comes(k)' /\ ~ViolatesIndex(k.id, k.row)'
        <5>1. Comes(k) /\ ~ViolatesIndex(k.id, k.row)
          BY <2>3, <3>1, Lists
        <5> QED BY <1>1, <1>2, <2>2, <2>4, <5>1 DEF Comes, ViolatesIndex
      <4> QED BY <2>2, <2>7, <2>8, <3>1, <4>1, Lists DEF OnHand
    <3>2. CASE k.todo \in {ToMoveFirst, ToMoveLinkedFirst}
      <4>1. Changes(k)
        BY <2>3, <3>2, Lists
      <4>2. Changes(k)'
        BY <1>1, <2>2, <4>1 DEF Changes
      <4> QED BY <2>2, <2>7, <2>8, <3>2, <4>2, Lists DEF OnHand
    <3> QED BY <2>1, <3>1, <3>2
  <2>10. InPlace(call[c])' /\ ~Free(c)'
    BY <1>4, <2>1, <2>2, <2>9 DEF InPlace, Free
  <2> QED BY <2>6, <2>10, SlottedNext
<1> QED BY <1>3, <1>4

\* A row is written: the session now holds what the row says.
LEMMA RowWritten ==
  ASSUME IInv, NEW id \in Sessions, NEW row,
         sessions' = [sessions EXCEPT ![id] = row]
  PROVE  /\ sessions'[id] = row
         /\ \A s \in Sessions \ {id} : sessions'[s] = sessions[s]
         /\ \A j \in Slots : j \notin {row.slot, sessions[id].slot} =>
              (Occupied(j)' <=> Occupied(j))
         /\ Placed(row) => \A j \in Slots : j = row.slot => Occupied(j)'
<1>1. /\ sessions'[id] = row
      /\ \A s \in Sessions \ {id} : sessions'[s] = sessions[s]
  BY DEF IInv, TypeOK
<1>2. ASSUME NEW j \in Slots, j \notin {row.slot, sessions[id].slot}
      PROVE  Occupied(j)' <=> Occupied(j)
  BY <1>1, <1>2 DEF Occupied, Holds
<1>3. ASSUME Placed(row), NEW j \in Slots, j = row.slot PROVE Occupied(j)'
  BY <1>1, <1>3 DEF Occupied, Holds, Placed
<1> QED BY <1>1, <1>2, <1>3

\* The row that is written suits its slot.
LEMMA RowWrittenDwells ==
  ASSUME IInv, AllDwell, NEW id \in Sessions, NEW row,
         row.slot \in Slots, Suits(slots[row.slot], row),
         sessions' = [sessions EXCEPT ![id] = row], slots' = slots
  PROVE  AllDwell'
<1>1. /\ sessions'[id] = row
      /\ \A s \in Sessions \ {id} : sessions'[s] = sessions[s]
  BY RowWritten
<1> QED BY <1>1 DEF AllDwell, Suits

LEMMA InsertSlotted ==
  ASSUME OneAtATime, IInv, Indexed, Slotted, NEW c \in Calls, Insert(c)
  PROVE  Slotted'
<1> DEFINE k == call[c]
<1>1. k.id \in Sessions /\ k.todo = ToInsert /\ k.row.slot \in Slots /\ OnHand(k)
  BY AtStep DEF Insert, Slotted, InPlace
<1>2. /\ Comes(k) /\ Reserves(slots[k.slot], k.row) /\ MarkedBut({k.slot})
      /\ ~ViolatesIndex(k.id, k.row)
  BY <1>1, Lists DEF OnHand
<1>3. Good(k.row)
  BY <1>1, <1>2, HandRow, Lists DEF Comes, Doing
<1>4. Storable(k.id, k.row)
  BY <1>2, <1>3, SessionsAssumption DEF Storable, Exists, Comes, Reserves, Suits, Good
<1>5. sessions' = [sessions EXCEPT ![k.id] = k.row] /\ slots' = slots /\ Return(c)
  BY <1>4 DEF Insert
<1>6. AllDwell'
  BY <1>1, <1>2, <1>5, RowWrittenDwells DEF Slotted, Comes, Reserves
<1>7. sessions[k.id].slot \notin Slots
  BY <1>2, SlotsAssumption DEF Comes, Vacant
<1>8. ASSUME NEW j \in Slots PROVE Marked(j)'
  <2>1. CASE j = k.slot
    <3>1. j = k.row.slot /\ Placed(k.row)
      BY <1>2, <2>1 DEF Comes
    <3> HIDE DEF k
    <3>2. Occupied(j)'
      BY <1>1, <1>5, <3>1, RowWritten
    <3> QED BY <1>2, <1>5, <2>1, <3>2 DEF Marked, Reserves
  <2>2. CASE j # k.slot
    <3>1. j \notin {k.row.slot, sessions[k.id].slot} /\ Marked(j)
      BY <1>2, <1>7, <2>2 DEF Comes, MarkedBut
    <3> HIDE DEF k
    <3>2. Occupied(j)' <=> Occupied(j)
      BY <1>1, <1>5, <3>1, RowWritten
    <3> QED BY <1>5, <3>1, <3>2, StillMarked
  <2> QED BY <2>1, <2>2
<1>9. MarkedBut({})'
  BY <1>8 DEF MarkedBut
<1> QED BY <1>5, <1>6, <1>9, SlottedReturns

-----------------------------------------------------------------------------
(* The awaits: a row is saved *)

\* The session stays in its slot, or stays out of it.
LEMMA StayedMarks ==
  ASSUME IInv, NEW id \in Sessions, NEW row,
         row.slot = sessions[id].slot, Placed(row) <=> Placed(sessions[id]),
         sessions' = [sessions EXCEPT ![id] = row]
  PROVE  \A j \in Slots : Occupied(j)' <=> Occupied(j)
<1>1. /\ sessions'[id] = row
      /\ \A s \in Sessions \ {id} : sessions'[s] = sessions[s]
  BY RowWritten
<1>2. \A s \in Sessions, j \in Slots : Holds(sessions'[s], j) <=> Holds(sessions[s], j)
  BY <1>1 DEF Holds, Placed
<1> QED BY <1>2 DEF Occupied, Holds

\* A live session gives up its slot: nobody else was in it.
LEMMA Freed ==
  ASSUME IInv, Indexed, AllDwell, NEW id \in Sessions, NEW row, NEW old \in Slots,
         Active(sessions[id]), old = sessions[id].slot,
         ~(Placed(row) /\ row.slot = old),
         sessions' = [sessions EXCEPT ![id] = row]
  PROVE  ~Occupied(old)'
<1>1. /\ sessions'[id] = row
      /\ \A s \in Sessions \ {id} : sessions'[s] = sessions[s]
  BY RowWritten
<1>2. ASSUME NEW s \in Sessions, Holds(sessions'[s], old) PROVE FALSE
  <2>1. CASE s = id
    BY <1>1, <1>2, <2>1 DEF Holds, Placed
  <2>2. CASE s # id
    <3>1. sessions[s].slot = old /\ Placed(sessions[s])
      BY <1>1, <1>2, <2>2 DEF Holds, Placed
    <3> QED BY <2>2, <3>1, OneHolder, PlacedIsThere
  <2> QED BY <2>1, <2>2
<1> QED BY <1>2 DEF Occupied, Holds

LEMMA MarksStay ==
  ASSUME NEW odd, MarkedBut(odd), \A j \in Slots \ odd : slots'[j] = slots[j],
         \A j \in Slots \ odd : Occupied(j)' <=> Occupied(j)
  PROVE  MarkedBut(odd)'
  BY DEF MarkedBut, Marked

LEMMA SaveStays ==
  ASSUME OneAtATime, IInv, Slotted, NEW c \in Calls, Save(c),
         NEW id \in Sessions, NEW row, call[c].id = id, call[c].row = row,
         row.slot \in Slots, call[c].todo \in {ToSave, ToConfirm},
         Stays(call[c]), MarkedBut({})
  PROVE  Slotted'
<1> DEFINE next == call'[c]
<1>1. slots' = slots
  BY DEF Save
<1>2. CASE ~Storable(id, row)
  <2>1. sessions' = sessions /\ Return(c)
    BY <1>2 DEF Save
  <2> QED BY <1>1, <2>1, SameRows, SlottedReturns DEF Slotted
<1>3. CASE Storable(id, row)
  <2>1. sessions' = [sessions EXCEPT ![id] = row] /\ Advance(c)
    BY <1>3 DEF Save
  <2>2. /\ sessions[id] # Vacant /\ SamePlace(sessions[id], row)
        /\ Placed(row) <=> Placed(sessions[id])
    BY DEF Stays
  <2>4. Suits(slots[row.slot], row)
    BY <2>2, Dwelling DEF SamePlace, Suits, Slotted
  <2>5. AllDwell'
    BY <1>1, <2>1, <2>4, RowWrittenDwells DEF Slotted
  <2>6. \A j \in Slots : Occupied(j)' <=> Occupied(j)
    BY <2>1, <2>2, StayedMarks DEF SamePlace
  <2>7. MarkedBut({})'
    BY <1>1, <2>6, MarksStay
  <2>8. CASE call[c].todo = ToSave
    <3>1. Return(c)
      BY <2>1, <2>8, Lists DEF Advance, Resume, Return
    <3> QED BY <2>5, <2>7, <3>1, SlottedReturns
  <2>9. CASE call[c].todo = ToConfirm
    <3>1. next.todo = ToSync /\ next.id = id /\ next.row = row
      BY <2>1, <2>9, AdvanceTakes, Lists
    <3>2. sessions'[id] = row
      BY <2>1 DEF IInv, TypeOK
    <3>3. row # Vacant
      BY VacantOut
    <3>4. Stays(call[c])'
      BY <3>1, <3>2, <3>3 DEF Stays, SamePlace
    <3>5. InPlace(call[c])' /\ ~Free(c)'
      BY <2>7, <3>1, <3>4, Lists DEF InPlace, OnHand, Free
    <3> QED BY <2>5, <3>5, SlottedNext
  <2> QED BY <2>8, <2>9
<1> QED BY <1>2, <1>3

LEMMA SaveLeaves ==
  ASSUME OneAtATime, IInv, Indexed, Slotted, NEW c \in Calls, Save(c),
         NEW id \in Sessions, NEW row, NEW old \in Slots,
         call[c].id = id, call[c].row = row, call[c].old = old,
         call[c].todo = ToSave, Leaves(call[c]), ~slots[old].booked, MarkedBut({old})
  PROVE  Slotted'
<1>1. /\ sessions[id] # Vacant /\ SamePlace(sessions[id], row)
      /\ Placed(sessions[id]) /\ ~Placed(row) /\ ~Active(row) /\ old = row.slot
  BY DEF Leaves
<1>2. slots' = slots
  BY DEF Save
<1>3. Suits(slots[row.slot], row) /\ Exists(row.slot)
  BY <1>1, Dwelling DEF SamePlace, Suits, Slotted
<1>4. Storable(id, row)
  BY <1>1, <1>3 DEF Storable, ViolatesIndex
<1>5. sessions' = [sessions EXCEPT ![id] = row] /\ Return(c)
  BY <1>4, Lists DEF Save, Advance, Resume, Return
<1>6. old = sessions[id].slot /\ row.slot \in Slots
  BY <1>1 DEF SamePlace
<1>7. AllDwell'
  BY <1>2, <1>3, <1>5, <1>6, RowWrittenDwells DEF Slotted
<1>8. ~Occupied(old)'
  BY <1>1, <1>5, <1>6, Freed, PlacedIsThere DEF Slotted
<1>9. \A j \in Slots \ {old} : Occupied(j)' <=> Occupied(j)
  BY <1>1, <1>5, <1>6, RowWritten
<1>10. MarkedBut({old})'
  BY <1>2, <1>9, MarksStay
<1>11. Marked(old)'
  BY <1>2, <1>8 DEF Marked
<1>12. MarkedBut({})'
  BY <1>10, <1>11 DEF MarkedBut
<1> QED BY <1>5, <1>7, <1>12, SlottedReturns

LEMMA SaveSlotted ==
  ASSUME OneAtATime, IInv, Indexed, Slotted, NEW c \in Calls, Save(c)
  PROVE  Slotted'
<1> DEFINE k == call[c]
<1>1. /\ k.id \in Sessions /\ k.todo \in {ToSave, ToConfirm}
      /\ k.row.slot \in Slots /\ OnHand(k)
  BY AtStep DEF Save, Slotted, InPlace
<1>2. \/ Stays(k) /\ MarkedBut({})
      \/ /\ k.todo = ToSave /\ Leaves(k) /\ ~slots[k.old].booked
         /\ MarkedBut({k.old})
  BY <1>1, Lists DEF OnHand
<1>3. Leaves(k) => k.old \in Slots
  BY <1>1 DEF Leaves
<1> QED BY <1>1, <1>2, <1>3, SaveStays, SaveLeaves

\* The session moves to its new slot; the old one is still marked.
LEMMA MoveStored ==
  ASSUME OneAtATime, IInv, Indexed, Slotted, NEW c \in Calls, Move(c),
         NEW id \in Sessions, NEW row, NEW j \in Slots, NEW old,
         call[c].id = id, call[c].row = row, call[c].slot = j, call[c].old = old,
         row.slot = j, call[c].todo \in {ToMove, ToMoveLinked}, Changes(call[c]),
         Reserves(slots[j], row), MarkedBut({j}), ~ViolatesIndex(id, row)
  PROVE  Slotted'
<1> DEFINE next == call'[c]
<1>1. /\ sessions' = [sessions EXCEPT ![id] = row] /\ slots' = slots /\ Advance(c)
  BY DEF Move
<1>2. /\ Placed(row) /\ \A s \in Sessions : sessions[s].slot # j
      /\ Active(sessions[id]) /\ old = sessions[id].slot
  BY DEF Changes
<1>3. /\ next.todo \in {ToFree, ToFreeLinked} /\ next.id = id /\ next.row = row
      /\ next.old = old
  BY <1>1, AdvanceTakes, Lists
<1>4. old \in Slots /\ old # j
  BY <1>2, PlacedIsThere, Dwelling DEF Slotted
<1>5. AllDwell'
  BY <1>1, RowWrittenDwells DEF Slotted, Reserves
<1>6. ~Occupied(old)'
  BY <1>1, <1>2, <1>4, Freed DEF Slotted
<1>7. ASSUME NEW i \in Slots \ {old, j} PROVE Occupied(i)' <=> Occupied(i)
  <2>1. i \notin {row.slot, sessions[id].slot}
    BY <1>2
  <2> QED BY <1>1, <2>1, RowWritten
<1>8. Occupied(j)'
  BY <1>1, <1>2, RowWritten
<1>9. ASSUME NEW i \in Slots \ {old} PROVE Marked(i)'
  <2>1. CASE i = j
    BY <1>1, <1>8, <2>1 DEF Marked, Reserves
  <2>2. CASE i # j
    BY <1>1, <1>7, <2>2, StillMarked DEF MarkedBut
  <2> QED BY <2>1, <2>2
<1>10. MarkedBut({old})'
  BY <1>9 DEF MarkedBut
<1>11. sessions'[id] = row
  BY <1>1, RowWritten
<1>12. row # Vacant
  BY VacantOut
<1>13. Stays(call[c])'
  BY <1>3, <1>11, <1>12 DEF Stays, SamePlace
<1>14. OnHand(call[c])'
  BY <1>3, <1>4, <1>6, <1>10, <1>13 DEF OnHand, Occupied, MarkedBut
<1>15. InPlace(call[c])' /\ ~Free(c)'
  BY <1>3, <1>14, Lists DEF InPlace, Free
<1> QED BY <1>5, <1>15, SlottedNext

\* The session cannot move: its new slot is deleted, and nobody refers to it.
LEMMA MoveFails ==
  ASSUME OneAtATime, IInv, Slotted, NEW c \in Calls, NEW j \in Slots, Return(c),
         sessions' = sessions, slots' = [slots EXCEPT ![j] = NoEntity],
         \A s \in Sessions : sessions[s].slot # j, MarkedBut({j})
  PROVE  Slotted'
<1>1. slots'[j] = NoEntity /\ \A i \in Slots \ {j} : slots'[i] = slots[i]
  BY DEF IInv, TypeOK
<1>2. AllDwell'
  BY <1>1 DEF Slotted, AllDwell, Suits
<1>3. \A i \in Slots : Occupied(i)' <=> Occupied(i)
  BY DEF Occupied, Holds
<1>4. MarkedBut({j})'
  BY <1>1, <1>3, MarksStay
<1>5. ~Occupied(j)
  BY DEF Occupied, Holds
<1>6. Marked(j)'
  BY <1>1, <1>3, <1>5 DEF Marked, NoEntity
<1>7. MarkedBut({})'
  BY <1>4, <1>6 DEF MarkedBut
<1> QED BY <1>2, <1>7, SlottedReturns

LEMMA MoveSlotted ==
  ASSUME OneAtATime, IInv, Indexed, Slotted, NEW c \in Calls, Move(c)
  PROVE  Slotted'
<1> DEFINE k == call[c]
<1>1. /\ k.id \in Sessions /\ k.todo \in {ToMove, ToMoveLinked}
      /\ k.row.slot \in Slots /\ OnHand(k)
  BY AtStep DEF Move, Slotted, InPlace
<1>2. Changes(k) /\ Reserves(slots[k.slot], k.row) /\ MarkedBut({k.slot})
  BY <1>1, Lists DEF OnHand
<1>3. k.row.slot = k.slot /\ \A s \in Sessions : sessions[s].slot # k.slot
  BY <1>2 DEF Changes
<1>4. CASE ViolatesIndex(k.id, k.row)
  <2>1. /\ slots' = [slots EXCEPT ![k.slot] = NoEntity] /\ Return(c)
        /\ sessions' = sessions
    BY <1>4 DEF Move
  <2> QED BY <1>1, <1>2, <1>3, <2>1, MoveFails
<1>5. CASE ~ViolatesIndex(k.id, k.row)
  BY <1>1, <1>2, <1>3, <1>5, MoveStored
<1> QED BY <1>4, <1>5

-----------------------------------------------------------------------------
(* The awaits: a slot is released, the calendar is changed *)

LEMMA StaysSame ==
  ASSUME NEW c \in Calls, Stays(call[c]), sessions' = sessions,
         call'[c].id = call[c].id, Alike(call[c].row, call'[c].row),
         call'[c].row.slot = call[c].row.slot
  PROVE  Stays(call[c])'
<1>1. Placed(call'[c].row) <=> Placed(call[c].row)
  BY AlikeLooks DEF Placed
<1> QED BY <1>1 DEF Stays, SamePlace, Placed, Alike

LEMMA LeavesSame ==
  ASSUME NEW c \in Calls, Leaves(call[c]), sessions' = sessions,
         call'[c].id = call[c].id, call'[c].old = call[c].old,
         Alike(call[c].row, call'[c].row), call'[c].row.slot = call[c].row.slot
  PROVE  Leaves(call[c])'
<1>1. /\ Placed(call'[c].row) <=> Placed(call[c].row)
      /\ Active(call'[c].row) <=> Active(call[c].row)
  BY AlikeLooks DEF Placed
<1> QED BY <1>1 DEF Leaves, SamePlace, Placed, Active, Alike

\* Only the mark of the slot is changed.
LEMMA SlotReleased ==
  ASSUME IInv, AllDwell, NEW old \in Slots, sessions' = sessions,
         slots' = [slots EXCEPT ![old].booked = FALSE]
  PROVE  /\ AllDwell' /\ ~slots'[old].booked
         /\ \A j \in Slots \ {old} : slots'[j] = slots[j]
<1> DEFINE new == [slots[old] EXCEPT !.booked = FALSE]
<1>1. slots[old] \in Slot
  BY DEF IInv, TypeOK
<1>2. ~new.booked /\ SameSlot(slots[old], new)
  BY <1>1 DEF Slot, SameSlot
<1>3. slots' = [slots EXCEPT ![old] = new]
  BY DEF IInv, TypeOK
<1> HIDE DEF new
<1>4. /\ AllDwell' /\ slots'[old] = new
      /\ \A j \in Slots \ {old} : slots'[j] = slots[j]
  BY <1>2, <1>3, SlotWrittenDwell
<1> QED BY <1>2, <1>4

LEMMA ReleaseSlotted ==
  ASSUME OneAtATime, IInv, Indexed, Slotted, NEW c \in Calls, Release(c)
  PROVE  Slotted'
<1> DEFINE k == call[c]
           next == call'[c]
<1>1. /\ k.id \in Sessions /\ k.todo \in {ToRelease, ToFree, ToFreeLinked}
      /\ k.row.slot \in Slots /\ OnHand(k)
  BY AtStep DEF Release, Slotted, InPlace
<1>2. /\ sessions' = sessions /\ slots' = [slots EXCEPT ![k.old].booked = FALSE]
      /\ Advance(c)
  BY DEF Release
<1>3. /\ next.todo = Tail(k.todo) /\ next.id = k.id /\ next.row = k.row /\ next.old = k.old
      /\ next.todo \in {ToSave, ToSync, ToDrop}
  BY <1>1, <1>2, AdvanceTakes, Lists
<1>4. Alike(k.row, next.row)
  BY <1>3 DEF Alike
<1>5. \A j \in Slots : Occupied(j)' <=> Occupied(j)
  BY <1>2 DEF Occupied, Holds
<1>6. CASE k.todo = ToRelease
  <2>1. Leaves(k) /\ MarkedBut({})
    BY <1>1, <1>6, Lists DEF OnHand
  <2>2. k.old \in Slots
    BY <1>1, <2>1 DEF Leaves
  <2>3. PICK old \in Slots : old = k.old
    BY <2>2
  <2>4. /\ AllDwell' /\ ~slots'[old].booked
        /\ \A j \in Slots \ {old} : slots'[j] = slots[j]
    BY <1>2, <2>3, SlotReleased DEF Slotted
  <2>5. MarkedBut({old})
    BY <2>1 DEF MarkedBut
  <2>6. MarkedBut({old})'
    BY <1>5, <2>4, <2>5, MarksStay
  <2>7. Leaves(k)'
    BY <1>2, <1>3, <1>4, <2>1, LeavesSame
  <2>8. OnHand(k)'
    BY <1>3, <1>6, <2>3, <2>4, <2>6, <2>7, Lists DEF OnHand, MarkedBut
  <2>9. InPlace(call[c])' /\ ~Free(c)'
    BY <1>1, <1>3, <2>8, Lists DEF InPlace, Free
  <2> QED BY <2>4, <2>9, SlottedNext
<1>7. CASE k.todo \in {ToFree, ToFreeLinked}
  <2>1. Stays(k) /\ k.old \in Slots /\ ~Occupied(k.old) /\ MarkedBut({k.old})
    BY <1>1, <1>7, Lists DEF OnHand
  <2>2. PICK old \in Slots : old = k.old
    BY <2>1
  <2>3. /\ AllDwell' /\ ~slots'[old].booked
        /\ \A j \in Slots \ {old} : slots'[j] = slots[j]
    BY <1>2, <2>2, SlotReleased DEF Slotted
  <2>4. MarkedBut({old})'
    BY <1>5, <2>1, <2>2, <2>3, MarksStay
  <2>5. ~Occupied(old)
    BY <2>1, <2>2
  <2>6. Marked(old)'
    BY <1>5, <2>3, <2>5 DEF Marked
  <2>7. MarkedBut({})'
    BY <2>4, <2>6 DEF MarkedBut
  <2>8. Stays(k)'
    BY <1>2, <1>3, <1>4, <2>1, StaysSame
  <2>9. OnHand(k)'
    BY <1>3, <1>7, <2>7, <2>8, Lists DEF OnHand
  <2>10. InPlace(call[c])' /\ ~Free(c)'
    BY <1>1, <1>3, <2>9, Lists DEF InPlace, Free
  <2> QED BY <2>3, <2>10, SlottedNext
<1> QED BY <1>1, <1>6, <1>7

LEMMA UnlinkSlotted ==
  ASSUME OneAtATime, IInv, Indexed, Slotted, NEW c \in Calls, Unlink(c)
  PROVE  Slotted'
<1> DEFINE k == call[c]
           next == call'[c]
<1>1. /\ k.id \in Sessions /\ k.todo \in {ToUnlink, ToDrop}
      /\ k.row.slot \in Slots /\ OnHand(k)
  BY AtStep DEF Unlink, Slotted, InPlace
<1>2. sessions' = sessions /\ slots' = slots
  BY DEF Unlink
<1>3. /\ next.todo = Tail(k.todo) /\ next.id = k.id /\ Alike(k.row, next.row)
      /\ next.row.slot = k.row.slot /\ next.old = k.old
  BY <1>1, EventWritten, Lists DEF Unlink
<1>4. MarkedBut({})
  BY <1>1, Lists DEF OnHand
<1>5. AllDwell' /\ MarkedBut({})'
  BY <1>2, <1>4, SameRows DEF Slotted
<1>6. OnHand(k)' /\ next.todo # <<>>
  <2>1. CASE k.todo = ToUnlink
    <3>1. Leaves(k)
      BY <1>1, <2>1, Lists DEF OnHand
    <3>2. Leaves(k)'
      BY <1>2, <1>3, <3>1, LeavesSame
    <3> QED BY <1>3, <1>5, <2>1, <3>2, Lists DEF OnHand
  <2>2. CASE k.todo = ToDrop
    <3>1. Stays(k)
      BY <1>1, <2>2, Lists DEF OnHand
    <3>2. Stays(k)'
      BY <1>2, <1>3, <3>1, StaysSame
    <3> QED BY <1>3, <1>5, <2>2, <3>2, Lists DEF OnHand
  <2> QED BY <1>1, <2>1, <2>2
<1>7. InPlace(call[c])' /\ ~Free(c)'
  BY <1>1, <1>3, <1>6 DEF InPlace, Free
<1> QED BY <1>5, <1>7, SlottedNext

LEMMA SyncSlotted ==
  ASSUME OneAtATime, IInv, Indexed, Slotted, NEW c \in Calls, Sync(c)
  PROVE  Slotted'
<1> DEFINE k == call[c]
           next == call'[c]
<1>1. k.id \in Sessions /\ k.todo = ToSync /\ k.row.slot \in Slots /\ OnHand(k)
  BY AtStep DEF Sync, Slotted, InPlace
<1>2. sessions' = sessions /\ slots' = slots
  BY DEF Sync
<1>3. Stays(k) /\ MarkedBut({})
  BY <1>1, Lists DEF OnHand
<1>4. AllDwell' /\ MarkedBut({})'
  BY <1>2, <1>3, SameRows DEF Slotted
<1>5. CASE Return(c)
  BY <1>4, <1>5, SlottedReturns
<1>6. CASE Advance(c) \/ Resume(c, [k EXCEPT !.row.event = k.row.at])
  <2>1. k.row.at \in Times \cup {NoTime}
    BY DEF IInv, TypeOK, CallState, Row
  <2>2. /\ next.todo = ToSave /\ next.id = k.id
        /\ Alike(k.row, next.row) /\ next.row.slot = k.row.slot
    <3>1. CASE Advance(c)
      BY <1>1, <3>1, AdvanceTakes, Lists DEF Alike
    <3>2. CASE Resume(c, [k EXCEPT !.row.event = k.row.at])
      BY <1>1, <2>1, <3>2, EventWritten, Lists
    <3> QED BY <1>6, <3>1, <3>2
  <2>3. Stays(k)'
    BY <1>2, <1>3, <2>2, StaysSame
  <2>4. OnHand(k)'
    BY <1>4, <2>2, <2>3 DEF OnHand
  <2>5. InPlace(call[c])' /\ ~Free(c)'
    BY <1>1, <2>2, <2>4, Lists DEF InPlace, Free
  <2> QED BY <1>4, <2>5, SlottedNext
<1> QED BY <1>5, <1>6 DEF Sync

LEMMA DeleteSlotSlotted ==
  ASSUME OneAtATime, IInv, Indexed, Slotted, NEW c \in Calls, DeleteSlot(c)
  PROVE  Slotted'
<1> DEFINE k == call[c]
<1>1. k.id \notin Sessions /\ k.todo = <<"deleteSlot">> /\ OffHand(k)
  BY AtStep DEF DeleteSlot, Slotted, InPlace
<1>2. k.slot \in Slots /\ MarkedBut({})
  <2>1. <<"deleteSlot">> # <<>> /\ <<"deleteSlot">> # <<"saveSlot">>
    OBVIOUS
  <2> QED BY <1>1, <2>1 DEF OffHand
<1>3. sessions' = sessions /\ Return(c)
  BY DEF DeleteSlot
<1>4. CASE slots' = slots
  BY <1>2, <1>3, <1>4, SameRows, SlottedReturns DEF Slotted
<1>5. CASE /\ \A s \in Sessions : sessions[s].slot # k.slot
           /\ slots' = [slots EXCEPT ![k.slot] = NoEntity]
  <2>1. MarkedBut({k.slot})
    BY <1>2 DEF MarkedBut
  <2> QED BY <1>2, <1>3, <1>5, <2>1, MoveFails
<1> QED BY <1>4, <1>5 DEF DeleteSlot

LEMMA ContinueSlotted ==
  ASSUME OneAtATime, IInv, Indexed, Slotted, NEW c \in Calls, Continue(c)
  PROVE  Slotted'
  BY CheckOverlapSlotted, SaveSlotSlotted, InsertSlotted, SaveSlotted, MoveSlotted,
     ReleaseSlotted, UnlinkSlotted, SyncSlotted, DeleteSlotSlotted
     DEF Continue

-----------------------------------------------------------------------------
(* The handlers: what they make of a row, to its place *)

LEMMA SettledPlaced ==
  ASSUME NEW row, row.status \in Settled
  PROVE  /\ Placed(row) <=> row.status \notin Released
         /\ Active(row) <=> row.status \notin Released
<1>1. Standing(row) = row.status /\ row.status # "none"
  BY SettledView, StatusesOK DEF Settled
<1> QED BY <1>1 DEF Placed, Active

LEMMA ProposedPlaced ==
  ASSUME NEW row, Good(row), HasProposal(row)
  PROVE  /\ Placed(row) <=> row.before # "no_show"
         /\ Origin(row) = row.before /\ row.before \in Proposable
<1>1. Origin(row) = row.before /\ row.before \in Proposable
  BY AgreesProposed
<1>2. Standing(row) = row.before
  BY <1>1 DEF Standing
<1> QED BY <1>1, <1>2 DEF Placed, Released, Proposable

\* The session keeps its place, or gives it up.
Remains(old, row) == SamePlace(old, row) /\ (Placed(row) <=> Placed(old))

Vacates(old, row) == SamePlace(old, row) /\ Placed(old) /\ ~Placed(row) /\ ~Active(row)

\* A session whose status alone matters, before and after.
LEMMA RestatedPlace ==
  ASSUME NEW old, NEW row, SamePlace(old, row),
         old.status \in Settled \ Released, row.status \in Settled
  PROVE  /\ row.status \notin Released => Remains(old, row)
         /\ row.status \in Released => Vacates(old, row)
  BY SettledPlaced DEF Remains, Vacates

LEMMA AnswersPlace ==
  ASSUME NEW row, Good(row)
  PROVE  /\ AwaitsCoach(row) => Remains(row, Confirmed(row)) /\ Vacates(row, Declined(row))
         /\ CanCancel(row) => Vacates(row, Cancelled(row))
         /\ IsScheduled(row) => Remains(row, Completed(row)) /\ Vacates(row, NoShow(row))
<1> DEFINE to(status) == [row EXCEPT !.status = status]
<1>1. \A status : SamePlace(row, to(status)) /\ to(status).status = status
  BY DEF SamePlace, Good, Row
<1> HIDE DEF to
<1>2. ASSUME row.status \in {"pending_coach_approval", "scheduled"}
      PROVE  /\ \A status \in {"scheduled", "completed"} : Remains(row, to(status))
             /\ \A status \in Released : Vacates(row, to(status))
  <2>1. row.status \in Settled \ Released
    BY <1>2, StatusesOK DEF Released
  <2>2. Released \subseteq Settled /\ {"scheduled", "completed"} \subseteq Settled \ Released
    BY StatusesOK DEF Released
  <2> QED BY <1>1, <2>1, <2>2, RestatedPlace
<1> QED BY <1>2 DEF to, AwaitsCoach, CanCancel, IsScheduled, Confirmed, Declined, Cancelled,
                    Completed, NoShow, Released

LEMMA CancellationsPlace ==
  ASSUME NEW row, Good(row)
  PROVE  /\ IsScheduled(row) => \A by \in Parties : Remains(row, CancelRequested(row, by))
         /\ CanAnswerCancel(row) =>
              Vacates(row, CancelApproved(row)) /\ Remains(row, CancelDeclined(row))
<1>1. ASSUME IsScheduled(row), NEW by \in Parties PROVE Remains(row, CancelRequested(row, by))
  <2>1. row.status \in Settled \ Released
    BY <1>1, StatusesOK DEF IsScheduled, Released
  <2>2. /\ SamePlace(row, CancelRequested(row, by))
        /\ CancelRequested(row, by).status = "pending_cancellation"
    BY DEF CancelRequested, SamePlace, Good, Row
  <2>3. "pending_cancellation" \in Settled \ Released
    BY StatusesOK DEF Released
  <2> QED BY <2>1, <2>2, <2>3, RestatedPlace
<1>2. ASSUME CanAnswerCancel(row)
      PROVE  Vacates(row, CancelApproved(row)) /\ Remains(row, CancelDeclined(row))
  <2>1. row.status = "pending_cancellation" /\ row.status \in Settled \ Released
    BY <1>2, StatusesOK DEF CanAnswerCancel, Released
  <2>2. row.beforeCancel = "scheduled"
    BY <2>1, AgreesSettled
  <2>3. SamePlace(row, CancelApproved(row)) /\ CancelApproved(row).status = "cancelled"
    BY DEF CancelApproved, SamePlace, Good, Row
  <2>4. SamePlace(row, CancelDeclined(row)) /\ CancelDeclined(row).status = "scheduled"
    BY <2>2 DEF CancelDeclined, SamePlace, Good, Row
  <2>5. /\ "cancelled" \in Settled /\ "cancelled" \in Released
        /\ "scheduled" \in Settled \ Released
    BY StatusesOK DEF Released
  <2> QED BY <2>1, <2>3, <2>4, <2>5, RestatedPlace
<1> QED BY <1>1, <1>2

LEMMA ProposedPlace ==
  ASSUME NEW row, Good(row), NEW t \in Times, CanPropose(row, t)
  PROVE  Remains(row, Proposed(row, t))
<1> DEFINE new == Proposed(row, t)
<1>1. /\ SamePlace(row, new) /\ new.status = "pending_employee_approval"
      /\ new.before = IF row.status \in Proposable THEN row.status ELSE row.before
  BY DEF Proposed, SamePlace, Good, Row
<1> HIDE DEF new
<1>2. HasProposal(new)
  BY <1>1 DEF HasProposal
<1>3. CASE row.status \in Proposable
  <2>1. Standing(new) = row.status /\ Standing(row) = row.status
    BY <1>1, <1>2, <1>3 DEF Standing, Origin, HasProposal, Proposable
  <2> QED BY <1>1, <2>1 DEF Remains, Placed, new
<1>4. CASE row.status \notin Proposable
  <2>1. HasProposal(row) /\ new.before = row.before
    BY <1>1, <1>4 DEF CanPropose, HasProposal
  <2>2. Standing(new) = Standing(row)
    BY <1>2, <2>1 DEF Standing, Origin
  <2> QED BY <1>1, <2>2 DEF Remains, Placed, new
<1> QED BY <1>3, <1>4

LEMMA AnsweredPlace ==
  ASSUME NEW row, Good(row), HasProposal(row)
  PROVE  /\ Remains(row, AnotherAsked(row)) /\ Remains(row, Withdrawn(row))
         /\ Origin(row) = "scheduled" => Remains(row, ProposalRejected(row))
         /\ Origin(row) \in {"pending_coach_approval", "pending_cancellation"} =>
              Vacates(row, ProposalRejected(row))
<1>1. /\ Placed(row) <=> row.before # "no_show"
      /\ Origin(row) = row.before /\ row.before \in Proposable
  BY ProposedPlaced
<1>2. Remains(row, AnotherAsked(row))
  <2>1. SamePlace(row, AnotherAsked(row)) /\ Alike(row, AnotherAsked(row))
    BY DEF AnotherAsked, SamePlace, Alike, Good, Row
  <2> QED BY <2>1, AlikeLooks DEF Remains, Placed
<1>3. Proposable \subseteq Settled
  BY StatusesOK DEF Proposable
<1>4. Remains(row, Withdrawn(row))
  <2>1. SamePlace(row, Withdrawn(row)) /\ Withdrawn(row).status = row.before
    BY <1>1 DEF Withdrawn, ClearProposal, SamePlace, Good, Row
  <2> QED BY <1>1, <1>3, <2>1, SettledPlaced DEF Remains, Released, Proposable
<1>5. ASSUME row.before = "scheduled" PROVE Remains(row, ProposalRejected(row))
  <2>1. /\ SamePlace(row, ProposalRejected(row))
        /\ ProposalRejected(row).status = "scheduled"
    BY <1>1, <1>5 DEF ProposalRejected, ClearProposal, SamePlace, Good, Row
  <2>2. "scheduled" \in Settled \ Released
    BY StatusesOK DEF Released
  <2> QED BY <1>1, <1>5, <2>1, <2>2, SettledPlaced DEF Remains
<1>6. ASSUME row.before \in {"pending_coach_approval", "pending_cancellation"}
      PROVE  Vacates(row, ProposalRejected(row))
  <2>1. /\ SamePlace(row, ProposalRejected(row))
        /\ ProposalRejected(row).status \in {"declined", "cancelled"}
    <3>1. CASE row.before = "pending_coach_approval"
      BY <1>1, <3>1 DEF ProposalRejected, ClearProposal, SamePlace, Good, Row
    <3>2. CASE row.before = "pending_cancellation"
      BY <1>1, <3>2
         DEF ProposalRejected, ClearProposal, ClearCancellation, SamePlace, Good, Row
    <3> QED BY <1>6, <3>1, <3>2
  <2>2. {"declined", "cancelled"} \subseteq Settled \cap Released
    BY StatusesOK DEF Released
  <2> QED BY <1>1, <1>6, <2>1, <2>2, SettledPlaced DEF Vacates
<1> QED BY <1>1, <1>2, <1>4, <1>5, <1>6

-----------------------------------------------------------------------------
(* The handlers *)

LEMMA StayStarts ==
  ASSUME OneAtATime, IInv, Slotted, NEW c \in Calls, Free(c), UNCHANGED db,
         NEW s \in Sessions, Good(sessions[s]), NEW row, Remains(sessions[s], row),
         NEW todo \in {ToSave, ToConfirm}, Start(c, s, row, todo)
  PROVE  Slotted'
<1> DEFINE next == call'[c]
<1>1. next.todo = todo /\ next.id = s /\ next.row = row
  BY StartTakes
<1>2. sessions' = sessions /\ slots' = slots
  BY DEF db
<1>3. AllDwell' /\ MarkedBut({})'
  BY <1>2, AtRest, SameRows DEF Slotted
<1>4. sessions[s] # Vacant
  BY DEF Good, Vacant
<1>5. row.slot \in Slots
  BY <1>4, Dwelling DEF Slotted, Remains, SamePlace
<1>6. Stays(call[c])'
  BY <1>1, <1>2, <1>4 DEF Stays, Remains, SamePlace, Placed
<1>7. InPlace(call[c])' /\ ~Free(c)'
  BY <1>1, <1>3, <1>5, <1>6, Lists DEF InPlace, OnHand, Free
<1> QED BY <1>3, <1>7, SlottedNext

LEMMA LeaveStarts ==
  ASSUME OneAtATime, IInv, Slotted, NEW c \in Calls, Free(c), UNCHANGED db,
         NEW s \in Sessions, Good(sessions[s]), NEW row, Vacates(sessions[s], row),
         NEW todo \in {ToRelease, ToUnlink}, Start(c, s, row, todo)
  PROVE  Slotted'
<1> DEFINE next == call'[c]
<1>1. /\ next.todo = todo /\ next.id = s /\ next.row = row
      /\ next.old = sessions[s].slot
  BY StartTakes
<1>2. sessions' = sessions /\ slots' = slots
  BY DEF db
<1>3. AllDwell' /\ MarkedBut({})'
  BY <1>2, AtRest, SameRows DEF Slotted
<1>4. sessions[s] # Vacant
  BY DEF Good, Vacant
<1>5. row.slot \in Slots
  BY <1>4, Dwelling DEF Slotted, Vacates, SamePlace
<1>6. Leaves(call[c])'
  BY <1>1, <1>2, <1>4 DEF Leaves, Vacates, SamePlace, Placed, Active
<1>7. InPlace(call[c])' /\ ~Free(c)'
  BY <1>1, <1>3, <1>5, <1>6, Lists DEF InPlace, OnHand, Free
<1> QED BY <1>3, <1>7, SlottedNext

LEMMA StayHandlers ==
  ASSUME OneAtATime, IInv, Slotted, NEW c \in Calls, NEW s \in Sessions,
         \/ Confirm(c, s) \/ Complete(c, s) \/ RequestCancel(c, s) \/ DeclineCancel(c, s)
         \/ Propose(c, s) \/ RequestAnother(c, s) \/ Withdraw(c, s)
  PROVE  Slotted'
<1> DEFINE row == sessions[s]
<1>1. row.status # "none" /\ Free(c) /\ UNCHANGED db
  BY DEF Confirm, Complete, RequestCancel, DeclineCancel, Propose, RequestAnother, Withdraw,
         AwaitsCoach, IsScheduled, CanAnswerCancel, CanPropose, Proposable, HasProposal,
         CanAskAnother
<1>2. Good(row)
  BY <1>1, Booked
<1>3. CASE Confirm(c, s)
  BY <1>1, <1>2, <1>3, AnswersPlace, StayStarts DEF Confirm, ToConfirm
<1>4. CASE Complete(c, s)
  BY <1>1, <1>2, <1>4, AnswersPlace, StayStarts DEF Complete, ToSave
<1>5. CASE RequestCancel(c, s)
  <2>1. PICK by \in Parties : Start(c, s, CancelRequested(row, by), ToSave)
    BY <1>5 DEF RequestCancel, ToSave
  <2>2. IsScheduled(row)
    BY <1>5 DEF RequestCancel
  <2> QED BY <1>1, <1>2, <2>1, <2>2, CancellationsPlace, StayStarts
<1>6. CASE DeclineCancel(c, s)
  BY <1>1, <1>2, <1>6, CancellationsPlace, StayStarts DEF DeclineCancel, ToSave
<1>7. CASE Propose(c, s)
  <2>1. PICK t \in Times : CanPropose(row, t) /\ Start(c, s, Proposed(row, t), ToSave)
    BY <1>7 DEF Propose, ToSave
  <2> QED BY <1>1, <1>2, <2>1, ProposedPlace, StayStarts
<1>8. CASE RequestAnother(c, s) \/ Withdraw(c, s)
  BY <1>1, <1>2, <1>8, AnsweredPlace, StayStarts
     DEF RequestAnother, Withdraw, CanAskAnother, ToSave
<1> QED BY <1>3, <1>4, <1>5, <1>6, <1>7, <1>8

LEMMA CallOffTasks ==
  ASSUME NEW row
  PROVE  CallOff(row) \in {ToRelease, ToUnlink}
  BY DEF CallOff, ToRelease, ToUnlink

LEMMA LeaveHandlers ==
  ASSUME OneAtATime, IInv, Slotted, NEW c \in Calls, NEW s \in Sessions,
         Decline(c, s) \/ Cancel(c, s) \/ MarkNoShow(c, s) \/ ApproveCancel(c, s)
  PROVE  Slotted'
<1> DEFINE row == sessions[s]
<1>1. row.status # "none" /\ Free(c) /\ UNCHANGED db
  BY DEF Decline, Cancel, MarkNoShow, ApproveCancel, AwaitsCoach, CanCancel, IsScheduled,
         CanApproveCancel, CanAnswerCancel
<1>2. Good(row)
  BY <1>1, Booked
<1>3. CASE Decline(c, s)
  BY <1>1, <1>2, <1>3, AnswersPlace, LeaveStarts DEF Decline, ToRelease
<1>4. CASE Cancel(c, s)
  BY <1>1, <1>2, <1>4, AnswersPlace, LeaveStarts DEF Cancel, ToRelease
<1>5. CASE MarkNoShow(c, s)
  BY <1>1, <1>2, <1>5, AnswersPlace, LeaveStarts DEF MarkNoShow, ToRelease
<1>6. CASE ApproveCancel(c, s)
  <2>1. CanAnswerCancel(row) /\ Start(c, s, CancelApproved(row), CallOff(row))
    BY <1>6 DEF ApproveCancel, CanApproveCancel
  <2> QED BY <1>1, <1>2, <2>1, CallOffTasks, CancellationsPlace, LeaveStarts
<1> QED BY <1>3, <1>4, <1>5, <1>6

LEMMA RejectSlotted ==
  ASSUME OneAtATime, NoReplacementRefused, IInv, Slotted, NEW c \in Calls,
         NEW s \in Sessions, Reject(c, s)
  PROVE  Slotted'
<1> DEFINE row == sessions[s]
<1>1. HasProposal(row) /\ Origin(row) # "no_show" /\ Free(c) /\ UNCHANGED db
  BY DEF Reject, NoReplacementRefused
<1>2. Good(row)
  BY <1>1, Booked DEF HasProposal
<1>3. Origin(row) \in {"pending_coach_approval", "scheduled", "pending_cancellation"}
  BY <1>1, <1>2, ProposedPlaced DEF Proposable
<1>4. CASE Origin(row) = "scheduled"
  BY <1>1, <1>2, <1>4, AnsweredPlace, StayStarts DEF Reject, ToSave
<1>5. CASE Origin(row) = "pending_coach_approval"
  BY <1>1, <1>2, <1>5, AnsweredPlace, LeaveStarts DEF Reject, ToRelease
<1>6. CASE Origin(row) = "pending_cancellation"
  <2>1. Start(c, s, ProposalRejected(row), CallOff(row))
    BY <1>6 DEF Reject
  <2> QED BY <1>1, <1>2, <1>6, <2>1, CallOffTasks, AnsweredPlace, LeaveStarts
<1> QED BY <1>3, <1>4, <1>5, <1>6

\* The session is to move to a slot that does not exist yet.
LEMMA AcceptSlotted ==
  ASSUME OneAtATime, IInv, Indexed, Slotted, NEW c \in Calls, NEW s \in Sessions,
         Accept(c, s)
  PROVE  Slotted'
<1> DEFINE old == sessions[s]
           next == call'[c]
<1>1. PICK j \in Slots :
        /\ NewSlot(j)
        /\ call' = [call EXCEPT ![c] =
             [todo |-> Reschedule(old), id |-> s, row |-> Accepted(old, j),
              old |-> old.slot, slot |-> j,
              entity |-> [FreshSlot(CoachOf[old.cycle], old.proposed) EXCEPT !.booked = TRUE]]]
  BY DEF Accept
<1>2. HasProposal(old) /\ old.proposed # NoTime /\ Free(c) /\ UNCHANGED db
  BY DEF Accept
<1>3. sessions' = sessions /\ slots' = slots /\ Good(old)
  BY <1>2, Booked DEF db, HasProposal
<1>4. /\ next.todo = Reschedule(old) /\ next.id = s /\ next.row = Accepted(old, j)
      /\ next.old = old.slot /\ next.slot = j
      /\ next.entity = [FreshSlot(CoachOf[old.cycle], old.proposed) EXCEPT !.booked = TRUE]
  BY <1>1 DEF IInv, TypeOK
<1>5. /\ next.row.slot = j /\ next.row.at = old.proposed /\ next.row.cycle = old.cycle
      /\ next.row.status = "scheduled"
  BY <1>3, <1>4 DEF Accepted, ClearProposal, ClearCancellation, Good, Row
<1>6. Reserves(next.entity, next.row)
  BY <1>4, <1>5 DEF FreshSlot, Reserves, Suits
<1>7. Placed(next.row)
  <2>1. next.row.status \in Settled \ Released
    BY <1>5, StatusesOK DEF Released
  <2> QED BY <2>1, SettledPlaced
<1>8. Active(old)
  BY <1>2 DEF Active, HasProposal, Released
<1>9. \A o \in Sessions : sessions[o].slot # j
  BY <1>1, NoneThere DEF NewSlot, Slotted
<1>10. AllDwell' /\ MarkedBut({})'
  BY <1>2, <1>3, AtRest, SameRows DEF Slotted
<1>11. Changes(call[c])'
  BY <1>3, <1>4, <1>5, <1>7, <1>8, <1>9 DEF Changes, Placed, Active
<1>12. next.todo \in {ToMoveFirst, ToMoveLinkedFirst}
  BY <1>4 DEF Reschedule, ToMoveFirst, ToMoveLinkedFirst
<1>13. OnHand(call[c])'
  BY <1>6, <1>10, <1>11, <1>12 DEF OnHand, Reserves, Suits
<1>14. InPlace(call[c])' /\ ~Free(c)'
  BY <1>4, <1>5, <1>12, <1>13, Lists DEF InPlace, Free
<1> QED BY <1>10, <1>14, SlottedNext

\* The slot of a booking is none yet, or one that nobody has booked.
LEMMA BookSlotted ==
  ASSUME OneAtATime, IInv, Indexed, Slotted, NEW c \in Calls, NEW s \in Sessions, Book(c, s)
  PROVE  Slotted'
<1> DEFINE next == call'[c]
<1>1. PICK q \in Cycles, j \in Slots :
        \E n \in FreeNumbers(q), entity \in BookableEntities(j, CoachOf[q]) :
          call' = [call EXCEPT ![c] =
            [todo |-> <<"overlap", "saveSlot", "insert">>, id |-> s,
             row |-> Booking(q, n, j, entity.time), old |-> NoSlot,
             slot |-> j, entity |-> [entity EXCEPT !.booked = TRUE]]]
  BY DEF Book
<1>2. PICK n \in FreeNumbers(q), entity \in BookableEntities(j, CoachOf[q]) :
        call' = [call EXCEPT ![c] =
          [todo |-> <<"overlap", "saveSlot", "insert">>, id |-> s,
           row |-> Booking(q, n, j, entity.time), old |-> NoSlot,
           slot |-> j, entity |-> [entity EXCEPT !.booked = TRUE]]]
  BY <1>1
<1>3. /\ next.todo = ToBook /\ next.id = s /\ next.row = Booking(q, n, j, entity.time)
      /\ next.slot = j /\ next.entity = [entity EXCEPT !.booked = TRUE]
  BY <1>2 DEF IInv, TypeOK, ToBook
<1>4. sessions[s] = Vacant /\ Free(c) /\ sessions' = sessions /\ slots' = slots
  BY DEF Book, NewSession, db
<1>5. /\ next.row.slot = j /\ next.row.at = entity.time /\ next.row.cycle = q
      /\ next.row.status = "pending_coach_approval"
  BY <1>3 DEF Booking, Vacant
<1>6. /\ entity \in Slot /\ entity.coach = CoachOf[q] /\ entity.active
      /\ Exists(j) => entity = slots[j] /\ ~slots[j].booked
  BY BookableOK, SessionsAssumption DEF BookableEntities, FreshSlot, NewSlot
<1>7. Reserves(next.entity, next.row) /\ (Exists(j) => SameSlot(slots[j], next.entity))
  <2>1. /\ next.entity.booked /\ next.entity.active = entity.active
        /\ next.entity.coach = entity.coach /\ next.entity.time = entity.time
    BY <1>3, <1>6 DEF Slot
  <2> QED BY <1>5, <1>6, <2>1 DEF Reserves, Suits, SameSlot
<1>8. Placed(next.row)
  <2>1. next.row.status \in Settled \ Released
    BY <1>5, StatusesOK DEF Released
  <2> QED BY <2>1, SettledPlaced
<1>9. ~Occupied(j)
  <2>1. CASE Exists(j)
    BY <1>4, <1>6, <2>1, AtRest DEF MarkedBut, Marked
  <2>2. CASE ~Exists(j)
    BY <2>2, NoneThere DEF Slotted
  <2> QED BY <2>1, <2>2
<1>10. AllDwell' /\ MarkedBut({})'
  BY <1>4, AtRest, SameRows DEF Slotted
<1>11. Comes(call[c])'
  BY <1>3, <1>4, <1>5, <1>8, <1>9 DEF Comes, Placed, Occupied, Holds
<1>12. OnHand(call[c])'
  <2>1. ToTake # ToBook
    BY Lists
  <2> QED BY <1>3, <1>4, <1>7, <1>10, <1>11, <2>1
          DEF OnHand, Reserves, Suits, SameSlot, Exists
<1>13. InPlace(call[c])' /\ ~Free(c)'
  BY <1>3, <1>5, <1>12, Lists DEF InPlace, Free
<1> QED BY <1>10, <1>13, SlottedNext

\* A slot is changed as far as its mark allows.
LEMMA StartSlotSlotted ==
  ASSUME OneAtATime, IInv, Slotted, NEW c \in Calls, Free(c), UNCHANGED db,
         NEW j \in Slots, NEW entity, NEW todo, StartSlot(c, j, entity, todo),
         \/ /\ todo = <<"saveSlot">> /\ entity.coach # NoCoach
            /\ entity.booked <=> slots[j].booked
            /\ entity.booked => entity.active
            /\ Exists(j) => SameSlot(slots[j], entity)
         \/ todo = <<"deleteSlot">> /\ ~slots[j].booked
  PROVE  Slotted'
<1> DEFINE next == call'[c]
<1>1. next.todo = todo /\ next.id \notin Sessions /\ next.slot = j /\ next.entity = entity
  <2> DEFINE new == [Idle EXCEPT !.todo = todo, !.slot = j, !.entity = entity]
  <2>1. new.todo = todo /\ new.id = NoSession /\ new.slot = j /\ new.entity = entity
    BY DEF Idle
  <2>2. call' = [call EXCEPT ![c] = new]
    BY DEF StartSlot
  <2> HIDE DEF new
  <2> QED BY <2>1, <2>2, SessionsAssumption DEF IInv, TypeOK
<1>2. sessions' = sessions /\ slots' = slots
  BY DEF db
<1>3. AllDwell' /\ MarkedBut({})'
  BY <1>2, AtRest, SameRows DEF Slotted
<1>4. OffHand(call[c])'
  BY <1>1, <1>2, <1>3 DEF OffHand, Edits, Exists, SameSlot
<1>5. InPlace(call[c])' /\ ~Free(c)'
  BY <1>1, <1>4 DEF InPlace, Free
<1> QED BY <1>3, <1>5, SlottedNext

LEMMA OnSlotSlotted ==
  ASSUME OneAtATime, IInv, Slotted, NEW c \in Calls, NEW j \in Slots, OnSlot(c, j)
  PROVE  Slotted'
<1>1. Free(c) /\ UNCHANGED db /\ slots[j] \in Slot
  BY DEF OnSlot, AddSlot, SwitchSlot, SyncWithOutlook, RemoveSlot, IInv, TypeOK
<1>2. slots[j].booked => slots[j].active
  BY <1>1, AtRest DEF MarkedBut, Marked
<1>3. CASE AddSlot(c, j)
  <2>1. PICK coach \in Coaches, t \in Times :
          StartSlot(c, j, FreshSlot(coach, t), <<"saveSlot">>)
    BY <1>3 DEF AddSlot
  <2>2. ~Exists(j)
    BY <1>3 DEF AddSlot, NewSlot
  <2>3. ~slots[j].booked
    BY <1>1, <2>2, AtRest, NoneThere DEF Slotted, MarkedBut, Marked
  <2>4. FreshSlot(coach, t).coach # NoCoach /\ ~FreshSlot(coach, t).booked
    BY SessionsAssumption DEF FreshSlot
  <2> QED BY <1>1, <2>1, <2>2, <2>3, <2>4, StartSlotSlotted
<1>4. CASE SwitchSlot(c, j) \/ SyncWithOutlook(c, j)
  <2>1. PICK b \in BOOLEAN :
          /\ StartSlot(c, j, [slots[j] EXCEPT !.active = b], <<"saveSlot">>)
          /\ Exists(j) /\ (b \/ ~slots[j].booked)
    BY <1>4 DEF SwitchSlot, SyncWithOutlook, CanDeactivate
  <2> DEFINE entity == [slots[j] EXCEPT !.active = b]
  <2>2. /\ entity.coach = slots[j].coach /\ entity.time = slots[j].time
        /\ entity.booked = slots[j].booked /\ entity.active = b
    BY <1>1 DEF Slot
  <2>3. StartSlot(c, j, entity, <<"saveSlot">>)
    BY <2>1
  <2> HIDE DEF entity
  <2> QED BY <1>1, <2>1, <2>2, <2>3, StartSlotSlotted DEF Exists, SameSlot
<1>5. CASE RemoveSlot(c, j)
  BY <1>1, <1>5, StartSlotSlotted DEF RemoveSlot
<1> QED BY <1>3, <1>4, <1>5 DEF OnSlot

-----------------------------------------------------------------------------

LEMMA SlottedStarts == Init => Slotted /\ Indexed
<1> SUFFICES ASSUME Init PROVE Slotted /\ Indexed
  OBVIOUS
<1>1. \A s \in Sessions : sessions[s] = Vacant
  BY DEF Init
<1>2. ~Active(Vacant) /\ ~Placed(Vacant)
  BY DEF Active, Placed, Standing, HasProposal, Vacant
<1>3. Indexed
  BY <1>1, <1>2 DEF Indexed, ViolatesIndex
<1>4. AllDwell
  BY <1>1 DEF AllDwell
<1>5. \A j \in Slots : ~slots[j].booked /\ ~Occupied(j)
  BY <1>1, <1>2 DEF Init, NoEntity, Occupied, Holds, Placed
<1>6. MarkedBut({})
  BY <1>5 DEF MarkedBut, Marked
<1>7. ASSUME NEW c \in Calls PROVE InPlace(call[c])
  <2>1. call[c].todo = <<>> /\ call[c].id \notin Sessions
    BY IdleHolds DEF Init
  <2> QED BY <2>1 DEF InPlace, OffHand
<1> QED BY <1>3, <1>4, <1>6, <1>7 DEF Slotted

LEMMA SlottedStep ==
  ASSUME OneAtATime, NoReplacementRefused, NoRestart, IInv, Indexed, Slotted, [Next]_vars
  PROVE  Slotted'
<1>1. ASSUME NEW c \in Calls, NEW s \in Sessions, OnSession(c, s) PROVE Slotted'
  BY <1>1, BookSlotted, AcceptSlotted, RejectSlotted, StayHandlers, LeaveHandlers
     DEF OnSession
<1>2. CASE UNCHANGED vars
  <2>1. sessions' = sessions /\ slots' = slots /\ call' = call
    BY <1>2 DEF vars
  <2> QED BY <2>1 DEF Slotted, AllDwell, Suits, Quiet, Free, MarkedBut, Marked, Occupied, Holds,
              InPlace, OnHand, OffHand, Comes, Changes, Reserves, Stays, Leaves, Edits,
              SamePlace, SameSlot, Exists, ViolatesIndex
<1>3. ~Restart
  BY DEF Restart, NoRestart
<1> QED BY <1>1, <1>2, <1>3, OnSlotSlotted, ContinueSlotted DEF Next

LEMMA SlottedSays ==
  ASSUME IInv, Indexed, Slotted
  PROVE  SlotsFollowSessions
<1> SUFFICES ASSUME Quiet, NEW j \in Slots
             PROVE  /\ slots[j].booked <=> \E s \in Sessions : Holds(sessions[s], j)
                    /\ \A s \in Sessions : Holds(sessions[s], j) =>
                         /\ slots[j].active /\ slots[j].time = sessions[s].at
                         /\ slots[j].coach = CoachOf[sessions[s].cycle]
                         /\ \A o \in Sessions \ {s} : ~Holds(sessions[o], j)
  BY DEF SlotsFollowSessions
<1>1. Marked(j) /\ AllDwell
  BY DEF Slotted, MarkedBut
<1>2. ASSUME NEW s \in Sessions, Holds(sessions[s], j)
      PROVE  /\ slots[j].active /\ slots[j].time = sessions[s].at
             /\ slots[j].coach = CoachOf[sessions[s].cycle]
             /\ \A o \in Sessions \ {s} : ~Holds(sessions[o], j)
  <2>1. sessions[s].slot = j /\ Active(sessions[s]) /\ sessions[s] # Vacant
    BY <1>2, PlacedIsThere DEF Holds, Placed
  <2>2. Suits(slots[j], sessions[s]) /\ slots[j].active
    BY <1>1, <1>2, <2>1 DEF AllDwell, Marked, Occupied
  <2>3. ASSUME NEW o \in Sessions \ {s}, Holds(sessions[o], j) PROVE FALSE
    <3>1. Active(sessions[o]) /\ sessions[o].slot = j
      BY <2>3, PlacedIsThere DEF Holds, Placed
    <3> QED BY <1>1, <2>1, <3>1, OneHolder
  <2> QED BY <2>2, <2>3 DEF Suits
<1> QED BY <1>1, <1>2 DEF Marked, Occupied

\* With one handler at a time, no refused replacement for a no-show and no restart, a
\* coach's slot is booked exactly while one session holds it, and it is that coach's, at
\* the session's time and switched on; whether or not the calendar answers.
THEOREM SerialSlots ==
  ASSUME OneAtATime, NoReplacementRefused, NoRestart
  PROVE  Spec => []SlotsFollowSessions
<1>1. IInv /\ Indexed /\ Slotted /\ [Next]_vars => Indexed' /\ Slotted'
  BY IndexStays, SlottedStep
<1>2. IInv /\ Indexed /\ Slotted => SlotsFollowSessions
  BY SlottedSays
<1> QED BY <1>1, <1>2, SlottedStarts, SessionsInductive, PTL DEF Spec

=============================================================================
