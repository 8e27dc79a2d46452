-------------------------- MODULE CoachingSessions --------------------------
(***************************************************************************)
(* Coaching sessions over their database: the rows of coaching_sessions    *)
(* and coach_availability, the coaches' Outlook calendars, and the         *)
(* handlers of coaching-sessions.service.ts and of the slot management in  *)
(* coach-availability.service.ts.                                          *)
(*                                                                         *)
(* As in TokenRequests, a handler is a call that occupies a slot of Calls. *)
(* Its first step loads the rows, checks them and changes the loaded       *)
(* entity; what is left to do, one await after the other, is the list      *)
(* call[c].todo, and each of its elements is an action below. A call       *)
(* whose list is empty has returned.                                       *)
(***************************************************************************)
EXTENDS SessionRows, Sequences, FiniteSets

CONSTANTS
  Sessions,      \* primary keys of coaching_sessions
  NoSession,
  Calls,         \* slots for handlers in flight
  Coaches,
  CoachOf,       \* formData.coachId of a cycle
  EmployeeOf,    \* employeeId of a cycle
  NoCoach,       \* the coach of a slot not inserted yet
  Ops            \* the operations that clients invoke

Operations ==
  {"book", "confirm", "decline", "cancel", "complete", "requestCancel",
   "approveCancel", "declineCancel", "propose", "accept", "reject",
   "rejectReplacement", "requestAnother", "withdraw", "noShow", "addSlot",
   "removeSlot", "switchSlot", "graphFailure", "restart"}

ASSUME SessionsAssumption ==
  /\ NoSession \notin Sessions /\ NoCoach \notin Coaches
  /\ Ops \subseteq Operations
  /\ CoachOf \in [Cycles -> Coaches]

VARIABLES
  sessions,   \* coaching_sessions
  slots,      \* coach_availability
  calendar,   \* coaching events in Outlook: the session and the time of each
  call        \* the handlers in flight

db == <<sessions, slots, calendar>>
vars == <<sessions, slots, calendar, call>>

-----------------------------------------------------------------------------
(* Tables and the handlers' local state *)

Slot == [coach : Coaches \cup {NoCoach}, time : Times \cup {NoTime},
         booked : BOOLEAN, active : BOOLEAN]

NoEntity == [coach |-> NoCoach, time |-> NoTime, booked |-> FALSE, active |-> FALSE]

Exists(k) == slots[k].coach # NoCoach

Tasks ==
  {"overlap", "saveSlot", "deleteSlot", "insert", "save", "move", "release",
   "unlink", "sync"}

CallState ==
  [todo : Seq(Tasks),
   id : Sessions \cup {NoSession}, row : Row,     \* the session it has loaded
   old : Slots \cup {NoSlot},                     \* the slot to release
   slot : Slots \cup {NoSlot}, entity : Slot]     \* the slot it creates or changes

Idle ==
  [todo |-> <<>>, id |-> NoSession, row |-> Vacant, old |-> NoSlot,
   slot |-> NoSlot, entity |-> NoEntity]

Free(c) == call[c].todo = <<>>

Doing(c, task) == call[c].todo # <<>> /\ Head(call[c].todo) = task

Return(c) == call' = [call EXCEPT ![c] = Idle]

\* On to the next await; with none left the handler has returned.
Resume(c, new) ==
  call' = [call EXCEPT ![c] =
            IF Tail(new.todo) = <<>> THEN Idle ELSE [new EXCEPT !.todo = Tail(@)]]

Advance(c) == Resume(c, call[c])

\* The handler has loaded session s, which is to become `row`.
Start(c, s, row, todo) ==
  call' = [call EXCEPT ![c] = [Idle EXCEPT !.todo = todo, !.id = s, !.row = row,
                                           !.old = sessions[s].slot]]

Init ==
  /\ sessions = [s \in Sessions |-> Vacant]
  /\ slots = [k \in Slots |-> NoEntity]
  /\ calendar = {}
  /\ call = [c \in Calls |-> Idle]

\* Ids that no row has and no handler is about to insert.
NewSession(s) == sessions[s] = Vacant /\ \A c \in Calls : call[c].id # s
NewSlot(k) ==
  ~Exists(k) /\ \A c \in Calls : k \notin {call[c].slot, call[c].old, call[c].row.slot}

-----------------------------------------------------------------------------
(* Queries over coaching_sessions *)

Active(row) == row.status \notin Released \cup {"none"}

ActiveOf(q) == {o \in Sessions : Active(sessions[o]) /\ sessions[o].cycle = q}

\* Faulty: numbers the next session by counting those there are.
CountPlusOne(q) == {Cardinality(ActiveOf(q)) + 1}

FreeNumbers(q) ==
  {n \in 1..SessionsPerCycle : \A o \in ActiveOf(q) : sessions[o].number # n}

Overlap(t, u) == t.start < u.end /\ u.start < t.end

SameParty(q, p) == CoachOf[q] = CoachOf[p] \/ EmployeeOf[q] = EmployeeOf[p]

\* Faulty: only the coach's other sessions are looked at.
ClashOfCoach(s, q, t, ignored) ==
  \E o \in Sessions \ {s} :
    /\ sessions[o].status \notin ignored \cup {"none"}
    /\ CoachOf[q] = CoachOf[sessions[o].cycle]
    /\ Overlap(sessions[o].at, t)

\* findOverlappingSession, for the coach and then for the employee of cycle q.
Clash(s, q, t, ignored) ==
  \E o \in Sessions \ {s} :
    /\ sessions[o].status \notin ignored \cup {"none"}
    /\ SameParty(q, sessions[o].cycle)
    /\ Overlap(sessions[o].at, t)

\* The unique index on (coachId, scheduledAt) of sessions that are not released.
ViolatesIndex(s, row) ==
  /\ Active(row)
  /\ \E o \in Sessions \ {s} :
       /\ Active(sessions[o])
       /\ CoachOf[sessions[o].cycle] = CoachOf[row.cycle]
       /\ sessions[o].at.start = row.at.start

\* Neither the index nor the foreign key to the slot refuses the row.
Storable(s, row) == ~ViolatesIndex(s, row) /\ Exists(row.slot)

\* Pending bookings do not block each other when one of them is locked in.
NotHolding == Released \cup {"pending_coach_approval"}

-----------------------------------------------------------------------------
(* Booking: take a slot of the coach's, or one for a time that has none yet *)

FreshSlot(coach, t) == [coach |-> coach, time |-> t, booked |-> FALSE, active |-> TRUE]

\* The slot row that a booking of the coach under id k can start from.
BookableEntities(k, coach) ==
  IF NewSlot(k) THEN {FreshSlot(coach, t) : t \in Times}
  ELSE {slot \in {slots[k]} : slot.coach = coach /\ ~slot.booked /\ slot.active}

Book(c, s) ==
  /\ "book" \in Ops /\ Free(c) /\ NewSession(s)
  /\ \E q \in Cycles, k \in Slots :
       \E n \in FreeNumbers(q), entity \in BookableEntities(k, CoachOf[q]) :
         call' = [call EXCEPT ![c] =
           [todo |-> <<"overlap", "saveSlot", "insert">>, id |-> s,
            row |-> Booking(q, n, k, entity.time), old |-> NoSlot,
            slot |-> k, entity |-> [entity EXCEPT !.booked = TRUE]]]
  /\ UNCHANGED db

\* The overlap queries come after the slot was read and Outlook was asked.
CheckOverlap(c) ==
  LET row == call[c].row IN
  /\ Doing(c, "overlap")
  /\ IF Clash(call[c].id, row.cycle, row.at, Released) THEN Return(c) ELSE Advance(c)
  /\ UNCHANGED db

\* repository.save of a slot writes the whole entity; a new one is inserted.
SaveSlot(c) ==
  /\ Doing(c, "saveSlot")
  /\ slots' = [slots EXCEPT ![call[c].slot] = call[c].entity]
  /\ Advance(c)
  /\ UNCHANGED <<sessions, calendar>>

\* When the insert fails the slot keeps its mark.
Insert(c) ==
  LET row == call[c].row IN
  /\ Doing(c, "insert")
  /\ IF Storable(call[c].id, row)
     THEN sessions' = [sessions EXCEPT ![call[c].id] = row]
     ELSE UNCHANGED sessions
  /\ Return(c)
  /\ UNCHANGED <<slots, calendar>>

-----------------------------------------------------------------------------
(* Handlers that load a session, change it and save it *)

Confirm(c, s) ==
  LET row == sessions[s] IN
  /\ "confirm" \in Ops /\ Free(c)
  /\ AwaitsCoach(row) /\ ~Clash(s, row.cycle, row.at, NotHolding)
  /\ Start(c, s, Confirmed(row), <<"save", "sync", "save">>)
  /\ UNCHANGED db

Decline(c, s) ==
  /\ "decline" \in Ops /\ Free(c)
  /\ AwaitsCoach(sessions[s])
  /\ Start(c, s, Declined(sessions[s]), <<"release", "save">>)
  /\ UNCHANGED db

Cancel(c, s) ==
  /\ "cancel" \in Ops /\ Free(c)
  /\ CanCancel(sessions[s])
  /\ Start(c, s, Cancelled(sessions[s]), <<"release", "save">>)
  /\ UNCHANGED db

Complete(c, s) ==
  /\ "complete" \in Ops /\ Free(c)
  /\ IsScheduled(sessions[s])
  /\ Start(c, s, Completed(sessions[s]), <<"save">>)
  /\ UNCHANGED db

MarkNoShow(c, s) ==
  /\ "noShow" \in Ops /\ Free(c)
  /\ IsScheduled(sessions[s])
  /\ Start(c, s, NoShow(sessions[s]), <<"release", "save">>)
  /\ UNCHANGED db

RequestCancel(c, s) ==
  /\ "requestCancel" \in Ops /\ Free(c)
  /\ IsScheduled(sessions[s])
  /\ \E by \in Parties : Start(c, s, CancelRequested(sessions[s], by), <<"save">>)
  /\ UNCHANGED db

\* What calling a session off takes: removeSessionFromCalendar does nothing for
\* a session without an event.
CallOff(row) ==
  IF row.event = NoTime THEN <<"release", "save">> ELSE <<"unlink", "release", "save">>

ApproveCancel(c, s) ==
  LET row == sessions[s] IN
  /\ "approveCancel" \in Ops /\ Free(c)
  /\ \E caller \in Parties : CanApproveCancel(row, caller)
  /\ Start(c, s, CancelApproved(row), CallOff(row))
  /\ UNCHANGED db

DeclineCancel(c, s) ==
  /\ "declineCancel" \in Ops /\ Free(c)
  /\ CanAnswerCancel(sessions[s])
  /\ Start(c, s, CancelDeclined(sessions[s]), <<"save">>)
  /\ UNCHANGED db

\* Faulty: a no-show is revived even when its number was booked again.
StillFreeUnchecked(row) == TRUE

\* Reviving a released session reclaims its number in the cycle.
StillFree(row) == row.status \in Released => row.number \in FreeNumbers(row.cycle)

\* The proposal may name a slot of the coach's that is free, or any time.
Propose(c, s) ==
  LET row == sessions[s] IN
  /\ "propose" \in Ops /\ Free(c)
  /\ StillFree(row)
  /\ \E t \in Times :
       /\ CanPropose(row, t)
       /\ ~Clash(s, row.cycle, t, Released)
       /\ Start(c, s, Proposed(row, t), <<"save">>)
  /\ UNCHANGED db

\* Faulty: the event at the old time stays.
RescheduleKeepingEvent(row) == <<"saveSlot", "move", "release", "sync", "save">>

\* What moving a session to its new slot takes.
Reschedule(row) ==
  IF row.event = NoTime
  THEN <<"saveSlot", "move", "release", "sync", "save">>
  ELSE <<"saveSlot", "move", "release", "unlink", "save", "sync", "save">>

\* A new slot is saved for the proposed time before the session moves to it.
Accept(c, s) ==
  LET row == sessions[s] IN
  /\ "accept" \in Ops /\ Free(c)
  /\ HasProposal(row) /\ row.proposed # NoTime
  /\ ~Clash(s, row.cycle, row.proposed, NotHolding)
  /\ \E k \in Slots :
       /\ NewSlot(k)
       /\ call' = [call EXCEPT ![c] =
            [todo |-> Reschedule(row), id |-> s, row |-> Accepted(row, k),
             old |-> row.slot, slot |-> k,
             entity |-> [FreshSlot(CoachOf[row.cycle], row.proposed) EXCEPT !.booked = TRUE]]]
  /\ UNCHANGED db

\* A refused replacement for a no-show is an operation of its own in Ops: runs
\* can leave it out.
Reject(c, s) ==
  LET row == sessions[s] IN
  /\ (IF Origin(row) = "no_show" THEN "rejectReplacement" ELSE "reject") \in Ops
  /\ Free(c)
  /\ HasProposal(row)
  /\ Start(c, s, ProposalRejected(row),
           CASE Origin(row) = "pending_coach_approval" -> <<"release", "save">>
             [] Origin(row) = "pending_cancellation" -> CallOff(row)
             [] OTHER -> <<"save">>)
  /\ UNCHANGED db

RequestAnother(c, s) ==
  /\ "requestAnother" \in Ops /\ Free(c)
  /\ CanAskAnother(sessions[s])
  /\ Start(c, s, AnotherAsked(sessions[s]), <<"save">>)
  /\ UNCHANGED db

Withdraw(c, s) ==
  /\ "withdraw" \in Ops /\ Free(c)
  /\ HasProposal(sessions[s])
  /\ Start(c, s, Withdrawn(sessions[s]), <<"save">>)
  /\ UNCHANGED db

-----------------------------------------------------------------------------
(* The awaits of those handlers *)

\* repository.save of a session writes the whole entity, or the handler fails.
Save(c) ==
  /\ Doing(c, "save")
  /\ IF Storable(call[c].id, call[c].row)
     THEN /\ sessions' = [sessions EXCEPT ![call[c].id] = call[c].row]
          /\ Advance(c)
     ELSE Return(c) /\ UNCHANGED sessions
  /\ UNCHANGED <<slots, calendar>>

\* The save of acceptProposedTime; when it fails, the new slot is deleted again.
Move(c) ==
  /\ Doing(c, "move")
  /\ IF ViolatesIndex(call[c].id, call[c].row)
     THEN /\ slots' = [slots EXCEPT ![call[c].slot] = NoEntity]
          /\ Return(c)
          /\ UNCHANGED sessions
     ELSE /\ sessions' = [sessions EXCEPT ![call[c].id] = call[c].row]
          /\ Advance(c)
          /\ UNCHANGED slots
  /\ UNCHANGED calendar

\* Only the isBooked column is updated.
Release(c) ==
  /\ Doing(c, "release")
  /\ slots' = [slots EXCEPT ![call[c].old].booked = FALSE]
  /\ Advance(c)
  /\ UNCHANGED <<sessions, calendar>>

\* Best effort: the reference is dropped even when the event stays.
Unlink(c) ==
  LET row == call[c].row IN
  /\ Doing(c, "unlink")
  /\ \/ calendar' = calendar \ {<<call[c].id, row.event>>}
     \/ "graphFailure" \in Ops /\ UNCHANGED calendar
  /\ Resume(c, [call[c] EXCEPT !.row.event = NoTime])
  /\ UNCHANGED <<sessions, slots>>

\* A coach without a connected calendar gets no event.
Sync(c) ==
  LET row == call[c].row IN
  /\ Doing(c, "sync")
  /\ \/ Return(c) /\ UNCHANGED calendar
     \/ /\ calendar' = calendar \cup {<<call[c].id, row.at>>}
        /\ Resume(c, [call[c] EXCEPT !.row.event = row.at])
     \/ "graphFailure" \in Ops /\ Advance(c) /\ UNCHANGED calendar
  /\ UNCHANGED <<sessions, slots>>

-----------------------------------------------------------------------------
(* The coach's slots *)

StartSlot(c, k, entity, todo) ==
  call' = [call EXCEPT ![c] = [Idle EXCEPT !.todo = todo, !.slot = k, !.entity = entity]]

\* No active slot of the coach, other than k, overlaps t.
NoSlotOverlaps(k, coach, t) ==
  \A j \in Slots \ {k} :
    slots[j].coach = coach /\ slots[j].active => ~Overlap(slots[j].time, t)

AddSlot(c, k) ==
  /\ "addSlot" \in Ops /\ Free(c) /\ NewSlot(k)
  /\ \E coach \in Coaches, t \in Times :
       /\ NoSlotOverlaps(k, coach, t)
       /\ StartSlot(c, k, FreshSlot(coach, t), <<"saveSlot">>)
  /\ UNCHANGED db

\* Faulty: a booked slot can be switched off.
CanDeactivateAny(k) == Exists(k)

CanDeactivate(k) == Exists(k) /\ ~slots[k].booked

\* deactivateSlot and reactivateSlot
SwitchSlot(c, k) ==
  /\ "switchSlot" \in Ops /\ Free(c)
  /\ \/ /\ CanDeactivate(k)
        /\ StartSlot(c, k, [slots[k] EXCEPT !.active = FALSE], <<"saveSlot">>)
     \/ /\ Exists(k) /\ ~slots[k].active
        /\ NoSlotOverlaps(k, slots[k].coach, slots[k].time)
        /\ StartSlot(c, k, [slots[k] EXCEPT !.active = TRUE], <<"saveSlot">>)
  /\ UNCHANGED db

\* syncWithOutlook for a slot that a meeting overlaps, as any slot may: it finds what
\* is active and not booked, and saves it switched off. Several slots are several
\* calls.
SyncWithOutlook(c, k) ==
  /\ "switchSlot" \in Ops /\ Free(c)
  /\ CanDeactivate(k) /\ slots[k].active
  /\ StartSlot(c, k, [slots[k] EXCEPT !.active = FALSE], <<"saveSlot">>)
  /\ UNCHANGED db

RemoveSlot(c, k) ==
  /\ "removeSlot" \in Ops /\ Free(c)
  /\ Exists(k) /\ ~slots[k].booked
  /\ StartSlot(c, k, NoEntity, <<"deleteSlot">>)
  /\ UNCHANGED db

\* The foreign key of a session that refers to the slot makes this fail.
DeleteSlot(c) ==
  /\ Doing(c, "deleteSlot")
  /\ IF \E s \in Sessions : sessions[s].slot = call[c].slot
     THEN UNCHANGED slots
     ELSE slots' = [slots EXCEPT ![call[c].slot] = NoEntity]
  /\ Return(c)
  /\ UNCHANGED <<sessions, calendar>>

\* A restart of the process: every handler in flight is lost.
Restart ==
  /\ "restart" \in Ops /\ \E c \in Calls : ~Free(c)
  /\ call' = [c \in Calls |-> Idle]
  /\ UNCHANGED db

-----------------------------------------------------------------------------

OnSession(c, s) ==
  \/ Book(c, s)
  \/ Confirm(c, s)
  \/ Decline(c, s)
  \/ Cancel(c, s)
  \/ Complete(c, s)
  \/ MarkNoShow(c, s)
  \/ RequestCancel(c, s)
  \/ ApproveCancel(c, s)
  \/ DeclineCancel(c, s)
  \/ Propose(c, s)
  \/ Accept(c, s)
  \/ Reject(c, s)
  \/ RequestAnother(c, s)
  \/ Withdraw(c, s)

OnSlot(c, k) ==
  \/ AddSlot(c, k)
  \/ SwitchSlot(c, k)
  \/ SyncWithOutlook(c, k)
  \/ RemoveSlot(c, k)

Continue(c) ==
  \/ CheckOverlap(c)
  \/ SaveSlot(c)
  \/ Insert(c)
  \/ Save(c)
  \/ Move(c)
  \/ Release(c)
  \/ Unlink(c)
  \/ Sync(c)
  \/ DeleteSlot(c)

Next ==
  \/ \E c \in Calls, s \in Sessions : OnSession(c, s)
  \/ \E c \in Calls, k \in Slots : OnSlot(c, k)
  \/ \E c \in Calls : Continue(c)
  \/ Restart

Spec == Init /\ [][Next]_vars

-----------------------------------------------------------------------------
(* Invariants *)

\* Every table and every call in flight holds values of its type.
TypeOK ==
  /\ sessions \in [Sessions -> Row]
  /\ slots \in [Slots -> Slot]
  /\ calendar \subseteq Sessions \X Times
  /\ call \in [Calls -> CallState]

\* In every stored session, the proposal, cancellation and calendar columns fit
\* the status (RowAgrees).
SessionRowsAgree == \A s \in Sessions : RowAgrees(sessions[s])

Quiet == \A c \in Calls : Free(c)

\* A cycle never has two live sessions with the same number.
OneActivePerNumber ==
  \A s, o \in Sessions :
    /\ Active(sessions[s]) /\ Active(sessions[o])
    /\ sessions[s].cycle = sessions[o].cycle /\ sessions[s].number = sessions[o].number
    => s = o

\* Both parties have agreed to meet, whatever is being asked about it now.
Committed(row) == Standing(row) \in {"scheduled", "pending_cancellation", "completed"}

\* Nobody, coach or employee, is committed to two sessions at the same time.
NoDoubleBooking ==
  \A s, o \in Sessions :
    /\ s # o /\ Committed(sessions[s]) /\ Committed(sessions[o])
    /\ SameParty(sessions[s].cycle, sessions[o].cycle)
    => ~Overlap(sessions[s].at, sessions[o].at)

\* A live session has its slot, except a no-show that is only being offered
\* another time.
Holds(row, k) == row.slot = k /\ Standing(row) \notin Released \cup {"none"}

\* With no handler running, a slot is booked exactly while a session holds it,
\* it is held by one session only, and it is that coach's, at that time, and
\* switched on.
SlotsFollowSessions ==
  Quiet => \A k \in Slots :
    /\ slots[k].booked <=> \E s \in Sessions : Holds(sessions[s], k)
    /\ \A s \in Sessions : Holds(sessions[s], k) =>
         /\ slots[k].active /\ slots[k].time = sessions[s].at
         /\ slots[k].coach = CoachOf[sessions[s].cycle]
         /\ \A o \in Sessions \ {s} : ~Holds(sessions[o], k)

\* With no handler running, the coaching events in Outlook are those the
\* sessions refer to, and each is at its session's time.
CalendarFollowsSessions ==
  Quiet =>
    /\ calendar = {<<s, sessions[s].event>> :
                    s \in {o \in Sessions : sessions[o].event # NoTime}}
    /\ \A s \in Sessions : sessions[s].event \in {NoTime, sessions[s].at}

-----------------------------------------------------------------------------
(* The rows as the abstract lifecycle sees them. *)

Stage(row) ==
  CASE Standing(row) = "none" -> "none"
    [] Standing(row) = "pending_coach_approval" -> "requested"
    [] Standing(row) \in {"scheduled", "pending_cancellation"} -> "agreed"
    [] Standing(row) = "completed" -> "held"
    [] Standing(row) = "no_show" -> "missed"
    [] OTHER -> "off"

Lifecycle ==
  INSTANCE SessionLifecycle WITH
    stage <- [s \in Sessions |-> Stage(sessions[s])],
    time <- [s \in Sessions |-> sessions[s].at],
    cancelAsk <- [s \in Sessions |->
                    IF Standing(sessions[s]) = "pending_cancellation"
                    THEN sessions[s].cancelBy ELSE "none"],
    moveAsk <- [s \in Sessions |-> sessions[s].proposed]

ImplementsLifecycle == Lifecycle!Spec

=============================================================================
