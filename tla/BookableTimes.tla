---------------------------- MODULE BookableTimes ----------------------------
(***************************************************************************)
(* The times a coach offers: coach-availability.service.ts generates them  *)
(* from the weekly coaching hours, the Outlook calendar and the sessions   *)
(* already booked; bookSession takes one of them, and the coach who        *)
(* changes the hours is warned of windows that yield nothing.              *)
(*                                                                         *)
(* An instant is a number; a wall clock is a day and a time of that day in *)
(* the business zone, which is Ahead of the zone of the instants. Booking  *)
(* is one step here: CoachingSessions takes it apart.                      *)
(***************************************************************************)
EXTENDS Integers, FiniteSets

CONSTANTS
  DayLength,       \* length of a day
  Ahead,           \* how far the business zone is ahead of UTC
  WeekLength,      \* days of a week
  Horizon,         \* BOOKING_HORIZON_DAYS
  DefaultLength,   \* DEFAULT_SESSION_MINUTES
  HoursSent,       \* the weekly hours a coach may send, sets of windows
  Lengths,         \* the session lengths a coach may choose
  Meetings,        \* what may stand in the Outlook calendar
  Sessions,
  Calls,
  MaxNow           \* bound: the clock

VARIABLES
  hours,      \* coachingWeeklyHours
  length,     \* coachingSessionMinutes; 0: never set
  linked,     \* whether the calendar is connected
  outlook,    \* the busy times of the calendar
  sessions,   \* the sessions of the coach
  call,       \* getBookableSlots in flight, for a page or for a warning
  page,       \* the times last offered to employees
  warning,    \* the windows and days the coach was last warned of
  now

vars == <<hours, length, linked, outlook, sessions, call, page, warning, now>>

Overlap(a, b) == a.start < b.end /\ b.start < a.end

-----------------------------------------------------------------------------
(* The business zone *)

\* Faulty: the wall clock is read in the zone of the server.
WallClockOfServer(day, time) == day * DayLength + time

WallClockToUtc(day, time) == day * DayLength + time - Ahead

\* utcToWallClock
WallDay(i) == (i + Ahead) \div DayLength
WallTime(i) == (i + Ahead) % DayLength

Weekday(day) == day % WeekLength

\* What a time slot is called on the page, and the instants it stands for.
Shown(start, end) ==
  [date |-> WallDay(start), startTime |-> WallTime(start), endTime |-> WallTime(end),
   start |-> start, end |-> end]

-----------------------------------------------------------------------------
(* Sessions *)

Released == {"cancelled", "declined", "no_show"}

\* The sessions that block their time on the page.
Blocking == {"scheduled", "pending_coach_approval"}

Answers ==
  [none |-> {},
   pending_coach_approval |-> {"scheduled", "declined", "pending_employee_approval"},
   scheduled |-> {"pending_cancellation", "pending_employee_approval", "completed", "no_show"},
   pending_cancellation |-> {"scheduled", "cancelled"},
   pending_employee_approval |-> {"pending_coach_approval", "scheduled", "cancelled"},
   completed |-> {}, cancelled |-> {}, declined |-> {}, no_show |-> {}]

NoSession == [status |-> "none", start |-> 0, end |-> 0]

\* sessionEndOf: the end of the slot, unless it is on the day before.
SessionEndOf(start, end) == IF end > start THEN end ELSE start + DefaultLength

\* findOverlappingSession
Clash(span) ==
  \E i \in Sessions :
    sessions[i].status \notin Released \cup {"none"} /\ Overlap(sessions[i], span)

-----------------------------------------------------------------------------
(* getBookableSlots *)

Idle == [task |-> "none", warns |-> FALSE, windows |-> {}, hours |-> {}, length |-> 0,
         linked |-> FALSE, at |-> 0, calendar |-> {}, all |-> {}]

Init ==
  /\ hours = {} /\ length = 0
  /\ linked \in BOOLEAN
  /\ outlook \in SUBSET Meetings
  /\ sessions = [i \in Sessions |-> NoSession]
  /\ call = [c \in Calls |-> Idle]
  /\ page = {} /\ warning = {}
  /\ now = WallClockToUtc(1, 0)

\* The days of the horizon, counted from the office's today.
Days(at) == WallDay(at)..(WallDay(at) + Horizon - 1)

\* Faulty: Graph is asked for the days as they are in UTC.
BusyWithinServerDays(at) ==
  {m \in outlook :
     Overlap(m, [start |-> WallClockOfServer(WallDay(at), 0),
                 end |-> WallClockOfServer(WallDay(at) + Horizon, 0)])}

\* getBusyIntervals between the first midnight and the one after the last day.
BusyWithin(at) ==
  {m \in outlook :
     Overlap(m, [start |-> WallClockToUtc(WallDay(at), 0),
                 end |-> WallClockToUtc(WallDay(at) + Horizon, 0)])}

\* One session length after another from the start of a window.
Grid(window, day, len) ==
  {[start |-> WallClockToUtc(day, window.start) + k * len,
    end |-> WallClockToUtc(day, window.start) + (k + 1) * len] :
       k \in {n \in 0..window.end : window.start + (n + 1) * len <= window.end}}

\* Active sessions block the time from their start, for the length of a session.
Booked(len) ==
  {[start |-> sessions[i].start, end |-> sessions[i].start + len] :
     i \in {j \in Sessions : sessions[j].status \in Blocking}}

\* The windows of the weekly hours, each on the days of the horizon it is meant for.
Occasions(f) == {wd \in f.hours \X Days(f.at) : wd[1].day = Weekday(wd[2])}

Generated(f) == UNION {Grid(wd[1], wd[2], f.length) : wd \in Occasions(f)}

Free(f) ==
  {g \in Generated(f) :
     g.start > f.at /\ \A b \in f.calendar \cup Booked(f.length) : ~Overlap(g, b)}

BookableSlots(f) == {Shown(g.start, g.end) : g \in Free(f)}

\* Faulty: a time that starts as the window ends counts for it.
YieldedUpToEnd(slots, w, day) ==
  \E t \in slots : t.date = day /\ w.start <= t.startTime /\ t.startTime <= w.end

\* findHourConflicts: the window gave at least one time that day.
Yielded(slots, w, day) ==
  \E t \in slots : t.date = day /\ w.start <= t.startTime /\ t.startTime < w.end

Named(slots, windows, days) ==
  {wd \in windows \X days :
     Weekday(wd[2]) = wd[1].day /\ ~Yielded(slots, wd[1], wd[2])}

Set(c, new) == call' = [call EXCEPT ![c] = new]

\* An employee opens the page of the coach; the coach's hours are read.
Open(c) ==
  /\ call[c].task = "none"
  /\ Set(c, [Idle EXCEPT !.task = "link", !.hours = hours, !.length = length])
  /\ UNCHANGED <<hours, length, linked, outlook, sessions, page, warning, now>>

\* Without hours or a session length nothing is offered.
ReadLink(c) ==
  LET f == call[c] IN
  /\ f.task = "link"
  /\ IF f.hours = {} \/ f.length = 0 THEN Set(c, Idle)
     ELSE Set(c, [f EXCEPT !.task = "busy", !.linked = linked, !.at = now])
  /\ UNCHANGED <<hours, length, linked, outlook, sessions, page, warning, now>>

\* Graph is asked only for a linked calendar; when it fails, so does the page, and
\* no warning is given.
ReadBusy(c) ==
  LET f == call[c] IN
  /\ f.task = "busy"
  /\ \/ f.linked /\ Set(c, Idle)
     \/ f.linked /\ linked
          /\ Set(c, [f EXCEPT !.task = "sessions", !.calendar = BusyWithin(f.at),
                               !.all = outlook])
     \/ ~f.linked /\ Set(c, [f EXCEPT !.task = "sessions"])
  /\ UNCHANGED <<hours, length, linked, outlook, sessions, page, warning, now>>

ReadSessions(c) ==
  LET f == call[c] IN
  /\ f.task = "sessions"
  /\ IF f.warns
     THEN warning' = Named(BookableSlots(f), f.windows, Days(now)) /\ UNCHANGED page
     ELSE page' = BookableSlots(f) /\ UNCHANGED warning
  /\ Set(c, Idle)
  /\ UNCHANGED <<hours, length, linked, outlook, sessions, now>>

-----------------------------------------------------------------------------
(* The coach *)

\* Faulty: only windows that start together are refused.
PublishableByStart(windows) ==
  /\ \A w \in windows : w.start < w.end
  /\ \A w, v \in windows : w # v /\ w.day = v.day => w.start # v.start

\* A day may have several windows that do not overlap.
Publishable(windows) ==
  /\ \A w \in windows : w.start < w.end
  /\ \A w, v \in windows : w # v /\ w.day = v.day => ~Overlap(w, v)

\* updateCoachingHours: either may be left out. With hours and a calendar, the times
\* they yield are then generated to warn of windows without any.
UpdateCoachingHours(c) ==
  /\ call[c].task = "none"
  /\ \E windows \in HoursSent \cup {hours}, len \in Lengths \cup {length} :
       /\ <<windows, len>> # <<hours, length>>
       /\ Publishable(windows)
       /\ hours' = windows /\ length' = len
       /\ IF windows = {} \/ ~linked THEN Set(c, Idle)
          ELSE Set(c, [Idle EXCEPT !.task = "link", !.warns = TRUE, !.windows = windows,
                                   !.hours = windows, !.length = len])
  /\ UNCHANGED <<linked, outlook, sessions, page, warning, now>>

\* The coach connects or disconnects, or moves meetings in Outlook.
EditOutlook ==
  /\ \/ linked' = ~linked /\ UNCHANGED outlook
     \/ \E m \in Meetings :
          /\ outlook' = IF m \in outlook THEN outlook \ {m} ELSE outlook \cup {m}
          /\ UNCHANGED linked
  /\ UNCHANGED <<hours, length, sessions, call, page, warning, now>>

-----------------------------------------------------------------------------
(* Sessions *)

\* bookSession with a time of the page: its wall clocks are resolved again, Outlook
\* is asked again (and trusted to be free when it does not answer), and the session
\* must not overlap another.
Book(i) ==
  /\ sessions[i].status = "none"
  /\ \E t \in page :
       LET start == WallClockToUtc(t.date, t.startTime)
           end == WallClockToUtc(t.date, t.endTime)
           span == [start |-> start, end |-> SessionEndOf(start, end)]
       IN /\ start >= now
          /\ ~Clash(span)
          /\ sessions' = [sessions EXCEPT ![i] =
               [status |-> "pending_coach_approval", start |-> span.start, end |-> span.end]]
  /\ UNCHANGED <<hours, length, linked, outlook, call, page, warning, now>>

Answer(i) ==
  /\ \E status \in Answers[sessions[i].status] :
       sessions' = [sessions EXCEPT ![i].status = status]
  /\ UNCHANGED <<hours, length, linked, outlook, call, page, warning, now>>

Tick ==
  /\ now < MaxNow
  /\ now' = now + 1
  /\ UNCHANGED <<hours, length, linked, outlook, sessions, call, page, warning>>

Next ==
  \/ \E c \in Calls :
       Open(c) \/ ReadLink(c) \/ ReadBusy(c) \/ ReadSessions(c) \/ UpdateCoachingHours(c)
  \/ \E i \in Sessions : Book(i) \/ Answer(i)
  \/ EditOutlook \/ Tick

Spec == Init /\ [][Next]_vars

-----------------------------------------------------------------------------
(* Properties *)

\* The times of one page never overlap, whatever hours were accepted, so employees
\* who take different times of it do not exclude each other.
OffersFitTogether ==
  \A t, u \in page : t # u => ~Overlap(t, u)

Generates(c) == call[c].task = "sessions" /\ call'[c].task = "none"

\* With a linked calendar, no time of a page overlaps a meeting that was in it when
\* Graph was asked, wherever in the office's days the meeting falls.
OffersAvoidMeetings ==
  [][\A c \in Calls : Generates(c) /\ ~call[c].warns =>
       \A t \in page', m \in call[c].all : ~Overlap(t, m)]_vars

\* A time that is booked is the time that was offered, start and end, though it went
\* to the page and back as wall clocks; a time that ends at midnight, whose end
\* comes back as the midnight before, gets the default length.
BookedAsOffered ==
  [][\A i \in Sessions :
       sessions[i].status = "none" /\ sessions'[i].status # "none" =>
         \E t \in page :
           /\ sessions'[i].start = t.start
           /\ sessions'[i].end =
                IF t.endTime = 0 THEN t.start + DefaultLength ELSE t.end]_vars

\* The coach is warned of a window on a day exactly when none of the times that
\* employees would be offered lies in it.
WarningMatchesOffers ==
  [][\A c \in Calls : Generates(c) /\ call[c].warns =>
       \A w \in call[c].windows, d \in Days(now) :
         Weekday(d) = w.day =>
           (<<w, d>> \in warning' <=>
              \A t \in BookableSlots(call[c]) :
                \/ t.start < WallClockToUtc(d, w.start)
                \/ t.end > WallClockToUtc(d, w.end))]_vars

\* What the comment in getBookableSlots says: active sessions block their time, from
\* their start for the length of a session. Sessions that wait for an answer to a
\* cancellation or a new time are active, and are offered over.
ActiveSessionsBlock ==
  [][\A c \in Calls : Generates(c) /\ ~call[c].warns =>
       \A t \in page', i \in Sessions :
         sessions[i].status \notin Released \cup {"none", "completed"} =>
           ~Overlap(t, [start |-> sessions[i].start,
                        end |-> sessions[i].start + call[c].length])]_vars

=============================================================================
