----------------------------- MODULE CoachCalendar -----------------------------
(***************************************************************************)
(* The calendar of a coach: the Outlook connection, which is that of the   *)
(* module this one extends, beside the times that are generated from the   *)
(* calendar and booked. The parts share no state: what Graph answers about *)
(* the calendar is a free choice of each.                                  *)
(***************************************************************************)
EXTENDS CalendarConnection

CONSTANTS
  DayLength, Ahead, WeekLength, Horizon, DefaultLength,
  HoursSent, Lengths, Meetings,
  Sessions,
  Readers,    \* calls of getBookableSlots in flight
  MaxClock

VARIABLES hours, length, linked, busy, booked, reading, page, warning, clock

connectionVars == vars
timesVars == <<hours, length, linked, busy, booked, reading, page, warning, clock>>

Times == INSTANCE BookableTimes WITH
  Calls <- Readers, MaxNow <- MaxClock,
  sessions <- booked, outlook <- busy, call <- reading, now <- clock

Window == [day : Nat, start : Nat, end : Nat]

\* Days, weeks and sessions have a length. The format of a window's times admits
\* any two digits for the hour, so that a window may end after its day.
ASSUME CalendarAssumption ==
  /\ {DayLength, WeekLength, DefaultLength} \subseteq Nat \ {0}
  /\ Ahead \in Int /\ Horizon \in Nat
  /\ Lengths \subseteq Nat \ {0}
  /\ HoursSent \subseteq SUBSET Window
  /\ Meetings \subseteq [start : Int, end : Int]

\* The windows end with their day at the latest. The code does not see to it: a format
\* and an order of start and end is all it asks of them.
HoursWithinDays == \A windows \in HoursSent : \A w \in windows : w.end <= DayLength

CoachInit == Init /\ Times!Init

CoachNext ==
  \/ Next /\ UNCHANGED timesVars
  \/ Times!Next /\ UNCHANGED connectionVars

CoachSpec == CoachInit /\ [][CoachNext]_<<connectionVars, timesVars>>

-----------------------------------------------------------------------------
(* What the times promise, from the properties BookableTimes states. What the *)
(* connection promises is stated by CalendarConnection itself.               *)

\* The times of one page never overlap, so that taking one does not exclude another.
OffersFitTogether == Times!OffersFitTogether

\* No time of a page overlaps a meeting, what is booked is what was offered, and a
\* window is warned of exactly when it offers nothing.
OffersStand ==
  Times!OffersAvoidMeetings /\ Times!BookedAsOffered /\ Times!WarningMatchesOffers

=============================================================================
