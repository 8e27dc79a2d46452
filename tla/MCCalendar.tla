------------------------------ MODULE MCCalendar ------------------------------
(***************************************************************************)
(* The calendar of a coach, a behaviour being about one of two parts:      *)
(*   connection  two handlers at work on the connection and its tokens;    *)
(*   times       the times generated from the calendar, with office days   *)
(*               of six units, two of them ahead.                          *)
(***************************************************************************)
EXTENDS CoachCalendar, TLC

VARIABLE part

Span(a, b) == [start |-> a, end |-> b]
At(d, a, b) == [day |-> d, start |-> a, end |-> b]

SomeHours ==
  {{At(0, 0, 2), At(0, 2, 4)}, {At(0, 1, 3), At(0, 2, 4)}, {At(1, 1, 3), At(1, 4, 6)}}

\* One on the first day of the office, before midnight in UTC, one on its second day.
SomeMeetings == {Span(5, 6), Span(12, 13)}

MCInit ==
  /\ part \in {"connection", "times"}
  /\ CoachInit
  /\ part = "connection" => busy = {} /\ ~linked

MCNext ==
  /\ UNCHANGED part
  /\ \/ part = "connection" /\ Next /\ UNCHANGED timesVars
     \/ part = "times" /\ Times!Next /\ UNCHANGED connectionVars

MCSpec == MCInit /\ [][MCNext]_<<part, connectionVars, timesVars>>

Symmetry == Permutations(Calls) \cup Permutations(MicrosoftAccounts)

=============================================================================
