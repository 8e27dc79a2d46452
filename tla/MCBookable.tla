------------------------------ MODULE MCBookable ------------------------------
(* A small instance of BookableTimes: office days of six units, two of them ahead. *)
EXTENDS BookableTimes

Span(a, b) == [start |-> a, end |-> b]
Window(d, a, b) == [day |-> d, start |-> a, end |-> b]

SomeHours ==
  {{Window(0, 0, 2), Window(0, 2, 4)}, {Window(0, 1, 3), Window(0, 2, 4)},
   {Window(1, 1, 3), Window(1, 4, 6)}}

\* One on the first day of the office, before midnight in UTC, one on its second day.
SomeMeetings == {Span(5, 6), Span(12, 13)}

=============================================================================
