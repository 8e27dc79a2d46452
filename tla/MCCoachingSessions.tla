------------------------- MODULE MCCoachingSessions -------------------------
(* Small instances of CoachingSessions. *)
EXTENDS CoachingSessions, TLC

Span(a, b) == [start |-> a, end |-> b]

\* Two that overlap without starting together, and one clear of both.
TwoTimes == {Span(1, 3), Span(2, 4)}
ThreeTimes == TwoTimes \cup {Span(5, 6)}

OneCycle == {"anna_kim"}
OneCycleCoach == [anna_kim |-> "kim"]
OneCycleEmployee == [anna_kim |-> "anna"]

AllButReplacements == Operations \ {"rejectReplacement"}
BookAndReplace == {"book", "confirm", "noShow", "propose", "rejectReplacement"}

Symmetry == Permutations(Sessions) \cup Permutations(Slots) \cup Permutations(Calls)

=============================================================================
