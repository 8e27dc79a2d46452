--------------------------- MODULE MCSessionScenes ---------------------------
(***************************************************************************)
(* Small instances of CoachingSessions, served one handler at a time, a    *)
(* behaviour being one of a scene chosen at the start:                     *)
(*   cycles  two sessions of three cycles that share a coach and an        *)
(*           employee, without the coach managing slots;                   *)
(*   slots   two sessions of the two cycles of one coach, who adds,        *)
(*           switches and removes slots between any two steps.             *)
(***************************************************************************)
EXTENDS CoachingSessions, TLC

VARIABLE scene

Span(a, b) == [start |-> a, end |-> b]

\* Two that overlap without starting together, and one clear of both.
ThreeTimes == {Span(1, 3), Span(2, 4), Span(5, 6)}
ApartTimes == {Span(1, 3), Span(5, 6)}

\* One employee with two coaches, and a second employee of the first coach.
ThreeCycles == {"anna_kim", "anna_lee", "bert_kim"}
CycleCoach == [anna_kim |-> "kim", anna_lee |-> "lee", bert_kim |-> "kim"]
CycleEmployee == [anna_kim |-> "anna", anna_lee |-> "anna", bert_kim |-> "bert"]

Answered == Operations \ {"rejectReplacement", "requestAnother", "graphFailure", "restart"}

\* A handler of the scene "slots" works for one coach, at times that are apart.
OfOneCoach(k) ==
  /\ k.row.cycle \notin {q \in Cycles : CoachOf[q] # "kim"}
  /\ k.entity.coach \in {"kim", NoCoach}
  /\ {k.row.at, k.row.proposed, k.entity.time} \subseteq ApartTimes \cup {NoTime}

ManagesSlots(k) == k.id \notin Sessions /\ k.todo # <<>>

MCInit == scene \in {"cycles", "slots"} /\ Init

MCNext ==
  /\ Next
  /\ UNCHANGED scene
  /\ scene = "cycles" => \A c \in Calls : ~ManagesSlots(call'[c])
  /\ scene = "slots" => \A c \in Calls : OfOneCoach(call'[c])

MCSpec == MCInit /\ [][MCNext]_<<scene, vars>>

Symmetry == Permutations(Sessions) \cup Permutations(Slots)

=============================================================================
