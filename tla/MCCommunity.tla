------------------------------ MODULE MCCommunity ------------------------------
(***************************************************************************)
(* Small instances of the parts of Community. They share no state; a       *)
(* behaviour is one of a part chosen at the start, while the others stay   *)
(* as they begin.                                                          *)
(***************************************************************************)
EXTENDS Community, TLC

VARIABLE part

\* Praise and polls of a member, a reader who moderates. Edits, deletions and pins
\* of one post run one after the other.
OneAfterTheOther == {{"update", "delete"}, {"pin", "delete"}}
Bare == [title |-> TRUE, html |-> "none", body |-> TRUE, badge |-> TRUE,
         praised |-> TRUE, options |-> {"o1", "o2"}]
SomeDrafts == {Bare, [Bare EXCEPT !.html = "text"],
               [Bare EXCEPT !.html = "unsafe", !.body = FALSE, !.title = FALSE]}
Omit == [title |-> "omitted", html |-> "omitted", body |-> "omitted", badge |-> "omitted"]
SomeEdits == {[Omit EXCEPT !.title = "empty"], [Omit EXCEPT !.html = "text"],
              [Omit EXCEPT !.html = "unsafe"], [Omit EXCEPT !.body = "empty"],
              [Omit EXCEPT !.badge = "empty", !.title = "some"]}

\* A run of the reminder overlaps neither another run nor a change of the boost.
RemindersAlone == {{"remind"}, {"remind", "boost"}}

MCInit == part \in {"pages", "feed", "board", "balances", "guide"} /\ CommunityInit

MCNext ==
  /\ UNCHANGED part
  /\ \/ part = "pages" /\ Next
        /\ UNCHANGED <<feedVars, boardVars, balanceVars, guideVars>>
     \/ part = "feed" /\ Posted!Next
        /\ UNCHANGED <<pageVars, boardVars, balanceVars, guideVars>>
     \/ part = "board" /\ Board!Next
        /\ UNCHANGED <<pageVars, feedVars, balanceVars, guideVars>>
     \/ part = "guide" /\ Guide!Next
        /\ UNCHANGED <<pageVars, feedVars, boardVars, balanceVars>>
     \/ part = "balances" /\ Yearly!Next
        /\ UNCHANGED <<pageVars, feedVars, boardVars, guideVars>>

MCSpec ==
  MCInit /\ [][MCNext]_<<part, pageVars, feedVars, boardVars, balanceVars, guideVars>>

Symmetry == Permutations(Callers) \cup Permutations(Employees)

=============================================================================
