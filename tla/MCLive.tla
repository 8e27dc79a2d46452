-------------------------------- MODULE MCLive --------------------------------
(***************************************************************************)
(* Small instances of the parts of Live. They share no state; a behaviour  *)
(* is one of a part chosen at the start, while the others stay as they     *)
(* begin, and the fairness of a part asks for steps of that part.          *)
(***************************************************************************)
EXTENDS Live, TLC

VARIABLE part

\* Answers of the model: empty, incomplete, repeated, unlabelled, too long, foreign.
Of(u) == [url |-> u, complete |-> TRUE, labelled |-> TRUE]
Incomplete == [Of("a") EXCEPT !.complete = FALSE]
Answers ==
  {<<Incomplete, Of("a")>>, << >>, <<Incomplete>>, <<Of("a")>>,
   <<Of("a"), Of("a"), Of("b")>>,
   <<Incomplete, [Of("x") EXCEPT !.labelled = FALSE], Of("x"), Of("b"), Of("a")>>}

MCInit ==
  /\ part \in {"clock", "streams", "community", "courses", "decisions"}
  /\ LiveInit
  /\ part # "decisions" => hrUsers = {}

MCNext ==
  /\ UNCHANGED part
  /\ \/ part = "clock" /\ Clock!Next
        /\ UNCHANGED <<streamVars, noticeVars, courseVars, decisionVars>>
     \/ part = "streams" /\ Next
        /\ UNCHANGED <<clockVars, noticeVars, courseVars, decisionVars>>
     \/ part = "community" /\ Notified!Next
        /\ UNCHANGED <<clockVars, streamVars, courseVars, decisionVars>>
     \/ part = "courses" /\ Courses!Next
        /\ UNCHANGED <<clockVars, streamVars, noticeVars, decisionVars>>
     \/ part = "decisions" /\ Decisions!Next
        /\ UNCHANGED <<clockVars, streamVars, noticeVars, courseVars>>

\* The fairness of ApprovalClock and of Notifications, for behaviours of that part.
MCFairness ==
  /\ WF_clockVars(part = "clock" /\ Clock!Sweep)
  /\ \A n \in Ids : WF_streamVars(part = "streams" /\ Push(n))
  /\ \A t \in Tabs :
       /\ WF_streamVars(part = "streams" /\ Fetch(t))
       /\ WF_streamVars(part = "streams" /\ Replay(t))

MCSpec ==
  /\ MCInit
  /\ [][MCNext]_<<part, clockVars, streamVars, noticeVars, courseVars, decisionVars>>
  /\ MCFairness

=============================================================================
