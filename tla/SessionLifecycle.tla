-------------------------- MODULE SessionLifecycle --------------------------
(***************************************************************************)
(* What coaching promises about a session, without rows, slots and         *)
(* calendars: a session is requested, agreed on and then held or missed,   *)
(* and once it is agreed on, it is called off or moved only when one party *)
(* has asked for it first. A question that is answered with no leaves      *)
(* everything as it was. CoachingSessions implements this when handlers do *)
(* not overlap.                                                            *)
(***************************************************************************)

CONSTANTS Sessions, Parties, Times, NoTime

VARIABLES
  stage,     \* none, requested, agreed, held, missed or off
  time,      \* when the session is to be
  cancelAsk, \* the party that has asked to call it off, or "none"
  moveAsk    \* the time the coach has proposed, or NoTime

lifecycle == <<stage, time, cancelAsk, moveAsk>>

Init ==
  /\ stage = [s \in Sessions |-> "none"]
  /\ time = [s \in Sessions |-> NoTime]
  /\ cancelAsk = [s \in Sessions |-> "none"]
  /\ moveAsk = [s \in Sessions |-> NoTime]

NoQuestion(s) == cancelAsk[s] = "none" /\ moveAsk[s] = NoTime

ClearQuestions(s) ==
  /\ cancelAsk' = [cancelAsk EXCEPT ![s] = "none"]
  /\ moveAsk' = [moveAsk EXCEPT ![s] = NoTime]

Becomes(s, new) ==
  /\ stage' = [stage EXCEPT ![s] = new]
  /\ UNCHANGED time

Request(s) ==
  /\ stage[s] = "none"
  /\ stage' = [stage EXCEPT ![s] = "requested"]
  /\ \E t \in Times : time' = [time EXCEPT ![s] = t]
  /\ UNCHANGED <<cancelAsk, moveAsk>>

\* Without a question open: the coach agrees, or either party backs out of a
\* request; an agreed session takes place or is missed.
Proceed(s) ==
  /\ NoQuestion(s)
  /\ \/ stage[s] = "requested" /\ \E new \in {"agreed", "off"} : Becomes(s, new)
     \/ stage[s] = "agreed" /\ \E new \in {"held", "missed"} : Becomes(s, new)
  /\ UNCHANGED <<cancelAsk, moveAsk>>

AskCancel(s) ==
  /\ stage[s] = "agreed" /\ NoQuestion(s)
  /\ \E p \in Parties : cancelAsk' = [cancelAsk EXCEPT ![s] = p]
  /\ UNCHANGED <<stage, time, moveAsk>>

AnswerCancel(s) ==
  /\ cancelAsk[s] # "none" /\ moveAsk[s] = NoTime
  /\ Becomes(s, "off") \/ Becomes(s, "agreed")
  /\ ClearQuestions(s)

AskMove(s) ==
  /\ stage[s] \in {"requested", "agreed", "missed"}
  /\ \E t \in Times \ {time[s]} : moveAsk' = [moveAsk EXCEPT ![s] = t]
  /\ UNCHANGED <<stage, time, cancelAsk>>

AgreeMove(s) ==
  /\ moveAsk[s] # NoTime
  /\ stage' = [stage EXCEPT ![s] = "agreed"]
  /\ time' = [time EXCEPT ![s] = moveAsk[s]]
  /\ ClearQuestions(s)

\* No to a new time: a request falls, and so does a session that was to be
\* called off; anything else stays as it is.
RefuseMove(s) ==
  /\ moveAsk[s] # NoTime
  /\ IF stage[s] = "requested" \/ cancelAsk[s] # "none"
     THEN Becomes(s, "off")
     ELSE UNCHANGED <<stage, time>>
  /\ ClearQuestions(s)

WithdrawMove(s) ==
  /\ moveAsk[s] # NoTime
  /\ moveAsk' = [moveAsk EXCEPT ![s] = NoTime]
  /\ UNCHANGED <<stage, time, cancelAsk>>

Step(s) ==
  \/ Request(s)
  \/ Proceed(s)
  \/ AskCancel(s)
  \/ AnswerCancel(s)
  \/ AskMove(s)
  \/ AgreeMove(s)
  \/ RefuseMove(s)
  \/ WithdrawMove(s)

Next == \E s \in Sessions : Step(s)

Spec == Init /\ [][Next]_lifecycle

=============================================================================
