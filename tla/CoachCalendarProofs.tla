-------------------------- MODULE CoachCalendarProofs --------------------------
(***************************************************************************)
(* What the calendar of a coach promises. First the connection, as         *)
(* CalendarConnection has it, for any number of handlers, accounts, tokens *)
(* and events. The stored row says little by itself: what is inductive is  *)
(* that every row a handler holds was made of answers that belong          *)
(* together, however old it is, so that whichever is saved last leaves     *)
(* such a row; that a handler is done within a unit of the clock of its    *)
(* start, so that a token that is valid when it is looked up is so when it *)
(* is used; and that an event whose id was not returned is in the hands of *)
(* a handler that goes on to return it.                                    *)
(*                                                                         *)
(* Then the times, as BookableTimes has them, for days, weeks and sessions *)
(* of any length and any hours, meetings and readers. Every time on offer  *)
(* is a piece of a window on an office day; pieces of one window are a     *)
(* session apart, windows of a day do not overlap, and days are apart      *)
(* because no window outlasts its day (HoursWithinDays).                   *)
(***************************************************************************)
EXTENDS CoachCalendar, TLAPS, FiniteSetTheorems

Answer == [account : MicrosoftAccounts, renewable : BOOLEAN, expires : 0..(MaxNow + Life)]

AnswersOK == issued \in Seq(Answer) /\ Len(issued) <= MaxToken

\* The tokens of a row are of one account, and their expiry is recorded.
Together(answers, row) ==
  /\ row.access \in 1..Len(answers) /\ row.refresh \in 1..Len(answers)
  /\ answers[row.refresh].account = answers[row.access].account
  /\ answers[row.refresh].renewable
  /\ row.expires - answers[row.access].expires \in {0, 1}

ConnOK(answers, row) ==
  \/ row = NoConnection
  \/ row \in Connection /\ row.id # 0 /\ Together(answers, row)

\* What a handler k in flight holds, at a given time.
CallOK(answers, k, time) ==
  /\ k.task # "none" => k.at <= time /\ time <= k.at + 1
  /\ k.task \in {"persist", "label", "relabel"} => Together(answers, k.row)
  /\ k.task \in {"renew", "saveRenewed"} => Together(answers, k.row) /\ k.row.id # 0
  /\ k.task = "saveRenewed" => answers[k.row.access].expires >= k.at + Life
  /\ k.task = "saveLogin" => /\ k.token \in 1..Len(answers)
                             /\ answers[k.token].renewable
                             /\ answers[k.token].expires = k.at + Life
  /\ k.task = "graph" => /\ k.token \in 1..Len(answers)
                         /\ answers[k.token].expires > k.at + 1
  /\ k.event => k.creates /\ k.task \in {"lookUp", "renew", "saveRenewed", "graph"}

CallsOK == call \in [Calls -> CallState] /\ \A c \in Calls : CallOK(issued, call[c], now)

CountsOK == outlook \in 0..MaxEvents /\ reported \in Nat /\ now \in 0..MaxNow /\ NoEventIsLost

IInv == AnswersOK /\ ConnOK(issued, conn) /\ CallsOK /\ CountsOK

-----------------------------------------------------------------------------
(* Answers are only added *)

Grown(answers, more) ==
  /\ answers \in Seq(Answer) /\ more \in Seq(Answer)
  /\ Len(answers) <= Len(more)
  /\ \A i \in 1..Len(answers) : more[i] = answers[i]

LEMMA SameGrown ==
  ASSUME NEW answers \in Seq(Answer)
  PROVE  Grown(answers, answers)
  BY DEF Grown

LEMMA AppendGrown ==
  ASSUME NEW answers \in Seq(Answer), NEW answer \in Answer
  PROVE  Grown(answers, Append(answers, answer))
  BY DEF Grown

LEMMA TogetherStays ==
  ASSUME NEW answers, NEW more, Grown(answers, more), NEW row, Together(answers, row)
  PROVE  Together(more, row)
<1>1. row.access \in 1..Len(more) /\ row.refresh \in 1..Len(more)
  BY DEF Grown, Together
<1>2. more[row.access] = answers[row.access] /\ more[row.refresh] = answers[row.refresh]
  BY DEF Grown, Together
<1> QED BY <1>1, <1>2 DEF Together

LEMMA ConnStays ==
  ASSUME NEW answers, NEW more, Grown(answers, more), NEW row, ConnOK(answers, row)
  PROVE  ConnOK(more, row)
  BY TogetherStays DEF ConnOK

LEMMA CallStays ==
  ASSUME NEW answers, NEW more, Grown(answers, more), NEW k, NEW time,
         CallOK(answers, k, time)
  PROVE  CallOK(more, k, time)
<1>1. k.task \in {"persist", "label", "relabel", "renew", "saveRenewed"}
        => Together(answers, k.row) /\ Together(more, k.row)
  BY TogetherStays DEF CallOK
<1>2. k.task = "saveRenewed" => more[k.row.access] = answers[k.row.access]
  BY DEF CallOK, Together, Grown
<1>3. k.task \in {"saveLogin", "graph"} => /\ k.token \in 1..Len(more)
                                           /\ more[k.token] = answers[k.token]
  BY DEF CallOK, Grown
<1> QED BY <1>1, <1>2, <1>3 DEF CallOK

-----------------------------------------------------------------------------
(* A handler goes on as k *)

Events == {c \in Calls : call[c].event}

LEMMA EventsMove ==
  ASSUME call \in [Calls -> CallState], NEW c \in Calls, NEW k \in CallState,
         call' = [call EXCEPT ![c] = k]
  PROVE  /\ Cardinality(Events) \in Nat
         /\ k.event = call[c].event => Cardinality(Events') = Cardinality(Events)
         /\ k.event /\ ~call[c].event => Cardinality(Events') = Cardinality(Events) + 1
         /\ ~k.event /\ call[c].event => Cardinality(Events') = Cardinality(Events) - 1
<1>1. IsFiniteSet(Events)
  BY CallsAssumption, FS_Subset DEF Events
<1>2. c \in Events <=> call[c].event
  BY DEF Events
<1>3. ASSUME NEW d \in Calls PROVE call'[d] = IF d = c THEN k ELSE call[d]
  OBVIOUS
<1>4. call[c].event \in BOOLEAN /\ k.event \in BOOLEAN
  BY DEF CallState
<1>5. CASE k.event = call[c].event
  <2>1. Events' = Events
    BY <1>3, <1>5 DEF Events
  <2> QED BY <1>1, <1>5, <2>1, FS_CardinalityType
<1>6. CASE k.event /\ ~call[c].event
  <2>1. Events' = Events \cup {c}
    BY <1>3, <1>6 DEF Events
  <2> QED BY <1>1, <1>2, <1>6, <2>1, FS_AddElement, FS_CardinalityType
<1>7. CASE ~k.event /\ call[c].event
  <2>1. Events' = Events \ {c}
    BY <1>3, <1>7 DEF Events
  <2> QED BY <1>1, <1>2, <1>7, <2>1, FS_RemoveElement, FS_CardinalityType
<1> QED BY <1>4, <1>5, <1>6, <1>7

LEMMA CallMoves ==
  ASSUME IInv, NEW c \in Calls, NEW k \in CallState, call' = [call EXCEPT ![c] = k],
         Grown(issued, issued'), CallOK(issued', k, now), now' = now
  PROVE  CallsOK'
<1>1. call' \in [Calls -> CallState]
  BY DEF IInv, CallsOK
<1>2. ASSUME NEW d \in Calls PROVE CallOK(issued', call'[d], now')
  <2>1. CASE d = c
    BY <2>1 DEF IInv, CallsOK
  <2>2. CASE d # c
    <3>1. call'[d] = call[d] /\ CallOK(issued, call[d], now)
      BY <2>2 DEF IInv, CallsOK
    <3>2. CallOK(issued', call[d], now)
      BY <3>1, CallStays
    <3> QED BY <3>1, <3>2
  <2> QED BY <2>1, <2>2
<1> QED BY <1>1, <1>2 DEF CallsOK

\* The counts after a step that puts no event on the calendar and reports the one
\* that c stops holding.
LEMMA CountsStay ==
  ASSUME IInv, NEW c \in Calls, NEW k \in CallState, call' = [call EXCEPT ![c] = k],
         outlook' = outlook, now' = now,
         \/ k.event = call[c].event /\ reported' = reported
         \/ ~k.event /\ call[c].event /\ reported' = reported + 1
  PROVE  CountsOK'
<1>1. /\ outlook \in 0..MaxEvents /\ reported \in Nat /\ now \in 0..MaxNow
      /\ outlook = reported + Cardinality(Events)
  BY DEF IInv, CountsOK, NoEventIsLost, Events
<1>2. /\ Cardinality(Events) \in Nat
      /\ k.event = call[c].event => Cardinality(Events') = Cardinality(Events)
      /\ ~k.event /\ call[c].event => Cardinality(Events') = Cardinality(Events) - 1
  BY EventsMove DEF IInv, CallsOK
<1>3. outlook' = reported' + Cardinality(Events')
  BY <1>1, <1>2
<1> QED BY <1>1, <1>2, <1>3 DEF CountsOK, NoEventIsLost, Events

\* A handler goes on as k, and whatever it stores was made of answers that fit.
LEMMA Advance ==
  ASSUME IInv, NEW c \in Calls, NEW k \in CallState, call' = [call EXCEPT ![c] = k],
         Grown(issued, issued'), Len(issued') <= MaxToken, ConnOK(issued', conn'),
         CallOK(issued', k, now), now' = now, outlook' = outlook,
         \/ k.event = call[c].event /\ reported' = reported
         \/ ~k.event /\ call[c].event /\ reported' = reported + 1
  PROVE  IInv'
<1>1. AnswersOK'
  BY DEF Grown, AnswersOK
<1>2. CallsOK'
  BY CallMoves
<1>3. CountsOK'
  BY CountsStay
<1> QED BY <1>1, <1>2, <1>3 DEF IInv

LEMMA NoAnswer ==
  ASSUME IInv, issued' = issued
  PROVE  Grown(issued, issued') /\ Len(issued') <= MaxToken
  BY SameGrown DEF IInv, AnswersOK

LEMMA OneAnswer ==
  ASSUME IInv, NEW account \in MicrosoftAccounts, NEW renewable \in BOOLEAN,
         TokenRequest(account, renewable)
  PROVE  /\ Grown(issued, issued') /\ Len(issued') <= MaxToken
         /\ Len(issued') \in 1..MaxToken
         /\ issued'[Len(issued')] =
              [account |-> account, renewable |-> renewable, expires |-> now + Life]
<1> DEFINE answer == [account |-> account, renewable |-> renewable, expires |-> now + Life]
<1>1. now + Life \in 0..(MaxNow + Life)
  BY LifeAssumption, BoundsAssumption DEF IInv, CountsOK
<1>2. answer \in Answer
  BY <1>1 DEF Answer
<1>3. issued' = Append(issued, answer) /\ Len(issued) < MaxToken /\ issued \in Seq(Answer)
  BY DEF TokenRequest, IInv, AnswersOK
<1> HIDE DEF answer
<1>4. /\ Len(issued') = Len(issued) + 1 /\ issued'[Len(issued')] = answer
      /\ Len(issued) \in Nat
  BY <1>2, <1>3
<1> QED BY <1>2, <1>3, <1>4, AppendGrown, BoundsAssumption DEF answer

-----------------------------------------------------------------------------
(* The rows that are made *)

LEMMA ConnType ==
  ASSUME IInv
  PROVE  conn \in Connection /\ now \in 0..MaxNow /\ call \in [Calls -> CallState]
  BY LifeAssumption, BoundsAssumption
     DEF IInv, ConnOK, NoConnection, Connection, Tokens, CountsOK, CallsOK

\* The stored row with a new pair of tokens in it, up to a unit after the answer.
LEMMA StoredPair ==
  ASSUME IInv, NEW answers \in Seq(Answer), NEW t \in 1..Len(answers),
         Len(answers) <= MaxToken, answers[t].renewable,
         NEW e \in Int, answers[t].expires = e, now + Life - e \in {0, 1}
  PROVE  Stored(conn, t, TRUE) \in Connection /\ Together(answers, Stored(conn, t, TRUE))
<1> DEFINE row == Stored(conn, t, TRUE)
<1>1. conn \in Connection /\ now \in 0..MaxNow
  BY ConnType
<1>2. t \in Tokens /\ now + Life \in 0..(MaxNow + Life)
  BY <1>1, LifeAssumption, BoundsAssumption DEF Tokens
<1>3. row \in Connection /\ row.access = t /\ row.refresh = t /\ row.expires = now + Life
  BY <1>1, <1>2 DEF Stored, Connection
<1> HIDE DEF row
<1>4. /\ row.access \in 1..Len(answers) /\ row.refresh \in 1..Len(answers)
      /\ answers[row.refresh].account = answers[row.access].account
      /\ answers[row.refresh].renewable
  BY <1>3
<1>5. row.expires - answers[row.access].expires \in {0, 1}
  <2>1. now \in Int /\ Life \in Int
    BY <1>1, LifeAssumption, BoundsAssumption
  <2>2. PICK n \in Int : n = now + Life
    BY <2>1
  <2>3. answers[row.access].expires = e /\ row.expires = n
    BY <1>3, <2>2
  <2>4. n - e \in {0, 1}
    BY <2>1, <2>2
  <2> QED BY <2>3, <2>4
<1>6. Together(answers, row)
  BY <1>4, <1>5 DEF Together
<1> QED BY <1>3, <1>6 DEF row

LEMMA InsertedRow ==
  ASSUME NEW answers, NEW row \in Connection, Together(answers, row), Len(answers) <= MaxToken
  PROVE  Inserted(row) \in Connection /\ ConnOK(answers, Inserted(row))
         /\ Together(answers, Inserted(row))
<1> DEFINE new == Inserted(row)
<1>1. /\ new \in Connection /\ new.id # 0 /\ new.access = row.access
      /\ new.refresh = row.refresh /\ new.expires = row.expires
  BY DEF Inserted, Connection, Together
<1> HIDE DEF new
<1>2. Together(answers, new)
  BY <1>1 DEF Together
<1> QED BY <1>1, <1>2 DEF ConnOK, new

\* The label is not one of the tokens.
LEMMA Labelled ==
  ASSUME NEW answers, NEW row \in Connection, Together(answers, row),
         NEW account \in MicrosoftAccounts
  PROVE  /\ [row EXCEPT !.label = account] \in Connection
         /\ Together(answers, [row EXCEPT !.label = account])
<1> DEFINE new == [row EXCEPT !.label = account]
<1>1. /\ new \in Connection /\ new.access = row.access /\ new.refresh = row.refresh
      /\ new.expires = row.expires
  BY DEF Connection
<1> HIDE DEF new
<1>2. Together(answers, new)
  BY <1>1 DEF Together
<1> QED BY <1>1, <1>2 DEF new

\* A loaded row with the answer to its renewal in it.
LEMMA RenewedRow ==
  ASSUME NEW answers, NEW row \in Connection, Together(answers, row), NEW more,
         Grown(answers, more), NEW renewable \in BOOLEAN, Len(more) \in 1..MaxToken,
         now \in 0..MaxNow,
         more[Len(more)] = [account |-> answers[row.refresh].account,
                            renewable |-> renewable, expires |-> now + Life]
  PROVE  /\ Stored(row, Len(more), renewable) \in Connection
         /\ Together(more, Stored(row, Len(more), renewable))
         /\ Stored(row, Len(more), renewable).access = Len(more)
         /\ Stored(row, Len(more), renewable).id = row.id
<1> DEFINE new == Stored(row, Len(more), renewable)
           t == Len(more)
<1>1. t \in Tokens /\ now + Life \in 0..(MaxNow + Life)
  BY LifeAssumption, BoundsAssumption DEF Tokens
<1>2. /\ new \in Connection /\ new.access = t /\ new.expires = now + Life /\ new.id = row.id
      /\ new.refresh = IF renewable THEN t ELSE row.refresh
  BY <1>1 DEF Stored, Connection
<1>3. row.refresh \in 1..Len(more) /\ more[row.refresh] = answers[row.refresh]
  BY DEF Grown, Together
<1>4. /\ more[t].account = answers[row.refresh].account /\ more[t].expires = now + Life
      /\ more[t].renewable = renewable
  OBVIOUS
<1>5. answers[row.refresh].renewable
  BY DEF Together
<1> HIDE DEF new, t
<1>6. more[new.refresh].account = more[new.access].account /\ more[new.refresh].renewable
  BY <1>2, <1>3, <1>4, <1>5
<1>7. new.access \in 1..Len(more) /\ new.refresh \in 1..Len(more)
  BY <1>2, <1>3 DEF t
<1>8. new.expires - more[new.access].expires = 0
  BY <1>1, <1>2, <1>4
<1>9. Together(more, new)
  BY <1>6, <1>7, <1>8 DEF Together
<1> QED BY <1>2, <1>9 DEF new, t

-----------------------------------------------------------------------------
(* The actions *)

LEMMA IdleOK ==
  ASSUME NEW answers, NEW time
  PROVE  Idle \in CallState /\ ~Idle.event /\ CallOK(answers, Idle, time)
<1>1. Idle \in CallState
  BY LifeAssumption, BoundsAssumption
     DEF Idle, CallState, Tasks, Tokens, NoConnection, Connection
<1>2. Idle.task = "none" /\ ~Idle.event
  BY DEF Idle
<1> QED BY <1>1, <1>2 DEF CallOK

LEMMA Returns ==
  ASSUME IInv, NEW c \in Calls, Return(c), ~call[c].event, reported' = reported,
         issued' = issued, ConnOK(issued, conn'), now' = now, outlook' = outlook
  PROVE  IInv'
  BY IdleOK, NoAnswer, Advance, ConnType DEF Return, CallState

LEMMA Fails ==
  ASSUME IInv, NEW c \in Calls, Fail(c), issued' = issued, conn' = conn,
         now' = now, outlook' = outlook
  PROVE  IInv'
<1>1. ConnOK(issued', conn')
  BY DEF IInv
<1>2. Idle \in CallState /\ ~Idle.event /\ CallOK(issued', Idle, now)
  BY IdleOK
<1>3. Idle.event = call[c].event \/ call[c].event
  BY <1>2, ConnType DEF CallState
<1>4. reported' = IF call[c].event THEN reported + 1 ELSE reported
  BY DEF Fail, ReportedThough
<1>5. call' = [call EXCEPT ![c] = Idle]
  BY DEF Fail, Return
<1> QED BY <1>1, <1>2, <1>3, <1>4, <1>5, NoAnswer, Advance

\* A handler that starts, and one that goes on.
Loaded(task, row) == [Idle EXCEPT !.task = task, !.row = row, !.at = now]

SignedIn(token) == [Idle EXCEPT !.task = "saveLogin", !.token = token, !.at = now]

Asked(creates) == [Idle EXCEPT !.task = "lookUp", !.creates = creates, !.at = now]

Gone(c, task, row) == [call[c] EXCEPT !.task = task, !.row = row]

Armed(c, token) == [call[c] EXCEPT !.task = "graph", !.token = token]

LEMMA Holds ==
  ASSUME IInv, NEW c \in Calls
  PROVE  call[c] \in CallState /\ CallOK(issued, call[c], now) /\ ConnOK(issued, conn)
  BY DEF IInv, CallsOK

LEMMA EmptyHanded ==
  ASSUME IInv, NEW c \in Calls,
         call[c].task \notin {"lookUp", "renew", "saveRenewed", "graph"}
  PROVE  call[c].event = FALSE
  BY Holds DEF CallOK, CallState

LEMMA StartsAs ==
  ASSUME IInv, NEW c \in Calls, NEW k \in CallState,
         call[c].task = "none", k.event = FALSE, call' = [call EXCEPT ![c] = k],
         Grown(issued, issued'), Len(issued') <= MaxToken, CallOK(issued', k, now),
         conn' = conn, outlook' = outlook, reported' = reported, now' = now
  PROVE  IInv'
<1>1. k.event = call[c].event
  BY EmptyHanded
<1>2. ConnOK(issued', conn')
  BY Holds, ConnStays
<1> QED BY <1>1, <1>2, Advance

LEMMA GoesOnAs ==
  ASSUME IInv, NEW c \in Calls, NEW task \in Tasks, NEW row \in Connection, Then(c, task, row)
  PROVE  /\ call' = [call EXCEPT ![c] = Gone(c, task, row)]
         /\ Gone(c, task, row) \in CallState
         /\ Gone(c, task, row).task = task /\ Gone(c, task, row).row = row
         /\ Gone(c, task, row).token = call[c].token
         /\ Gone(c, task, row).creates = call[c].creates
         /\ Gone(c, task, row).event = call[c].event
         /\ Gone(c, task, row).at = call[c].at
<1>1. call[c] \in CallState /\ call \in [Calls -> CallState]
  BY Holds, ConnType
<1>2. call' = [call EXCEPT ![c] = Gone(c, task, row)]
  BY <1>1 DEF Then, Gone
<1> QED BY <1>1, <1>2 DEF Gone, CallState

LEMMA ArmedWith ==
  ASSUME IInv, NEW c \in Calls, NEW token \in Tokens,
         call' = [call EXCEPT ![c].task = "graph", ![c].token = token]
  PROVE  /\ call' = [call EXCEPT ![c] = Armed(c, token)]
         /\ Armed(c, token) \in CallState
         /\ Armed(c, token).task = "graph" /\ Armed(c, token).token = token
         /\ Armed(c, token).creates = call[c].creates
         /\ Armed(c, token).event = call[c].event
         /\ Armed(c, token).at = call[c].at
<1>1. call[c] \in CallState /\ call \in [Calls -> CallState]
  BY Holds, ConnType
<1>2. call' = [call EXCEPT ![c] = Armed(c, token)]
  BY <1>1 DEF Armed
<1> QED BY <1>1, <1>2 DEF Armed, CallState, Tasks

LEMMA Blank ==
  ASSUME IInv
  PROVE  Idle \in CallState /\ Idle.event = FALSE /\ now \in 0..MaxNow
  BY IdleOK, ConnType DEF CallState

LEMMA LoadedAs ==
  ASSUME IInv, NEW task \in Tasks, NEW row \in Connection
  PROVE  /\ Loaded(task, row) \in CallState /\ Loaded(task, row).event = FALSE
         /\ Loaded(task, row).task = task /\ Loaded(task, row).row = row
         /\ Loaded(task, row).at = now
  BY Blank DEF Loaded, CallState

LEMMA SignedInAs ==
  ASSUME IInv, NEW token \in Tokens
  PROVE  /\ SignedIn(token) \in CallState /\ SignedIn(token).event = FALSE
         /\ SignedIn(token).task = "saveLogin" /\ SignedIn(token).token = token
         /\ SignedIn(token).at = now
  BY Blank DEF SignedIn, CallState, Tasks

LEMMA AskedAs ==
  ASSUME IInv, NEW creates \in BOOLEAN
  PROVE  /\ Asked(creates) \in CallState /\ Asked(creates).event = FALSE
         /\ Asked(creates).task = "lookUp" /\ Asked(creates).at = now
  BY Blank DEF Asked, CallState, Tasks

LEMMA AnswerType ==
  ASSUME NEW answers \in Seq(Answer), NEW t \in 1..Len(answers)
  PROVE  /\ answers[t].account \in MicrosoftAccounts /\ answers[t].renewable \in BOOLEAN
         /\ answers[t].expires \in 0..(MaxNow + Life) /\ answers[t].expires \in Int
<1>1. answers[t] \in Answer
  OBVIOUS
<1> QED BY <1>1, LifeAssumption, BoundsAssumption DEF Answer

LEMMA Connecting ==
  ASSUME IInv, NEW c \in Calls, Connect(c)
  PROVE  IInv'
<1>1. PICK account \in MicrosoftAccounts :
        /\ TokenRequest(account, TRUE)
        /\ Start(c, "persist", Stored(conn, Len(issued'), TRUE))
  BY DEF Connect
<1> DEFINE t == Len(issued')
           row == Stored(conn, t, TRUE)
           k == Loaded("persist", row)
<1>2. /\ Grown(issued, issued') /\ Len(issued') <= MaxToken /\ t \in 1..MaxToken
      /\ issued'[t] = [account |-> account, renewable |-> TRUE, expires |-> now + Life]
  BY <1>1, OneAnswer
<1>3. /\ issued' \in Seq(Answer) /\ t \in 1..Len(issued')
      /\ issued'[t].renewable /\ issued'[t].expires = now + Life
  BY <1>2, BoundsAssumption DEF Grown
<1>4. now \in Int /\ now + Life \in Int /\ now + Life - (now + Life) \in {0, 1}
  BY ConnType, LifeAssumption, BoundsAssumption
<1> HIDE DEF t
<1>5. row \in Connection /\ Together(issued', row)
  BY <1>2, <1>3, <1>4, StoredPair
<1>6. call' = [call EXCEPT ![c] = k]
  BY <1>1 DEF Start, Loaded, t
<1> HIDE DEF row
<1>7. /\ k \in CallState /\ k.event = FALSE /\ k.task = "persist"
      /\ k.row = row /\ k.at = now
  <2>1. "persist" \in Tasks
    BY DEF Tasks
  <2> QED BY <1>5, <2>1, LoadedAs
<1> HIDE DEF k
<1>8. CallOK(issued', k, now)
  BY <1>4, <1>5, <1>7 DEF CallOK
<1>9. /\ call[c].task = "none" /\ conn' = conn /\ outlook' = outlook
      /\ reported' = reported /\ now' = now
  BY DEF Connect
<1> QED BY <1>2, <1>6, <1>7, <1>8, <1>9, StartsAs

LEMMA Persisting ==
  ASSUME IInv, NEW c \in Calls, Persist(c)
  PROVE  IInv'
<1> DEFINE row == call[c].row
           new == Inserted(row)
           k == Gone(c, "label", new)
<1>1. /\ call[c].task = "persist" /\ issued' = issued /\ outlook' = outlook
      /\ reported' = reported /\ now' = now
  BY DEF Persist
<1>2. row \in Connection /\ Together(issued, row) /\ call[c].event = FALSE
  BY <1>1, Holds, EmptyHanded DEF CallOK, CallState
<1>3. new \in Connection /\ ConnOK(issued, new) /\ Together(issued, new)
  BY <1>2, InsertedRow DEF IInv, AnswersOK
<1>4. CASE conn' = new /\ Then(c, "label", new)
  <2>1. "label" \in Tasks
    BY DEF Tasks
  <2> HIDE DEF new
  <2>2. /\ call' = [call EXCEPT ![c] = k] /\ k \in CallState /\ k.task = "label"
        /\ k.row = new /\ k.event = call[c].event /\ k.at = call[c].at
    BY <1>3, <1>4, <2>1, GoesOnAs
  <2> HIDE DEF k
  <2>3. CallOK(issued, k, now)
    BY <1>1, <1>2, <1>3, <2>2, Holds DEF CallOK
  <2> QED BY <1>1, <1>3, <1>4, <2>2, <2>3, NoAnswer, Advance
<1>5. CASE Return(c) /\ conn' = conn
  BY <1>1, <1>2, <1>5, Holds, Returns
<1> QED BY <1>4, <1>5 DEF Persist

LEMMA Labelling ==
  ASSUME IInv, NEW c \in Calls, Label(c)
  PROVE  IInv'
<1> DEFINE row == call[c].row
           account == issued[row.access].account
           new == [row EXCEPT !.label = account]
           k == Gone(c, "relabel", new)
<1>1. /\ call[c].task = "label" /\ issued' = issued /\ outlook' = outlook
      /\ reported' = reported /\ now' = now /\ conn' = conn
  BY DEF Label
<1>2. row \in Connection /\ Together(issued, row) /\ call[c].event = FALSE
  BY <1>1, Holds, EmptyHanded DEF CallOK, CallState
<1>3. account \in MicrosoftAccounts
  BY <1>2, AnswerType DEF IInv, AnswersOK, Together
<1>4. new \in Connection /\ Together(issued, new)
  <2> HIDE DEF row, account
  <2> QED BY <1>2, <1>3, Labelled
<1>5. CASE Then(c, "relabel", new)
  <2>1. "relabel" \in Tasks
    BY DEF Tasks
  <2> HIDE DEF new
  <2>2. /\ call' = [call EXCEPT ![c] = k] /\ k \in CallState /\ k.task = "relabel"
        /\ k.row = new /\ k.event = call[c].event /\ k.at = call[c].at
    BY <1>4, <1>5, <2>1, GoesOnAs
  <2> HIDE DEF k
  <2>3. CallOK(issued, k, now)
    BY <1>1, <1>2, <1>4, <2>2, Holds DEF CallOK
  <2> QED BY <1>1, <2>2, <2>3, Holds, NoAnswer, Advance
<1>6. CASE Return(c)
  BY <1>1, <1>2, <1>6, Holds, Returns
<1> QED BY <1>5, <1>6 DEF Label

LEMMA SavingLogin ==
  ASSUME IInv, NEW c \in Calls, SaveLoginConnection(c)
  PROVE  IInv'
<1>1. PICK account \in MicrosoftAccounts :
        /\ TokenRequest(account, TRUE)
        /\ call' = [call EXCEPT ![c] = [Idle EXCEPT
                      !.task = "saveLogin", !.token = Len(issued'), !.at = now]]
  BY DEF SaveLoginConnection
<1> DEFINE t == Len(issued')
           k == SignedIn(t)
<1>2. /\ Grown(issued, issued') /\ Len(issued') <= MaxToken /\ t \in 1..MaxToken
      /\ issued'[t] = [account |-> account, renewable |-> TRUE, expires |-> now + Life]
  BY <1>1, OneAnswer
<1>3. /\ t \in 1..Len(issued') /\ t \in Tokens
      /\ issued'[t].renewable /\ issued'[t].expires = now + Life
  BY <1>2, BoundsAssumption DEF Tokens
<1>4. call' = [call EXCEPT ![c] = k]
  BY <1>1 DEF SignedIn
<1> HIDE DEF t
<1>5. /\ k \in CallState /\ k.event = FALSE /\ k.task = "saveLogin" /\ k.token = t
      /\ k.at = now
  BY <1>3, SignedInAs
<1>6. now \in Int
  BY ConnType, BoundsAssumption
<1> HIDE DEF k
<1>7. CallOK(issued', k, now)
  BY <1>3, <1>5, <1>6 DEF CallOK
<1>8. /\ call[c].task = "none" /\ conn' = conn /\ outlook' = outlook
      /\ reported' = reported /\ now' = now
  BY DEF SaveLoginConnection
<1> QED BY <1>2, <1>4, <1>5, <1>7, <1>8, StartsAs

\* A handler that is done within a unit stamps its answer at most a unit late.
LEMMA Delayed ==
  ASSUME NEW at \in Int, NEW time \in Int, NEW life \in Int, at <= time, time <= at + 1
  PROVE  at + life \in Int /\ (time + life) - (at + life) \in {0, 1}
<1>1. time = at \/ time = at + 1
  OBVIOUS
<1> QED BY <1>1

LEMMA StampingLogin ==
  ASSUME IInv, NEW c \in Calls, StampLogin(c)
  PROVE  IInv'
<1> DEFINE t == call[c].token
           account == issued[t].account
           row == Stored(conn, t, TRUE)
           new == [row EXCEPT !.label = account]
           k == Gone(c, "relabel", new)
<1>1. /\ call[c].task = "saveLogin" /\ issued' = issued /\ outlook' = outlook
      /\ reported' = reported /\ now' = now /\ conn' = conn
      /\ Then(c, "relabel", new)
  BY DEF StampLogin
<1>2. /\ t \in 1..Len(issued) /\ issued[t].renewable
      /\ issued[t].expires = call[c].at + Life
      /\ call[c].at <= now /\ now <= call[c].at + 1
  BY <1>1, Holds DEF CallOK
<1>3. call[c].at \in Int /\ now \in Int /\ Life \in Int
  BY Holds, ConnType, LifeAssumption, BoundsAssumption DEF CallState
<1>4. issued \in Seq(Answer) /\ Len(issued) <= MaxToken
  BY DEF IInv, AnswersOK
<1>5. account \in MicrosoftAccounts
  BY <1>2, <1>4, AnswerType
<1>6. call[c].at + Life \in Int /\ now + Life - (call[c].at + Life) \in {0, 1}
  BY <1>2, <1>3, Delayed
<1> HIDE DEF t, account
<1>7. row \in Connection /\ Together(issued, row)
  BY <1>2, <1>4, <1>6, StoredPair
<1> HIDE DEF row
<1>8. new \in Connection /\ Together(issued, new)
  BY <1>5, <1>7, Labelled
<1>9. "relabel" \in Tasks
  BY DEF Tasks
<1> HIDE DEF new
<1>10. /\ call' = [call EXCEPT ![c] = k] /\ k \in CallState /\ k.task = "relabel"
       /\ k.row = new /\ k.event = call[c].event /\ k.at = call[c].at
  BY <1>1, <1>8, <1>9, GoesOnAs
<1>11. k.event = FALSE
  BY <1>1, <1>10, EmptyHanded
<1> HIDE DEF k
<1>12. CallOK(issued, k, now)
  BY <1>2, <1>8, <1>10, <1>11 DEF CallOK
<1> QED BY <1>1, <1>10, <1>12, Holds, NoAnswer, Advance

LEMMA Relabelling ==
  ASSUME IInv, NEW c \in Calls, Relabel(c)
  PROVE  IInv'
<1> DEFINE row == call[c].row
<1>1. /\ call[c].task = "relabel" /\ issued' = issued /\ outlook' = outlook
      /\ reported' = reported /\ now' = now /\ Return(c)
      /\ conn' = IF Storable(row) THEN Inserted(row) ELSE conn
  BY DEF Relabel
<1>2. row \in Connection /\ Together(issued, row) /\ call[c].event = FALSE
  BY <1>1, Holds, EmptyHanded DEF CallOK, CallState
<1>3. ConnOK(issued, Inserted(row))
  BY <1>2, InsertedRow DEF IInv, AnswersOK
<1>4. ConnOK(issued, conn')
  BY <1>1, <1>3, Holds
<1> QED BY <1>1, <1>2, <1>4, Returns

LEMMA Disconnecting ==
  ASSUME IInv, Disconnect
  PROVE  IInv'
<1>1. /\ conn' = NoConnection /\ issued' = issued /\ call' = call /\ outlook' = outlook
      /\ reported' = reported /\ now' = now
  BY DEF Disconnect
<1>2. AnswersOK' /\ CallsOK' /\ CountsOK'
  BY <1>1 DEF IInv, AnswersOK, CallsOK, CountsOK, NoEventIsLost
<1>3. ConnOK(issued', conn')
  BY <1>1 DEF ConnOK
<1> QED BY <1>2, <1>3 DEF IInv

LEMMA Using ==
  ASSUME IInv, NEW c \in Calls, Use(c)
  PROVE  IInv'
<1>1. PICK creates \in BOOLEAN : call' = [call EXCEPT ![c] = Asked(creates)]
  BY DEF Use, Asked
<1> DEFINE k == Asked(creates)
<1>2. /\ k \in CallState /\ k.event = FALSE /\ k.task = "lookUp" /\ k.at = now
      /\ call' = [call EXCEPT ![c] = k]
  BY <1>1, AskedAs
<1>3. now \in Int
  BY ConnType, BoundsAssumption
<1> HIDE DEF k
<1>4. CallOK(issued, k, now)
  BY <1>2, <1>3 DEF CallOK
<1>5. /\ call[c].task = "none" /\ issued' = issued /\ conn' = conn /\ outlook' = outlook
      /\ reported' = reported /\ now' = now
  BY DEF Use
<1> QED BY <1>2, <1>4, <1>5, NoAnswer, StartsAs

\* A token that is valid for more than a minute when it is looked up is still so when
\* the handler ends.
LEMMA LookingUp ==
  ASSUME IInv, NEW c \in Calls, LookUp(c)
  PROVE  IInv'
<1>1. /\ call[c].task = "lookUp" /\ issued' = issued /\ outlook' = outlook
      /\ now' = now /\ conn' = conn
  BY DEF LookUp
<1>2. /\ call[c].at <= now /\ now <= call[c].at + 1
      /\ call[c].event => call[c].creates
      /\ call[c].at \in Int /\ now \in Int
  BY <1>1, Holds, ConnType, BoundsAssumption DEF CallOK, CallState
<1>3. IsConnected => Together(issued, conn) /\ conn.id # 0 /\ conn \in Connection
  BY Holds DEF ConnOK, NoConnection, IsConnected
<1>4. CASE ~IsConnected /\ Fail(c)
  BY <1>1, <1>4, Fails
<1>5. CASE /\ IsConnected /\ StillValid(conn) /\ reported' = reported
           /\ call' = [call EXCEPT ![c].task = "graph", ![c].token = conn.access]
  <2> DEFINE t == conn.access
             k == Armed(c, t)
  <2>1. t \in 1..Len(issued) /\ t \in Tokens
    BY <1>3, <1>5 DEF Together, Connection
  <2>2. /\ call' = [call EXCEPT ![c] = k] /\ k \in CallState /\ k.task = "graph"
        /\ k.token = t /\ k.creates = call[c].creates /\ k.event = call[c].event
        /\ k.at = call[c].at
    BY <1>5, <2>1, ArmedWith
  <2>3. issued[t].expires \in Int /\ conn.expires \in Int
    BY <1>3, <1>5, <2>1, AnswerType, LifeAssumption, BoundsAssumption
       DEF IInv, AnswersOK, Connection
  <2>4. conn.expires - now > 2 /\ conn.expires - issued[t].expires \in {0, 1}
    BY <1>3, <1>5 DEF StillValid, Together
  <2>5. issued[t].expires > k.at + 1
    BY <1>2, <2>2, <2>3, <2>4
  <2> HIDE DEF k, t
  <2>6. CallOK(issued, k, now)
    BY <1>2, <2>1, <2>2, <2>5 DEF CallOK
  <2> QED BY <1>1, <1>5, <2>2, <2>6, Holds, NoAnswer, Advance
<1>6. CASE IsConnected /\ Then(c, "renew", conn) /\ reported' = reported
  <2> DEFINE k == Gone(c, "renew", conn)
  <2>1. "renew" \in Tasks
    BY DEF Tasks
  <2>2. /\ call' = [call EXCEPT ![c] = k] /\ k \in CallState /\ k.task = "renew"
        /\ k.row = conn /\ k.creates = call[c].creates /\ k.event = call[c].event
        /\ k.at = call[c].at
    BY <1>3, <1>6, <2>1, GoesOnAs
  <2> HIDE DEF k
  <2>3. CallOK(issued, k, now)
    BY <1>2, <1>3, <1>6, <2>2 DEF CallOK
  <2> QED BY <1>1, <1>6, <2>2, <2>3, Holds, NoAnswer, Advance
<1> QED BY <1>4, <1>5, <1>6 DEF LookUp

LEMMA Renewing ==
  ASSUME IInv, NEW c \in Calls, Renew(c)
  PROVE  IInv'
<1> DEFINE row == call[c].row
           account == issued[row.refresh].account
           t == Len(issued')
<1>1. call[c].task = "renew" /\ outlook' = outlook /\ now' = now /\ conn' = conn
  BY DEF Renew
<1>2. /\ call[c].at <= now /\ now <= call[c].at + 1
      /\ call[c].event => call[c].creates
      /\ call[c].at \in Int /\ now \in Int /\ now \in 0..MaxNow
  BY <1>1, Holds, ConnType, BoundsAssumption DEF CallOK, CallState
<1>3. row \in Connection /\ Together(issued, row) /\ row.id # 0
  BY <1>1, Holds DEF CallOK, CallState
<1>4. account \in MicrosoftAccounts
  BY <1>3, AnswerType DEF IInv, AnswersOK, Together
<1>5. CASE Fail(c) /\ issued' = issued
  BY <1>1, <1>5, Fails
<1>6. ASSUME NEW renewable \in BOOLEAN, TokenRequest(account, renewable),
             Then(c, "saveRenewed", Stored(row, t, renewable)), reported' = reported
      PROVE  IInv'
  <2> DEFINE new == Stored(row, t, renewable)
             k == Gone(c, "saveRenewed", new)
  <2>1. /\ Grown(issued, issued') /\ t <= MaxToken /\ t \in 1..MaxToken
        /\ issued'[t] = [account |-> account, renewable |-> renewable,
                         expires |-> now + Life]
    BY <1>4, <1>6, OneAnswer
  <2>2. /\ new \in Connection /\ Together(issued', new)
        /\ new.access = t /\ new.id = row.id
    BY <1>2, <1>3, <2>1, RenewedRow
  <2>3. "saveRenewed" \in Tasks
    BY DEF Tasks
  <2>4. issued'[t].expires >= call[c].at + Life
    BY <1>2, <2>1, LifeAssumption
  <2> HIDE DEF new, t
  <2>5. /\ call' = [call EXCEPT ![c] = k] /\ k \in CallState /\ k.task = "saveRenewed"
        /\ k.row = new /\ k.creates = call[c].creates /\ k.event = call[c].event
        /\ k.at = call[c].at
    BY <1>6, <2>2, <2>3, GoesOnAs DEF new
  <2> HIDE DEF k, row
  <2>6. CallOK(issued', k, now)
    BY <1>2, <1>3, <2>2, <2>4, <2>5 DEF CallOK
  <2>7. ConnOK(issued', conn')
    BY <1>1, <2>1, Holds, ConnStays
  <2> QED BY <1>1, <1>6, <2>1, <2>5, <2>6, <2>7, Advance DEF t
<1> QED BY <1>5, <1>6 DEF Renew

LEMMA SavingRenewed ==
  ASSUME IInv, NEW c \in Calls, SaveRenewed(c)
  PROVE  IInv'
<1> DEFINE row == call[c].row
           t == row.access
           k == Armed(c, t)
<1>1. /\ call[c].task = "saveRenewed" /\ issued' = issued /\ outlook' = outlook
      /\ now' = now
  BY DEF SaveRenewed
<1>2. /\ call[c].at <= now /\ now <= call[c].at + 1
      /\ call[c].event => call[c].creates
      /\ call[c].at \in Int /\ issued[t].expires >= call[c].at + Life
  BY <1>1, Holds, ConnType, BoundsAssumption DEF CallOK, CallState
<1>3. row \in Connection /\ Together(issued, row) /\ row.id # 0
  BY <1>1, Holds DEF CallOK, CallState
<1>4. t \in 1..Len(issued) /\ t \in Tokens
  BY <1>3 DEF Together, Connection
<1>5. CASE /\ conn' = row /\ reported' = reported
           /\ call' = [call EXCEPT ![c].task = "graph", ![c].token = t]
  <2>1. /\ call' = [call EXCEPT ![c] = k] /\ k \in CallState /\ k.task = "graph"
        /\ k.token = t /\ k.creates = call[c].creates /\ k.event = call[c].event
        /\ k.at = call[c].at
    BY <1>4, <1>5, ArmedWith
  <2>2. issued[t].expires \in Int
    BY <1>4, AnswerType DEF IInv, AnswersOK
  <2>3. issued[t].expires > k.at + 1
    BY <1>2, <2>1, <2>2, LifeAssumption
  <2>4. ConnOK(issued', conn')
    BY <1>1, <1>3, <1>5 DEF ConnOK
  <2> HIDE DEF k, t
  <2>5. CallOK(issued, k, now)
    BY <1>2, <1>4, <2>1, <2>3 DEF CallOK
  <2> QED BY <1>1, <1>5, <2>1, <2>4, <2>5, NoAnswer, Advance
<1>6. CASE Fail(c) /\ conn' = conn
  BY <1>1, <1>6, Fails
<1> QED BY <1>5, <1>6 DEF SaveRenewed

\* The event of a call is reported when Graph or its second read answers, and also
\* when that read fails.
LEMMA CallingGraph ==
  ASSUME IInv, NEW c \in Calls, Graph(c)
  PROVE  IInv'
<1> DEFINE done == call[c].event
<1>1. call[c].task = "graph" /\ issued' = issued /\ now' = now /\ conn' = conn
  BY DEF Graph
<1>2. /\ call[c].at <= now /\ now <= call[c].at + 1
      /\ done => call[c].creates
      /\ call[c].creates \in BOOLEAN /\ done \in BOOLEAN
  BY <1>1, Holds DEF CallOK, CallState
<1>3. Idle \in CallState /\ ~Idle.event /\ CallOK(issued', Idle, now)
  BY IdleOK
<1>4. ConnOK(issued', conn') /\ Grown(issued, issued') /\ Len(issued') <= MaxToken
  BY <1>1, Holds, NoAnswer
<1>5. CASE Fail(c) /\ outlook' = outlook
  BY <1>1, <1>5, Fails
<1>6. CASE /\ call[c].creates => done
           /\ reported' = reported + (IF call[c].creates THEN 1 ELSE 0)
           /\ Return(c) /\ outlook' = outlook
  <2>1. \/ Idle.event = done /\ reported' = reported
        \/ ~Idle.event /\ done /\ reported' = reported + 1
    <3>1. reported \in Nat /\ Idle.event = FALSE
      BY <1>3 DEF IInv, CountsOK, CallState
    <3>2. CASE call[c].creates
      BY <1>6, <3>1, <3>2
    <3>3. CASE ~call[c].creates
      <4>1. done = FALSE
        BY <1>2, <3>3
      <4>2. reported' = reported
        BY <1>6, <3>1, <3>3
      <4> QED BY <3>1, <4>1, <4>2
    <3> QED BY <3>2, <3>3
  <2>2. call' = [call EXCEPT ![c] = Idle]
    BY <1>6 DEF Return
  <2> QED BY <1>1, <1>3, <1>4, <1>6, <2>1, <2>2, Advance
<1>7. ASSUME call[c].creates, ~done, outlook < MaxEvents, outlook' = outlook + 1,
             \/ reported' = reported + 1 /\ Return(c)
             \/ /\ call' = [call EXCEPT ![c].event = TRUE, ![c].task = "lookUp"]
                /\ reported' = reported
      PROVE  IInv'
  <2> DEFINE k == [call[c] EXCEPT !.event = TRUE, !.task = "lookUp"]
  <2>1. /\ outlook \in 0..MaxEvents /\ reported \in Nat /\ now \in 0..MaxNow
        /\ outlook = reported + Cardinality(Events)
        /\ call \in [Calls -> CallState] /\ call[c] \in CallState
    BY Holds, ConnType DEF IInv, CountsOK, NoEventIsLost, Events
  <2>2. outlook' \in 0..MaxEvents
    BY <1>7, <2>1, BoundsAssumption
  <2>3. AnswersOK'
    BY <1>1 DEF IInv, AnswersOK
  <2>4. CASE reported' = reported + 1 /\ Return(c)
    <3>1. call' = [call EXCEPT ![c] = Idle]
      BY <2>4 DEF Return
    <3>2. CallsOK'
      BY <1>1, <1>3, <1>4, <3>1, CallMoves
    <3>3. Idle.event = call[c].event
      BY <1>2, <1>3, <1>7 DEF CallState
    <3>4. Cardinality(Events') = Cardinality(Events) /\ Cardinality(Events) \in Nat
      BY <1>3, <2>1, <3>1, <3>3, EventsMove
    <3>5. outlook' = reported' + Cardinality(Events') /\ reported' \in Nat
      BY <1>7, <2>1, <2>4, <3>4
    <3>6. CountsOK'
      BY <1>1, <2>1, <2>2, <3>5 DEF CountsOK, NoEventIsLost, Events
    <3> QED BY <1>4, <2>3, <3>2, <3>6 DEF IInv
  <2>5. CASE /\ call' = [call EXCEPT ![c].event = TRUE, ![c].task = "lookUp"]
             /\ reported' = reported
    <3>1. call' = [call EXCEPT ![c] = k]
      BY <2>1, <2>5
    <3>2. /\ k \in CallState /\ k.event /\ k.task = "lookUp" /\ k.at = call[c].at
          /\ k.creates = call[c].creates
      BY <2>1 DEF CallState, Tasks
    <3> HIDE DEF k
    <3>3. CallOK(issued', k, now)
      BY <1>2, <1>7, <3>2 DEF CallOK
    <3>4. CallsOK'
      BY <1>1, <1>4, <3>1, <3>2, <3>3, CallMoves
    <3>5. /\ Cardinality(Events') = Cardinality(Events) + 1
          /\ Cardinality(Events) \in Nat
      BY <1>7, <2>1, <3>1, <3>2, EventsMove
    <3>6. outlook' = reported' + Cardinality(Events') /\ reported' \in Nat
      BY <1>7, <2>1, <2>5, <3>5
    <3>7. CountsOK'
      BY <1>1, <2>1, <2>2, <3>6 DEF CountsOK, NoEventIsLost, Events
    <3> QED BY <1>4, <2>3, <3>4, <3>7 DEF IInv
  <2> QED BY <1>7, <2>4, <2>5
<1> QED BY <1>5, <1>6, <1>7 DEF Graph

LEMMA Ticking ==
  ASSUME IInv, Tick
  PROVE  IInv'
<1>1. /\ now < MaxNow /\ now' = now + 1 /\ conn' = conn /\ issued' = issued /\ call' = call
      /\ outlook' = outlook /\ reported' = reported
  BY DEF Tick
<1>2. now \in 0..MaxNow /\ now' \in 0..MaxNow
  BY <1>1, ConnType, BoundsAssumption
<1>3. AnswersOK' /\ CountsOK' /\ ConnOK(issued', conn')
  BY <1>1, <1>2 DEF IInv, AnswersOK, CountsOK, NoEventIsLost
<1>4. ASSUME NEW c \in Calls PROVE CallOK(issued, call[c], now')
  <2>1. call[c].task # "none" => call[c].at = now
    BY DEF Tick
  <2>2. call[c].task # "none" => call[c].at <= now' /\ now' <= call[c].at + 1
    BY <1>1, <1>2, <2>1
  <2> QED BY <2>2, Holds DEF CallOK
<1>5. CallsOK'
  BY <1>1, <1>4 DEF IInv, CallsOK
<1> QED BY <1>3, <1>5 DEF IInv

-----------------------------------------------------------------------------
(* What follows *)

LEMMA InitOK ==
  ASSUME Init
  PROVE  IInv
<1>1. call \in [Calls -> CallState] /\ \A c \in Calls : call[c] = Idle
  BY IdleOK DEF Init
<1>2. issued = << >> /\ conn = NoConnection /\ outlook = 0 /\ reported = 0 /\ now = 0
  BY DEF Init
<1>3. AnswersOK /\ ConnOK(issued, conn)
  BY <1>2, BoundsAssumption DEF AnswersOK, ConnOK
<1>4. CallsOK
  BY <1>1, IdleOK DEF CallsOK
<1>5. Events = {}
  BY <1>1, IdleOK DEF Events
<1>6. CountsOK
  BY <1>2, <1>5, FS_EmptySet, BoundsAssumption DEF CountsOK, NoEventIsLost, Events
<1> QED BY <1>3, <1>4, <1>6 DEF IInv

LEMMA StepOK ==
  ASSUME IInv, [Next]_vars
  PROVE  IInv'
<1>1. ASSUME NEW c \in Calls,
             \/ Connect(c) \/ Persist(c) \/ Label(c) \/ SaveLoginConnection(c)
             \/ StampLogin(c) \/ Relabel(c)
             \/ Use(c) \/ LookUp(c) \/ Renew(c) \/ SaveRenewed(c) \/ Graph(c)
      PROVE  IInv'
  BY <1>1, Connecting, Persisting, Labelling, SavingLogin, StampingLogin, Relabelling,
     Using, LookingUp, Renewing, SavingRenewed, CallingGraph
<1>2. CASE Disconnect
  BY <1>2, Disconnecting
<1>3. CASE Tick
  BY <1>3, Ticking
<1>4. CASE UNCHANGED vars
  BY <1>4 DEF vars, IInv, AnswersOK, CallsOK, CountsOK, NoEventIsLost
<1> QED BY <1>1, <1>2, <1>3, <1>4 DEF Next

\* The invariant that carries everything below: whatever a handler holds was made of
\* answers that belong together.
THEOREM ConnectionInvariant == Spec => []IInv
<1>1. Init => IInv
  BY InitOK
<1>2. IInv /\ [Next]_vars => IInv'
  BY StepOK
<1> QED BY <1>1, <1>2, PTL DEF Spec

LEMMA RowTogether ==
  ASSUME IInv
  PROVE  TokensStand
<1>1. conn \in Connection /\ now \in 0..MaxNow /\ call \in [Calls -> CallState]
  BY ConnType
<1>2. conn.id = 0 <=> conn.refresh = 0
  BY DEF IInv, ConnOK, NoConnection, Together
<1>3. Len(issued) \in Tokens
  BY BoundsAssumption DEF IInv, AnswersOK, Tokens
<1>4. {outlook, reported} \subseteq 0..MaxEvents
  <2>1. IsFiniteSet(Events)
    BY CallsAssumption, FS_Subset DEF Events
  <2>2. Cardinality(Events) \in Nat
    BY <2>1, FS_CardinalityType
  <2>3. /\ outlook \in 0..MaxEvents /\ reported \in Nat
        /\ outlook = reported + Cardinality(Events)
    BY DEF IInv, CountsOK, NoEventIsLost, Events
  <2> QED BY <2>2, <2>3, BoundsAssumption
<1>5. TokensBelongTogether
  BY DEF IInv, ConnOK, NoConnection, Together, TokensBelongTogether
<1> QED BY <1>1, <1>2, <1>3, <1>4, <1>5 DEF TokensStand, TypeOK

\* Whatever order connections, sign-ins, renewals and disconnections save in, with any
\* number of handlers at work: the stored access and refresh tokens are of one account,
\* the refresh token is one, and the stored expiry is that of the stored access token.
THEOREM TokensAlwaysStand == Spec => []TokensStand
<1>1. IInv => TokensStand
  BY RowTogether
<1> QED BY <1>1, ConnectionInvariant, PTL

LEMMA LiveToken ==
  ASSUME IInv
  PROVE  GraphGetsLiveTokens
<1>1. ASSUME NEW c \in Calls, call[c].task = "graph"
      PROVE  now < issued[call[c].token].expires
  <2>1. /\ call[c].at <= now /\ now <= call[c].at + 1
        /\ call[c].token \in 1..Len(issued)
        /\ issued[call[c].token].expires > call[c].at + 1
    BY <1>1, Holds DEF CallOK
  <2>2. call[c].at \in Int /\ now \in Int
    BY Holds, ConnType, BoundsAssumption DEF CallState
  <2>3. issued[call[c].token].expires \in Int
    BY <2>1, AnswerType DEF IInv, AnswersOK
  <2> QED BY <2>1, <2>2, <2>3
<1> QED BY <1>1 DEF GraphGetsLiveTokens

\* A call of Graph never carries a token that has expired: the minute a lookup asks for
\* covers both the late stamp of a sign-in and the handler's own time.
THEOREM GraphAlwaysGetsLiveTokens == Spec => []GraphGetsLiveTokens
<1>1. IInv => GraphGetsLiveTokens
  BY LiveToken
<1> QED BY <1>1, ConnectionInvariant, PTL

\* The id of every event put on the calendar is returned, or in the hands of the handler
\* that is still reading the event again.
THEOREM NoEventIsEverLost == Spec => []NoEventIsLost
<1>1. IInv => NoEventIsLost
  BY DEF IInv, CountsOK
<1> QED BY <1>1, ConnectionInvariant, PTL

-----------------------------------------------------------------------------
(* Times: days and instants *)

FitsDay(w) == w \in Window /\ w.end <= DayLength

HoursFit(windows) == Times!Publishable(windows) /\ \A w \in windows : FitsDay(w)

Interval == [start : Int, end : Int]

\* A stretch of time that lies in a window of a day.
Within(g, w, d) ==
  /\ g.start \in Int /\ g.end \in Int /\ g.start < g.end
  /\ d * DayLength + w.start <= g.start + Ahead
  /\ g.end + Ahead <= d * DayLength + w.end

LEMMA SomeLength ==
  /\ DayLength \in Nat \ {0} /\ WeekLength \in Nat \ {0} /\ DefaultLength \in Nat \ {0}
  /\ Ahead \in Int /\ Horizon \in Nat
  BY CalendarAssumption

\* A product with a later factor leaves room for one more.
LEMMA NextMultiple ==
  ASSUME NEW n \in Nat, NEW a \in Int, NEW b \in Int, a < b
  PROVE  (a + 1) * n <= b * n
<1>1. (b - (a + 1)) * n >= 0
  <2>1. \A x, y \in Nat : x * y >= 0
    OBVIOUS
  <2>2. b - (a + 1) \in Nat
    OBVIOUS
  <2> QED BY <2>1, <2>2
<1>2. (b - (a + 1)) * n = b * n - (a + 1) * n
  OBVIOUS
<1>3. b * n \in Int /\ (a + 1) * n \in Int
  OBVIOUS
<1> QED BY <1>1, <1>2, <1>3

LEMMA ProductInt ==
  ASSUME NEW a \in Int, NEW b \in Int
  PROVE  a * b \in Int /\ (a + 1) * b = a * b + b
  OBVIOUS

\* Days come from division with remainder.
LEMMA DivMod ==
  ASSUME NEW x \in Int, NEW n \in Nat \ {0}
  PROVE  /\ x \div n \in Int /\ x % n \in Int /\ 0 <= x % n /\ x % n < n
         /\ x = ((x \div n) * n) + (x % n)
  OBVIOUS

LEMMA DivUnique ==
  ASSUME NEW x \in Int, NEW n \in Nat \ {0}, NEW d \in Int,
         d * n <= x, x < d * n + n
  PROVE  x \div n = d /\ x % n = x - d * n
<1>1. /\ x \div n \in Int /\ x % n \in Int /\ 0 <= x % n /\ x % n < n
      /\ x = ((x \div n) * n) + (x % n)
  BY DivMod
<1> DEFINE q == x \div n  r == x % n
<1>2. q \in Int /\ r \in Int /\ 0 <= r /\ r < n /\ x = q * n + r
  BY <1>1
<1> HIDE DEF q, r
<1>3. ~(q < d)
  <2>1. ASSUME q < d PROVE FALSE
    <3>1. (q + 1) * n <= d * n
      BY <1>2, <2>1, NextMultiple
    <3>2. (q + 1) * n = q * n + n /\ q * n \in Int /\ d * n \in Int
      BY <1>2, ProductInt
    <3> QED BY <1>2, <3>1, <3>2
  <2> QED BY <2>1
<1>4. ~(d < q)
  <2>1. ASSUME d < q PROVE FALSE
    <3>1. (d + 1) * n <= q * n
      BY <1>2, <2>1, NextMultiple
    <3>2. (d + 1) * n = d * n + n /\ q * n \in Int /\ d * n \in Int
      BY <1>2, ProductInt
    <3> QED BY <1>2, <3>1, <3>2
  <2> QED BY <2>1
<1>5. q = d
  BY <1>2, <1>3, <1>4
<1>6. r = x - d * n
  <2>1. d * n \in Int
    BY ProductInt
  <2> QED BY <1>2, <1>5, <2>1
<1> QED BY <1>5, <1>6 DEF q, r

LEMMA DayOf ==
  ASSUME NEW i \in Int
  PROVE  /\ Times!WallDay(i) \in Int /\ Times!WallTime(i) \in 0..(DayLength - 1)
         /\ i + Ahead = Times!WallDay(i) * DayLength + Times!WallTime(i)
<1>1. i + Ahead \in Int /\ DayLength \in Nat \ {0}
  BY SomeLength
<1> QED BY <1>1, DivMod, SomeLength DEF Times!WallDay, Times!WallTime

LEMMA ThatDay ==
  ASSUME NEW i \in Int, NEW d \in Int,
         d * DayLength <= i + Ahead, i + Ahead < d * DayLength + DayLength
  PROVE  Times!WallDay(i) = d /\ Times!WallTime(i) = i + Ahead - d * DayLength
<1> DEFINE x == i + Ahead
<1>1. x \in Int /\ DayLength \in Nat \ {0} /\ i + Ahead = x
  BY SomeLength
<1>2. Times!WallDay(i) = x \div DayLength /\ Times!WallTime(i) = x % DayLength
  BY DEF Times!WallDay, Times!WallTime
<1> HIDE DEF x
<1>3. d * DayLength <= x /\ x < d * DayLength + DayLength
  BY <1>1
<1>4. x \div DayLength = d /\ x % DayLength = x - d * DayLength
  BY <1>1, <1>3, DivUnique
<1>5. x - d * DayLength = i + Ahead - d * DayLength
  <2>1. d * DayLength \in Int
    BY SomeLength, ProductInt
  <2> QED BY <1>1, <2>1, SomeLength
<1> QED BY <1>2, <1>4, <1>5, Zenon

LEMMA ClockInt ==
  ASSUME NEW d \in Int, NEW x \in Int
  PROVE  /\ d * DayLength \in Int
         /\ Times!WallClockToUtc(d, x) \in Int
         /\ Times!WallClockToUtc(d, x) + Ahead = d * DayLength + x
<1>1. d * DayLength \in Int
  BY SomeLength, ProductInt
<1> QED BY <1>1, SomeLength DEF Times!WallClockToUtc

-----------------------------------------------------------------------------
(* Times: the grid of a window *)

\* The pieces of a window lie in it, and are apart from each other.
LEMMA Pieces ==
  ASSUME NEW w \in Window, NEW d \in Int, NEW len \in Nat \ {0},
         NEW g \in Times!Grid(w, d, len)
  PROVE  Within(g, w, d)
<1>1. PICK k \in Nat :
        /\ w.start + (k + 1) * len <= w.end
        /\ g = [start |-> Times!WallClockToUtc(d, w.start) + k * len,
                end |-> Times!WallClockToUtc(d, w.start) + (k + 1) * len]
  BY DEF Times!Grid, Window
<1>2. w.start \in Nat /\ w.end \in Nat
  BY DEF Window
<1> DEFINE p == k * len
<1>3. p \in Nat /\ (k + 1) * len = p + len
  BY ProductInt
<1> HIDE DEF p
<1>4. /\ Times!WallClockToUtc(d, w.start) \in Int /\ d * DayLength \in Int
      /\ Times!WallClockToUtc(d, w.start) + Ahead = d * DayLength + w.start
  <2>1. w.start \in Int
    BY <1>2
  <2> QED BY <2>1, ClockInt
<1> DEFINE b == Times!WallClockToUtc(d, w.start)  m == d * DayLength
<1>6. b \in Int /\ m \in Int /\ b + Ahead = m + w.start
  BY <1>4
<1>7. g = [start |-> b + k * len, end |-> b + (k + 1) * len]
  BY <1>1
<1>8. d * DayLength = m
  OBVIOUS
<1> HIDE DEF b, m
<1>5. g.start = b + p /\ g.end = b + (p + len) /\ w.start + (p + len) <= w.end
  BY <1>1, <1>3, <1>7 DEF p
<1> QED BY <1>2, <1>3, <1>5, <1>6, <1>8, SomeLength DEF Within

LEMMA PiecesApart ==
  ASSUME NEW w \in Window, NEW d \in Int, NEW len \in Nat \ {0},
         NEW g \in Times!Grid(w, d, len), NEW h \in Times!Grid(w, d, len), g # h
  PROVE  ~Times!Overlap(g, h)
<1> DEFINE b == Times!WallClockToUtc(d, w.start)
<1>1. b \in Int
  BY ClockInt DEF Window
<1> HIDE DEF b
<1>2. PICK k \in Nat : g = [start |-> b + k * len, end |-> b + (k + 1) * len]
  BY DEF Times!Grid, Window, b
<1>3. PICK l \in Nat : h = [start |-> b + l * len, end |-> b + (l + 1) * len]
  BY DEF Times!Grid, Window, b
<1>4. CASE k < l
  <2>1. (k + 1) * len <= l * len
    BY <1>4, NextMultiple
  <2>2. (k + 1) * len \in Int /\ l * len \in Int
    OBVIOUS
  <2>3. g.end <= h.start
    BY <1>1, <1>2, <1>3, <2>1, <2>2
  <2>4. g.end \in Int /\ h.start \in Int
    BY <1>1, <1>2, <1>3, <2>2
  <2> QED BY <2>3, <2>4 DEF Times!Overlap
<1>5. CASE l < k
  <2>1. (l + 1) * len <= k * len
    BY <1>5, NextMultiple
  <2>2. (l + 1) * len \in Int /\ k * len \in Int
    OBVIOUS
  <2>3. h.end <= g.start
    BY <1>1, <1>2, <1>3, <2>1, <2>2
  <2>4. h.end \in Int /\ g.start \in Int
    BY <1>1, <1>2, <1>3, <2>2
  <2> QED BY <2>3, <2>4 DEF Times!Overlap
<1>6. k # l
  BY <1>2, <1>3
<1> QED BY <1>4, <1>5, <1>6

\* The day of a piece is that of its window, and its wall clock lies in the window.
LEMMA PieceDay ==
  ASSUME NEW w, FitsDay(w), NEW d \in Int, NEW g, Within(g, w, d)
  PROVE  /\ Times!WallDay(g.start) = d
         /\ w.start <= Times!WallTime(g.start) /\ Times!WallTime(g.start) < w.end
         /\ Times!WallTime(g.start) = g.start + Ahead - d * DayLength
<1>1. /\ w.start \in Nat /\ w.end \in Nat /\ w.end <= DayLength
      /\ g.start \in Int /\ g.end \in Int /\ g.start < g.end
      /\ d * DayLength + w.start <= g.start + Ahead
      /\ g.end + Ahead <= d * DayLength + w.end
  BY DEF FitsDay, Window, Within
<1>2. d * DayLength \in Int
  BY SomeLength, ProductInt
<1>3. d * DayLength <= g.start + Ahead /\ g.start + Ahead < d * DayLength + DayLength
  BY <1>1, <1>2, SomeLength
<1>4. Times!WallDay(g.start) = d /\ Times!WallTime(g.start) = g.start + Ahead - d * DayLength
  BY <1>1, <1>3, ThatDay
<1> QED BY <1>1, <1>2, <1>4, SomeLength

\* What lies in windows that do not overlap, or on different days, does not overlap.
LEMMA WindowsApart ==
  ASSUME NEW w, NEW v, FitsDay(w), FitsDay(v), NEW d \in Int, NEW e \in Int,
         NEW g, NEW h, Within(g, w, d), Within(h, v, e),
         d = e => ~Times!Overlap(w, v)
  PROVE  ~Times!Overlap(g, h)
<1>1. /\ w.start \in Nat /\ w.end \in Nat /\ w.end <= DayLength
      /\ v.start \in Nat /\ v.end \in Nat /\ v.end <= DayLength
  BY DEF FitsDay, Window
<1>2. /\ g.start \in Int /\ g.end \in Int /\ h.start \in Int /\ h.end \in Int
      /\ d * DayLength + w.start <= g.start + Ahead
      /\ g.end + Ahead <= d * DayLength + w.end
      /\ e * DayLength + v.start <= h.start + Ahead
      /\ h.end + Ahead <= e * DayLength + v.end
  BY DEF Within
<1>3. /\ d * DayLength \in Int /\ e * DayLength \in Int
      /\ (d + 1) * DayLength = d * DayLength + DayLength
      /\ (e + 1) * DayLength = e * DayLength + DayLength
  BY SomeLength, ProductInt
<1>4. CASE d < e
  <2>1. (d + 1) * DayLength <= e * DayLength
    BY <1>4, NextMultiple, SomeLength
  <2>2. g.end <= h.start
    BY <1>1, <1>2, <1>3, <2>1, SomeLength
  <2> QED BY <2>2, <1>2 DEF Times!Overlap
<1>5. CASE e < d
  <2>1. (e + 1) * DayLength <= d * DayLength
    BY <1>5, NextMultiple, SomeLength
  <2>2. h.end <= g.start
    BY <1>1, <1>2, <1>3, <2>1, SomeLength
  <2> QED BY <2>2, <1>2 DEF Times!Overlap
<1>6. CASE d = e
  <2>1. w.end <= v.start \/ v.end <= w.start
    BY <1>1, <1>6 DEF Times!Overlap
  <2>2. g.end <= h.start \/ h.end <= g.start
    BY <1>1, <1>2, <1>3, <1>6, <2>1, SomeLength
  <2> QED BY <2>2, <1>2 DEF Times!Overlap
<1> QED BY <1>4, <1>5, <1>6

-----------------------------------------------------------------------------
(* Times: what is generated *)

ReadingState ==
  [task : {"none", "link", "busy", "sessions"}, warns : BOOLEAN,
   windows : SUBSET Window, hours : SUBSET Window, length : Nat, linked : BOOLEAN,
   at : Int, calendar : SUBSET Interval, all : SUBSET Interval]

\* The days of the horizon as the code asks Graph for them.
Covered(at) ==
  [start |-> Times!WallClockToUtc(Times!WallDay(at), 0),
   end |-> Times!WallClockToUtc(Times!WallDay(at) + Horizon, 0)]

\* What a call in flight holds. The calendar it has is what overlaps its days.
ReadingOK(f) ==
  /\ HoursFit(f.hours)
  /\ f.warns => f.windows = f.hours
  /\ f.task \in {"busy", "sessions"} => f.length # 0
  /\ f.task # "sessions" => f.all = {}
  /\ f.task = "sessions" =>
       \A m \in f.all : Times!Overlap(m, Covered(f.at)) => m \in f.calendar

\* A call that can generate.
Ready(f) == f \in ReadingState /\ HoursFit(f.hours) /\ f.length # 0

LEMMA DayInt ==
  ASSUME NEW at \in Int, NEW d \in Times!Days(at)
  PROVE  /\ d \in Int /\ Times!WallDay(at) \in Int
         /\ Times!WallDay(at) <= d /\ d < Times!WallDay(at) + Horizon
<1>1. Times!WallDay(at) \in Int
  BY DayOf
<1> QED BY <1>1, SomeLength DEF Times!Days

\* Every time on offer is a piece of a window of the hours, on a day of the horizon.
LEMMA FreeIsPiece ==
  ASSUME NEW f, Ready(f), NEW g \in Times!Free(f)
  PROVE  \E w \in f.hours, d \in Times!Days(f.at) :
           /\ w.day = Times!Weekday(d) /\ FitsDay(w)
           /\ g \in Times!Grid(w, d, f.length)
           /\ Within(g, w, d)
<1>1. g \in UNION {Times!Grid(wd[1], wd[2], f.length) : wd \in Times!Occasions(f)}
  BY DEF Times!Free, Times!Generated
<1>2. PICK wd \in Times!Occasions(f) : g \in Times!Grid(wd[1], wd[2], f.length)
  BY <1>1
<1>3. /\ wd[1] \in f.hours /\ wd[2] \in Times!Days(f.at)
      /\ wd[1].day = Times!Weekday(wd[2])
  BY DEF Times!Occasions
<1>4. FitsDay(wd[1]) /\ wd[1] \in Window /\ f.length \in Nat \ {0} /\ f.at \in Int
  BY <1>3 DEF Ready, HoursFit, FitsDay, ReadingState
<1>5. wd[2] \in Int
  BY <1>3, <1>4, DayInt
<1>6. Within(g, wd[1], wd[2])
  BY <1>2, <1>4, <1>5, Pieces
<1> QED BY <1>2, <1>3, <1>4, <1>6

\* A time on a page: its instants, on one day of the office or up to its midnight, and
\* their wall clocks.
Offer(t) ==
  \E s, e \in Int :
    /\ t = Times!Shown(s, e)
    /\ s < e /\ e + Ahead <= Times!WallDay(s) * DayLength + DayLength

LEMMA SlotsAreOffers ==
  ASSUME NEW f, Ready(f), NEW t \in Times!BookableSlots(f)
  PROVE  Offer(t)
<1>1. PICK g \in Times!Free(f) : t = Times!Shown(g.start, g.end)
  BY DEF Times!BookableSlots
<1>2. PICK w \in f.hours, d \in Times!Days(f.at) : FitsDay(w) /\ Within(g, w, d)
  BY FreeIsPiece
<1>3. d \in Int
  BY DayInt DEF Ready, ReadingState
<1>4. Times!WallDay(g.start) = d
  BY <1>2, <1>3, PieceDay
<1>5. /\ g.start \in Int /\ g.end \in Int /\ g.start < g.end
      /\ g.end + Ahead <= d * DayLength + w.end /\ w.end \in Nat /\ w.end <= DayLength
  BY <1>2 DEF Within, FitsDay, Window
<1>6. d * DayLength \in Int
  BY <1>3, SomeLength, ProductInt
<1>7. g.end + Ahead <= d * DayLength + DayLength
  BY <1>5, <1>6, SomeLength
<1> QED BY <1>1, <1>4, <1>5, <1>7 DEF Offer

\* No two times that are generated together overlap.
LEMMA SlotsApart ==
  ASSUME NEW f, Ready(f),
         NEW t \in Times!BookableSlots(f), NEW u \in Times!BookableSlots(f), t # u
  PROVE  ~Times!Overlap(t, u)
<1>1. PICK g \in Times!Free(f) : t = Times!Shown(g.start, g.end)
  BY DEF Times!BookableSlots
<1>2. PICK h \in Times!Free(f) : u = Times!Shown(h.start, h.end)
  BY DEF Times!BookableSlots
<1>3. g # h
  BY <1>1, <1>2
<1>4. PICK w \in f.hours, d \in Times!Days(f.at) :
        /\ w.day = Times!Weekday(d) /\ FitsDay(w)
        /\ g \in Times!Grid(w, d, f.length) /\ Within(g, w, d)
  BY FreeIsPiece
<1>5. PICK v \in f.hours, e \in Times!Days(f.at) :
        /\ v.day = Times!Weekday(e) /\ FitsDay(v)
        /\ h \in Times!Grid(v, e, f.length) /\ Within(h, v, e)
  BY FreeIsPiece
<1>6. d \in Int /\ e \in Int /\ f.length \in Nat \ {0}
  BY DayInt DEF Ready, ReadingState
<1>7. ~Times!Overlap(g, h)
  <2>1. CASE w = v /\ d = e
    BY <1>3, <1>4, <1>5, <1>6, <2>1, PiecesApart DEF FitsDay
  <2>2. CASE ~(w = v /\ d = e)
    <3>1. d = e => ~Times!Overlap(w, v)
      BY <1>4, <1>5, <2>2 DEF Ready, HoursFit, Times!Publishable
    <3> QED BY <1>4, <1>5, <1>6, <3>1, WindowsApart
  <2> QED BY <2>1, <2>2
<1>8. t.start = g.start /\ t.end = g.end /\ u.start = h.start /\ u.end = h.end
  BY <1>1, <1>2 DEF Times!Shown
<1> QED BY <1>7, <1>8 DEF Times!Overlap

\* A meeting that overlaps a time on offer overlaps the days that Graph was asked for.
LEMMA MeetingsCovered ==
  ASSUME NEW f, Ready(f), NEW m \in Interval, NEW g \in Times!Free(f), Times!Overlap(g, m)
  PROVE  Times!Overlap(m, Covered(f.at))
<1>1. PICK w \in f.hours, d \in Times!Days(f.at) : FitsDay(w) /\ Within(g, w, d)
  BY FreeIsPiece
<1> DEFINE first == Times!WallDay(f.at)
<1>2. d \in Int /\ first \in Int /\ first <= d /\ d < first + Horizon /\ Horizon \in Nat
  BY DayInt, SomeLength DEF Ready, ReadingState
<1>3. /\ Covered(f.at).start + Ahead = first * DayLength
      /\ Covered(f.at).end + Ahead = (first + Horizon) * DayLength
      /\ Covered(f.at).start \in Int /\ Covered(f.at).end \in Int
  <2>1. first + Horizon \in Int
    BY <1>2
  <2>2. /\ Times!WallClockToUtc(first, 0) \in Int
        /\ Times!WallClockToUtc(first + Horizon, 0) \in Int
        /\ Times!WallClockToUtc(first, 0) + Ahead = first * DayLength + 0
        /\ Times!WallClockToUtc(first + Horizon, 0) + Ahead = (first + Horizon) * DayLength + 0
        /\ first * DayLength \in Int /\ (first + Horizon) * DayLength \in Int
    <3>1. 0 \in Int
      OBVIOUS
    <3> QED BY <1>2, <2>1, <3>1, ClockInt, Zenon
  <2> HIDE DEF first
  <2>3. \A x \in Int : x + 0 = x
    OBVIOUS
  <2>4. Covered(f.at).start = Times!WallClockToUtc(first, 0)
        /\ Covered(f.at).end = Times!WallClockToUtc(first + Horizon, 0)
    BY DEF Covered, first
  <2> QED BY <2>2, <2>3, <2>4, Zenon
<1> HIDE DEF first
<1>4. first * DayLength <= d * DayLength
  <2>1. CASE first = d
    BY <2>1, <1>2, SomeLength, ProductInt
  <2>2. CASE first < d
    <3>1. (first + 1) * DayLength <= d * DayLength
      BY <1>2, <2>2, NextMultiple, SomeLength
    <3>2. (first + 1) * DayLength = first * DayLength + DayLength
          /\ first * DayLength \in Int /\ d * DayLength \in Int
      BY <1>2, SomeLength, ProductInt
    <3> QED BY <3>1, <3>2, SomeLength
  <2> QED BY <2>1, <2>2, <1>2
<1>5. d * DayLength + DayLength <= (first + Horizon) * DayLength
  <2>1. (d + 1) * DayLength <= (first + Horizon) * DayLength
    <3>1. first + Horizon \in Int
      BY <1>2
    <3> QED BY <1>2, <3>1, NextMultiple, SomeLength
  <2>2. (d + 1) * DayLength = d * DayLength + DayLength
    BY <1>2, SomeLength, ProductInt
  <2> QED BY <2>1, <2>2
<1>6. /\ first * DayLength \in Int /\ d * DayLength \in Int
      /\ (first + Horizon) * DayLength \in Int
  <2>1. first + Horizon \in Int
    BY <1>2
  <2> QED BY <1>2, <2>1, SomeLength, ProductInt
<1>7. /\ w.start \in Nat /\ w.end \in Nat /\ w.end <= DayLength
      /\ g.start \in Int /\ g.end \in Int /\ m.start \in Int /\ m.end \in Int
      /\ d * DayLength + w.start <= g.start + Ahead
      /\ g.end + Ahead <= d * DayLength + w.end
      /\ g.start < m.end /\ m.start < g.end
  BY <1>1 DEF Within, FitsDay, Window, Interval, Times!Overlap
<1>8. Covered(f.at).start <= g.start /\ g.end <= Covered(f.at).end
  BY <1>3, <1>4, <1>5, <1>6, <1>7, SomeLength
<1> QED BY <1>3, <1>7, <1>8 DEF Times!Overlap

-----------------------------------------------------------------------------
(* Times: the invariant *)

TimesInv ==
  /\ hours \in SUBSET Window /\ HoursFit(hours) /\ length \in Nat
  /\ linked \in BOOLEAN /\ busy \in SUBSET Interval
  /\ DOMAIN booked = Sessions
  /\ reading \in [Readers -> ReadingState]
  /\ \A c \in Readers : ReadingOK(reading[c])
  /\ (\A t \in page : Offer(t)) /\ OffersFitTogether
  /\ clock \in Int

Rest == <<hours, length, linked, busy, booked, page, warning, clock>>

LEMMA NoHours == HoursFit({})
  BY DEF HoursFit, Times!Publishable

LEMMA IdleFits == Times!Idle \in ReadingState /\ ReadingOK(Times!Idle)
<1>1. Times!Idle \in ReadingState
  BY SomeLength DEF Times!Idle, ReadingState
<1> QED BY <1>1, NoHours DEF Times!Idle, ReadingOK

LEMMA TimesStart == Times!Init => TimesInv
<1> SUFFICES ASSUME Times!Init PROVE TimesInv
  OBVIOUS
<1>1. busy \in SUBSET Interval
  BY CalendarAssumption DEF Times!Init, Interval
<1>2. clock \in Int
  BY ClockInt DEF Times!Init
<1>3. reading \in [Readers -> ReadingState] /\ \A c \in Readers : ReadingOK(reading[c])
  BY IdleFits DEF Times!Init
<1>4. DOMAIN booked = Sessions
  BY DEF Times!Init
<1> QED
  BY <1>1, <1>2, <1>3, <1>4, NoHours
  DEF Times!Init, TimesInv, OffersFitTogether, Times!OffersFitTogether

\* A call goes on with what fits, and the tables stay.
LEMMA GoesOn ==
  ASSUME TimesInv, NEW c \in Readers, NEW new, new \in ReadingState, ReadingOK(new),
         Times!Set(c, new), UNCHANGED Rest
  PROVE  TimesInv'
<1>1. reading' \in [Readers -> ReadingState] /\ \A k \in Readers : ReadingOK(reading'[k])
  BY DEF TimesInv, Times!Set
<1> QED BY <1>1 DEF TimesInv, Rest, OffersFitTogether, Times!OffersFitTogether

LEMMA OpenKeeps ==
  ASSUME TimesInv, NEW c \in Readers, Times!Open(c)
  PROVE  TimesInv'
<1> DEFINE new == [Times!Idle EXCEPT !.task = "link", !.hours = hours, !.length = length]
<1>1. new.task = "link" /\ new.hours = hours /\ ~new.warns /\ new.all = {}
  BY DEF Times!Idle
<1>2. new \in ReadingState
  BY IdleFits DEF TimesInv, ReadingState
<1>3. ReadingOK(new)
  BY <1>1 DEF ReadingOK, TimesInv
<1>4. Times!Set(c, new) /\ UNCHANGED Rest
  BY DEF Times!Open, Rest
<1> QED BY <1>2, <1>3, <1>4, GoesOn

LEMMA ReadLinkKeeps ==
  ASSUME TimesInv, NEW c \in Readers, Times!ReadLink(c)
  PROVE  TimesInv'
<1> DEFINE f == reading[c]
           new == [f EXCEPT !.task = "busy", !.linked = linked, !.at = clock]
<1>1. f \in ReadingState /\ ReadingOK(f)
  BY DEF TimesInv
<1>2. UNCHANGED Rest
  BY DEF Times!ReadLink, Rest
<1>3. CASE Times!Set(c, Times!Idle)
  BY <1>2, <1>3, IdleFits, GoesOn
<1>4. CASE f.length # 0 /\ Times!Set(c, new)
  <2>1. new \in ReadingState
    BY <1>1 DEF ReadingState, TimesInv
  <2>2. /\ new.task = "busy" /\ new.hours = f.hours /\ new.warns = f.warns
        /\ new.windows = f.windows /\ new.length = f.length /\ new.all = f.all
    BY <1>1 DEF ReadingState
  <2>3. ReadingOK(new)
    BY <1>1, <1>4, <2>2 DEF ReadingOK, Times!ReadLink
  <2> QED BY <1>2, <1>4, <2>1, <2>3, GoesOn
<1> QED BY <1>3, <1>4 DEF Times!ReadLink

LEMMA ReadBusyKeeps ==
  ASSUME TimesInv, NEW c \in Readers, Times!ReadBusy(c)
  PROVE  TimesInv'
<1> DEFINE f == reading[c]
           answered == [f EXCEPT !.task = "sessions",
                                 !.calendar = Times!BusyWithin(f.at), !.all = busy]
           unasked == [f EXCEPT !.task = "sessions"]
<1>1. f \in ReadingState /\ ReadingOK(f) /\ f.task = "busy"
  BY DEF TimesInv, Times!ReadBusy
<1>2. UNCHANGED Rest
  BY DEF Times!ReadBusy, Rest
<1>3. CASE Times!Set(c, Times!Idle)
  BY <1>2, <1>3, IdleFits, GoesOn
<1>4. CASE Times!Set(c, answered)
  <2>1. Times!BusyWithin(f.at) \subseteq busy /\ busy \in SUBSET Interval
    BY DEF Times!BusyWithin, TimesInv
  <2>2. answered \in ReadingState
    BY <1>1, <2>1 DEF ReadingState
  <2>3. /\ answered.task = "sessions" /\ answered.hours = f.hours
        /\ answered.warns = f.warns /\ answered.windows = f.windows
        /\ answered.length = f.length /\ answered.at = f.at
        /\ answered.calendar = Times!BusyWithin(f.at) /\ answered.all = busy
    BY <1>1 DEF ReadingState
  <2>4. \A m \in busy : Times!Overlap(m, Covered(f.at)) => m \in Times!BusyWithin(f.at)
    BY DEF Times!BusyWithin, Covered
  <2>5. ReadingOK(answered)
    BY <1>1, <2>3, <2>4 DEF ReadingOK
  <2> QED BY <1>2, <1>4, <2>2, <2>5, GoesOn
<1>5. CASE Times!Set(c, unasked)
  <2>1. unasked \in ReadingState
    BY <1>1 DEF ReadingState
  <2>2. /\ unasked.task = "sessions" /\ unasked.hours = f.hours
        /\ unasked.warns = f.warns /\ unasked.windows = f.windows
        /\ unasked.length = f.length /\ unasked.all = f.all
    BY <1>1 DEF ReadingState
  <2>3. f.all = {}
    BY <1>1 DEF ReadingOK
  <2>4. ReadingOK(unasked)
    BY <1>1, <2>2, <2>3 DEF ReadingOK
  <2> QED BY <1>2, <1>5, <2>1, <2>4, GoesOn
<1> QED BY <1>3, <1>4, <1>5 DEF Times!ReadBusy

LEMMA CanGenerate ==
  ASSUME TimesInv, NEW c \in Readers, reading[c].task = "sessions"
  PROVE  Ready(reading[c])
  BY DEF TimesInv, Ready, ReadingOK

LEMMA ReadSessionsKeeps ==
  ASSUME TimesInv, NEW c \in Readers, Times!ReadSessions(c)
  PROVE  TimesInv'
<1> DEFINE f == reading[c]
<1>1. Ready(f)
  BY CanGenerate DEF Times!ReadSessions
<1>2. reading' \in [Readers -> ReadingState] /\ \A k \in Readers : ReadingOK(reading'[k])
  BY IdleFits DEF TimesInv, Times!ReadSessions, Times!Set
<1>3. page' = page \/ page' = Times!BookableSlots(f)
  BY DEF Times!ReadSessions
<1>4. (\A t \in page' : Offer(t)) /\ OffersFitTogether'
  <2>1. CASE page' = page
    BY <2>1 DEF TimesInv, OffersFitTogether, Times!OffersFitTogether
  <2>2. CASE page' = Times!BookableSlots(f)
    BY <1>1, <2>2, SlotsAreOffers, SlotsApart
    DEF OffersFitTogether, Times!OffersFitTogether
  <2> QED BY <1>3, <2>1, <2>2
<1>5. UNCHANGED <<hours, length, linked, busy, booked, clock>>
  BY DEF Times!ReadSessions
<1> QED BY <1>2, <1>4, <1>5 DEF TimesInv

\* The hours that are saved were checked, and those that are generated from are they.
LEMMA UpdateKeeps ==
  ASSUME HoursWithinDays, TimesInv, NEW c \in Readers, Times!UpdateCoachingHours(c)
  PROVE  TimesInv'
<1>1. PICK windows \in HoursSent \cup {hours}, len \in Lengths \cup {length} :
        /\ Times!Publishable(windows)
        /\ hours' = windows /\ length' = len
        /\ IF windows = {} \/ ~linked THEN Times!Set(c, Times!Idle)
           ELSE Times!Set(c, [Times!Idle EXCEPT
                  !.task = "link", !.warns = TRUE, !.windows = windows,
                  !.hours = windows, !.length = len])
  BY DEF Times!UpdateCoachingHours
<1>2. windows \in SUBSET Window /\ len \in Nat
  BY CalendarAssumption DEF TimesInv
<1>3. HoursFit(windows)
  <2>1. CASE windows = hours
    BY <2>1 DEF TimesInv
  <2>2. CASE windows \in HoursSent
    BY <1>1, <1>2, <2>2 DEF HoursWithinDays, HoursFit, FitsDay
  <2> QED BY <2>1, <2>2
<1> DEFINE new == [Times!Idle EXCEPT !.task = "link", !.warns = TRUE, !.windows = windows,
                                     !.hours = windows, !.length = len]
<1>4. /\ new.task = "link" /\ new.hours = windows /\ new.windows = windows
      /\ new.all = {}
  BY DEF Times!Idle
<1>5. new \in ReadingState
  BY <1>2, IdleFits DEF ReadingState
<1>6. ReadingOK(new)
  BY <1>3, <1>4 DEF ReadingOK
<1>7. reading' \in [Readers -> ReadingState] /\ \A k \in Readers : ReadingOK(reading'[k])
  BY <1>1, <1>5, <1>6, IdleFits DEF TimesInv, Times!Set
<1>8. UNCHANGED <<linked, busy, booked, page, clock>>
  BY DEF Times!UpdateCoachingHours
<1> QED
  BY <1>1, <1>2, <1>3, <1>7, <1>8
  DEF TimesInv, OffersFitTogether, Times!OffersFitTogether

\* Outlook, the sessions and the clock change nothing that was read or offered.
LEMMA OthersKeep ==
  ASSUME TimesInv,
         \/ Times!EditOutlook \/ Times!Tick
         \/ \E i \in Sessions : Times!Book(i) \/ Times!Answer(i)
  PROVE  TimesInv'
<1>1. UNCHANGED <<hours, length, reading, page>>
  BY DEF Times!EditOutlook, Times!Tick, Times!Book, Times!Answer
<1>2. linked' \in BOOLEAN /\ busy' \in SUBSET Interval
  BY CalendarAssumption
  DEF TimesInv, Times!EditOutlook, Times!Tick, Times!Book, Times!Answer, Interval
<1>3. DOMAIN booked' = Sessions
  BY DEF TimesInv, Times!EditOutlook, Times!Tick, Times!Book, Times!Answer
<1>4. clock' \in Int
  BY DEF TimesInv, Times!EditOutlook, Times!Tick, Times!Book, Times!Answer
<1> QED
  BY <1>1, <1>2, <1>3, <1>4 DEF TimesInv, OffersFitTogether, Times!OffersFitTogether

LEMMA TimesStay ==
  ASSUME HoursWithinDays, TimesInv, Times!Next
  PROVE  TimesInv'
<1>1. ASSUME NEW c \in Readers,
             \/ Times!Open(c) \/ Times!ReadLink(c) \/ Times!ReadBusy(c)
             \/ Times!ReadSessions(c) \/ Times!UpdateCoachingHours(c)
      PROVE  TimesInv'
  BY <1>1, OpenKeeps, ReadLinkKeeps, ReadBusyKeeps, ReadSessionsKeeps, UpdateKeeps
<1> QED BY <1>1, OthersKeep DEF Times!Next

LEMMA TimesRest ==
  ASSUME TimesInv, UNCHANGED timesVars
  PROVE  TimesInv'
  BY DEF TimesInv, timesVars, OffersFitTogether, Times!OffersFitTogether

-----------------------------------------------------------------------------
(* Times: the steps *)

\* The call whose generation a step is.
LEMMA GeneratesIs ==
  ASSUME TimesInv, Times!Next, NEW c \in Readers, Times!Generates(c)
  PROVE  Times!ReadSessions(c)
<1>1. reading[c].task = "sessions" /\ reading'[c].task = "none"
  BY DEF Times!Generates
<1>2. reading' # reading
  BY <1>1
<1>3. ~(Times!EditOutlook \/ Times!Tick \/ \E i \in Sessions : Times!Book(i) \/ Times!Answer(i))
  BY <1>2 DEF Times!EditOutlook, Times!Tick, Times!Book, Times!Answer
<1>4. PICK k \in Readers :
        \/ Times!Open(k) \/ Times!ReadLink(k) \/ Times!ReadBusy(k)
        \/ Times!ReadSessions(k) \/ Times!UpdateCoachingHours(k)
  BY <1>3 DEF Times!Next
<1>5. \E new : Times!Set(k, new)
  BY <1>4 DEF Times!Open, Times!ReadLink, Times!ReadBusy, Times!ReadSessions,
              Times!UpdateCoachingHours
<1>6. k = c
  BY <1>1, <1>5 DEF Times!Set, TimesInv
<1> QED
  BY <1>1, <1>4, <1>6
  DEF Times!Open, Times!ReadLink, Times!ReadBusy, Times!UpdateCoachingHours

LEMMA OffersAvoid ==
  ASSUME TimesInv, Times!Next, NEW c \in Readers, Times!Generates(c), ~reading[c].warns,
         NEW t \in page', NEW m \in reading[c].all
  PROVE  ~Times!Overlap(t, m)
<1> DEFINE f == reading[c]
<1>1. page' = Times!BookableSlots(f) /\ f.task = "sessions"
  BY GeneratesIs DEF Times!ReadSessions
<1>2. Ready(f) /\ ReadingOK(f)
  BY <1>1, CanGenerate DEF TimesInv
<1>3. PICK g \in Times!Free(f) : t = Times!Shown(g.start, g.end)
  BY <1>1 DEF Times!BookableSlots
<1>4. m \in Interval
  BY <1>2 DEF Ready, ReadingState
<1>5. ASSUME Times!Overlap(g, m) PROVE FALSE
  <2>1. Times!Overlap(m, Covered(f.at))
    BY <1>2, <1>4, <1>5, MeetingsCovered
  <2>2. m \in f.calendar
    BY <1>1, <1>2, <2>1 DEF ReadingOK
  <2> QED BY <1>5, <2>2 DEF Times!Free
<1>6. t.start = g.start /\ t.end = g.end
  BY <1>3 DEF Times!Shown
<1> QED BY <1>5, <1>6 DEF Times!Overlap

\* A time goes to the page as wall clocks and comes back as the instants it stood for;
\* only one that ends at midnight comes back with an end before its start.
LEMMA RoundTrip ==
  ASSUME NEW t, Offer(t)
  PROVE  /\ Times!WallClockToUtc(t.date, t.startTime) = t.start
         /\ Times!SessionEndOf(Times!WallClockToUtc(t.date, t.startTime),
                               Times!WallClockToUtc(t.date, t.endTime)) =
              IF t.endTime = 0 THEN t.start + DefaultLength ELSE t.end
<1>1. PICK s \in Int, e \in Int :
        /\ t = Times!Shown(s, e)
        /\ s < e /\ e + Ahead <= Times!WallDay(s) * DayLength + DayLength
  BY DEF Offer
<1> DEFINE d == Times!WallDay(s)  u == Times!WallTime(s)  v == Times!WallTime(e)
           m == d * DayLength
<1>2. /\ t.date = d /\ t.startTime = u /\ t.endTime = v /\ t.start = s /\ t.end = e
  BY <1>1 DEF Times!Shown
<1>3. d \in Int /\ u \in 0..(DayLength - 1) /\ v \in 0..(DayLength - 1) /\ s + Ahead = m + u
  BY DayOf
<1>4. m \in Int /\ DayLength \in Nat \ {0} /\ Ahead \in Int
  BY <1>3, SomeLength, ProductInt
<1>5. /\ Times!WallClockToUtc(d, u) = m + u - Ahead
      /\ Times!WallClockToUtc(d, v) = m + v - Ahead
  BY DEF Times!WallClockToUtc
<1>6. e + Ahead <= m + DayLength
  BY <1>1
<1>7. CASE e + Ahead = m + DayLength
  <2>1. (d + 1) * DayLength = m + DayLength
    BY <1>3, SomeLength, ProductInt
  <2>2. d + 1 \in Int
    BY <1>3
  <2>3. (d + 1) * DayLength <= e + Ahead /\ e + Ahead < (d + 1) * DayLength + DayLength
    <3> HIDE DEF m
    <3> QED BY <1>4, <1>7, <2>1
  <2>4. v = e + Ahead - (d + 1) * DayLength
    BY <2>2, <2>3, ThatDay
  <2> HIDE DEF d, u, v, m
  <2>5. v = 0
    BY <1>4, <1>7, <2>1, <2>4
  <2>6. Times!WallClockToUtc(d, u) = s /\ ~(Times!WallClockToUtc(d, v) > s)
    BY <1>3, <1>4, <1>5, <2>5
  <2> QED BY <1>2, <2>5, <2>6 DEF Times!SessionEndOf
<1>8. CASE e + Ahead < m + DayLength
  <2>1. m <= e + Ahead
    <3> HIDE DEF d, u, m
    <3> QED BY <1>1, <1>3, <1>4
  <2>2. v = e + Ahead - m
    BY <1>3, <1>8, <2>1, ThatDay
  <2> HIDE DEF d, u, v, m
  <2>3. v # 0
    BY <1>1, <1>3, <1>4, <2>2
  <2>4. Times!WallClockToUtc(d, u) = s /\ Times!WallClockToUtc(d, v) = e
    BY <1>3, <1>4, <1>5, <2>2
  <2> QED BY <1>1, <1>2, <2>3, <2>4 DEF Times!SessionEndOf
<1> QED
  <2> HIDE DEF d, u, v, m
  <2> QED BY <1>4, <1>6, <1>7, <1>8

LEMMA BookedIsOffered ==
  ASSUME TimesInv, Times!Next, NEW i \in Sessions,
         booked[i].status = "none", booked'[i].status # "none"
  PROVE  \E t \in page :
           /\ booked'[i].start = t.start
           /\ booked'[i].end = IF t.endTime = 0 THEN t.start + DefaultLength ELSE t.end
<1>1. booked' # booked
  OBVIOUS
<1>2. ~(Times!EditOutlook \/ Times!Tick
        \/ \E c \in Readers : \/ Times!Open(c) \/ Times!ReadLink(c) \/ Times!ReadBusy(c)
                              \/ Times!ReadSessions(c) \/ Times!UpdateCoachingHours(c))
  BY <1>1 DEF Times!EditOutlook, Times!Tick, Times!Open, Times!ReadLink, Times!ReadBusy,
              Times!ReadSessions, Times!UpdateCoachingHours
<1>3. PICK j \in Sessions : Times!Book(j) \/ Times!Answer(j)
  BY <1>2 DEF Times!Next
<1>4. DOMAIN booked = Sessions
  BY DEF TimesInv
<1>5. CASE Times!Answer(j)
  <2>1. PICK status \in Times!Answers[booked[j].status] :
          booked' = [booked EXCEPT ![j].status = status]
    BY <1>5 DEF Times!Answer
  <2>2. j = i
    BY <1>4, <2>1
  <2>3. Times!Answers["none"] = {}
    BY DEF Times!Answers
  <2> QED BY <2>1, <2>2, <2>3
<1>6. CASE Times!Book(j)
  <2>1. PICK t \in page :
          booked' = [booked EXCEPT ![j] =
            [status |-> "pending_coach_approval",
             start |-> Times!WallClockToUtc(t.date, t.startTime),
             end |-> Times!SessionEndOf(Times!WallClockToUtc(t.date, t.startTime),
                                        Times!WallClockToUtc(t.date, t.endTime))]]
    BY <1>6 DEF Times!Book
  <2>2. j = i
    BY <1>4, <2>1
  <2>3. Offer(t)
    BY DEF TimesInv
  <2> QED BY <1>4, <2>1, <2>2, <2>3, RoundTrip
<1> QED BY <1>3, <1>5, <1>6

\* A generated time starts in a window on a day exactly when it lies in it.
LEMMA StartsInside ==
  ASSUME NEW f, Ready(f), NEW g \in Times!Free(f), NEW w \in f.hours, NEW d \in Int,
         Times!Weekday(d) = w.day
  PROVE  (/\ Times!WallDay(g.start) = d
          /\ w.start <= Times!WallTime(g.start) /\ Times!WallTime(g.start) < w.end)
         <=> ~(\/ g.start < Times!WallClockToUtc(d, w.start)
               \/ g.end > Times!WallClockToUtc(d, w.end))
<1>1. PICK v \in f.hours, e \in Times!Days(f.at) :
        v.day = Times!Weekday(e) /\ FitsDay(v) /\ Within(g, v, e)
  BY FreeIsPiece
<1>2. e \in Int
  BY DayInt DEF Ready, ReadingState
<1>3. /\ Times!WallDay(g.start) = e
      /\ v.start <= Times!WallTime(g.start) /\ Times!WallTime(g.start) < v.end
  BY <1>1, <1>2, PieceDay
<1>4. FitsDay(w)
  BY DEF Ready, HoursFit
<1>5. /\ w.start \in Nat /\ w.end \in Nat /\ w.end <= DayLength
      /\ v.start \in Nat /\ v.end \in Nat
      /\ g.start \in Int /\ g.end \in Int /\ g.start < g.end
  BY <1>1, <1>4 DEF FitsDay, Window, Within
<1>6. Times!WallTime(g.start) \in Int
  BY <1>5, DayOf
<1>7. /\ Times!WallClockToUtc(d, w.start) \in Int /\ Times!WallClockToUtc(d, w.end) \in Int
      /\ Times!WallClockToUtc(d, w.start) + Ahead = d * DayLength + w.start
      /\ Times!WallClockToUtc(d, w.end) + Ahead = d * DayLength + w.end
      /\ d * DayLength \in Int
  <2>1. w.start \in Int /\ w.end \in Int
    BY <1>5
  <2> QED BY <2>1, ClockInt, Zenon
<1>8. ASSUME Times!WallDay(g.start) = d,
             w.start <= Times!WallTime(g.start), Times!WallTime(g.start) < w.end
      PROVE  /\ ~(g.start < Times!WallClockToUtc(d, w.start))
             /\ ~(g.end > Times!WallClockToUtc(d, w.end))
  <2>1. e = d /\ v.day = w.day
    BY <1>1, <1>3, <1>8
  <2>2. Times!Overlap(v, w)
    BY <1>3, <1>5, <1>6, <1>8 DEF Times!Overlap
  <2>3. v = w
    BY <2>1, <2>2 DEF Ready, HoursFit, Times!Publishable
  <2>4. /\ d * DayLength + w.start <= g.start + Ahead
        /\ g.end + Ahead <= d * DayLength + w.end
    BY <1>1, <2>1, <2>3 DEF Within
  <2> QED BY <1>5, <1>7, <2>4, SomeLength
<1>9. ASSUME ~(g.start < Times!WallClockToUtc(d, w.start)),
             ~(g.end > Times!WallClockToUtc(d, w.end))
      PROVE  /\ Times!WallDay(g.start) = d
             /\ w.start <= Times!WallTime(g.start) /\ Times!WallTime(g.start) < w.end
  <2>1. Within(g, w, d)
    BY <1>5, <1>7, <1>9, SomeLength DEF Within
  <2> QED BY <1>4, <2>1, PieceDay
<1> QED BY <1>8, <1>9

LEMMA Warned ==
  ASSUME TimesInv, Times!Next, NEW c \in Readers, Times!Generates(c), reading[c].warns,
         NEW w \in reading[c].windows, NEW d \in Times!Days(clock), Times!Weekday(d) = w.day
  PROVE  <<w, d>> \in warning' <=>
           \A t \in Times!BookableSlots(reading[c]) :
             \/ t.start < Times!WallClockToUtc(d, w.start)
             \/ t.end > Times!WallClockToUtc(d, w.end)
<1> DEFINE f == reading[c]  slots == Times!BookableSlots(f)
<1>1. /\ f.task = "sessions"
      /\ warning' = Times!Named(slots, f.windows, Times!Days(clock))
  BY GeneratesIs DEF Times!ReadSessions
<1>2. Ready(f) /\ f.windows = f.hours
  BY <1>1, CanGenerate DEF TimesInv, ReadingOK
<1>3. d \in Int
  BY DayInt DEF TimesInv
<1>4. <<w, d>> \in warning' <=> ~Times!Yielded(slots, w, d)
  <2> HIDE DEF slots, f
  <2>1. w \in f.windows
    BY DEF f
  <2> QED BY <1>1, <2>1 DEF Times!Named
<1>5. ASSUME NEW t \in slots
      PROVE  (t.date = d /\ w.start <= t.startTime /\ t.startTime < w.end)
             <=> ~(\/ t.start < Times!WallClockToUtc(d, w.start)
                   \/ t.end > Times!WallClockToUtc(d, w.end))
  <2>1. PICK g \in Times!Free(f) : t = Times!Shown(g.start, g.end)
    BY DEF Times!BookableSlots
  <2>2. /\ t.date = Times!WallDay(g.start) /\ t.startTime = Times!WallTime(g.start)
        /\ t.start = g.start /\ t.end = g.end
    BY <2>1 DEF Times!Shown
  <2> QED BY <1>2, <1>3, <2>2, StartsInside
<1> QED BY <1>4, <1>5 DEF Times!Yielded

-----------------------------------------------------------------------------
(* The calendar as a whole *)

allVars == <<connectionVars, timesVars>>

LEMMA CoachStays ==
  ASSUME HoursWithinDays, TimesInv, [CoachNext]_allVars
  PROVE  TimesInv'
<1>1. CASE Times!Next
  BY <1>1, TimesStay
<1>2. CASE UNCHANGED timesVars
  BY <1>2, TimesRest
<1> QED BY <1>1, <1>2 DEF CoachNext, allVars

\* While the windows of a coach's hours end with their days, whatever hours, meetings,
\* sessions and clocks, and however many pages are generated while they change: what
\* was read of them fits, and every time on a page lies in an office day.
THEOREM TimesInvariant == HoursWithinDays /\ CoachSpec => []TimesInv
<1> SUFFICES ASSUME HoursWithinDays PROVE CoachSpec => []TimesInv
  OBVIOUS
<1>1. CoachInit => TimesInv
  BY TimesStart DEF CoachInit
<1>2. TimesInv /\ [CoachNext]_allVars => TimesInv'
  BY CoachStays
<1> QED BY <1>1, <1>2, PTL DEF CoachSpec, allVars

\* The times of one page never overlap, whatever windows were accepted.
THEOREM OffersAlwaysFitTogether == HoursWithinDays /\ CoachSpec => []OffersFitTogether
<1>1. TimesInv => OffersFitTogether
  BY DEF TimesInv
<1> QED BY <1>1, TimesInvariant, PTL

\* No time of a page overlaps a meeting that stood in the linked calendar, a time that is
\* booked is the time that was offered, and the coach is warned of exactly the windows
\* that offer nothing.
THEOREM OffersAlwaysStand == HoursWithinDays /\ CoachSpec => OffersStand
<1> DEFINE Avoids == \A c \in Readers : Times!Generates(c) /\ ~reading[c].warns =>
                       \A t \in page', m \in reading[c].all : ~Times!Overlap(t, m)
           Books == \A i \in Sessions :
                      booked[i].status = "none" /\ booked'[i].status # "none" =>
                        \E t \in page :
                          /\ booked'[i].start = t.start
                          /\ booked'[i].end =
                               IF t.endTime = 0 THEN t.start + DefaultLength ELSE t.end
           Warns == \A c \in Readers : Times!Generates(c) /\ reading[c].warns =>
                      \A w \in reading[c].windows, d \in Times!Days(clock) :
                        Times!Weekday(d) = w.day =>
                          (<<w, d>> \in warning' <=>
                             \A t \in Times!BookableSlots(reading[c]) :
                               \/ t.start < Times!WallClockToUtc(d, w.start)
                               \/ t.end > Times!WallClockToUtc(d, w.end))
<1>1. TimesInv /\ Times!Next => Avoids /\ Books /\ Warns
  BY OffersAvoid, BookedIsOffered, Warned
<1>2. TimesInv /\ [CoachNext]_allVars
        => [Avoids]_timesVars /\ [Books]_timesVars /\ [Warns]_timesVars
  <2> HIDE DEF Avoids, Books, Warns
  <2> QED BY <1>1 DEF CoachNext, allVars
<1>3. HoursWithinDays /\ CoachSpec
        => [][Avoids]_timesVars /\ [][Books]_timesVars /\ [][Warns]_timesVars
  <2> HIDE DEF Avoids, Books, Warns
  <2> QED BY <1>2, TimesInvariant, PTL DEF CoachSpec, allVars
<1>4. timesVars = Times!vars
  BY DEF timesVars, Times!vars
<1> QED
  BY <1>3 DEF OffersStand, Times!OffersAvoidMeetings, Times!BookedAsOffered,
              Times!WarningMatchesOffers, timesVars, Times!vars

=============================================================================
