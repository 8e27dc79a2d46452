--------------------------- MODULE CalendarConnection ---------------------------
(***************************************************************************)
(* A coach's Outlook connection: calendar.service.ts over that coach's row *)
(* of calendar_connections. Connecting by consent or by signing in stores  *)
(* a pair of tokens; every use of the calendar looks the access token up,  *)
(* renews it when it is about to expire, and calls Graph with it.          *)
(*                                                                         *)
(* Tokens are numbered as Microsoft hands them out; a number stands for    *)
(* the access token and the refresh token of one answer. A unit of the     *)
(* clock is half the minute by which a token must outlive its lookup, and  *)
(* a handler is done within a unit.                                        *)
(***************************************************************************)
EXTENDS Integers, FiniteSets, Sequences

CONSTANTS
  MicrosoftAccounts,  \* accounts the coach can consent or sign in with
  NoAccount,
  Calls,              \* slots for handlers in flight
  Life,               \* how long an access token lasts
  MaxToken,           \* bound: answers of the token endpoint
  MaxEvents,          \* bound: events put on the calendar
  MaxNow              \* bound: the clock

ASSUME CallsAssumption == IsFiniteSet(Calls)

\* An access token outlasts the minute its lookup asks for (Microsoft's last an hour).
ASSUME LifeAssumption == Life \in Nat /\ Life > 2
ASSUME BoundsAssumption == MaxToken \in Nat /\ MaxEvents \in Nat /\ MaxNow \in Nat

VARIABLES
  conn,      \* the row of calendar_connections; id 0: there is none
  issued,    \* what Microsoft answered: the account, the expiry, a refresh token or not
  call,      \* the handlers in flight
  outlook,   \* events put on the calendar
  reported,  \* events whose id was returned to the caller
  now

vars == <<conn, issued, call, outlook, reported, now>>

Tokens == 0..MaxToken   \* 0: none

\* A row is told from its successors by the token it was inserted with.
Connection ==
  [id : Tokens, label : MicrosoftAccounts \cup {NoAccount},
   access : Tokens, refresh : Tokens, expires : 0..(MaxNow + Life)]

NoConnection ==
  [id |-> 0, label |-> NoAccount, access |-> 0, refresh |-> 0, expires |-> 0]

Tasks == {"none", "persist", "label", "relabel", "saveLogin", "lookUp", "renew",
          "saveRenewed", "graph"}

CallState ==
  [task : Tasks, row : Connection, token : Tokens, creates : BOOLEAN, event : BOOLEAN,
   at : 0..MaxNow]

Idle == [task |-> "none", row |-> NoConnection, token |-> 0, creates |-> FALSE,
         event |-> FALSE, at |-> 0]

Init ==
  /\ conn = NoConnection
  /\ issued = << >>
  /\ call = [c \in Calls |-> Idle]
  /\ outlook = 0 /\ reported = 0
  /\ now = 0

Start(c, task, row) ==
  call' = [call EXCEPT ![c] = [Idle EXCEPT !.task = task, !.row = row, !.at = now]]

Then(c, task, row) == call' = [call EXCEPT ![c].task = task, ![c].row = row]

Return(c) == call' = [call EXCEPT ![c] = Idle]

-----------------------------------------------------------------------------
(* The token endpoint and the row *)

\* tokenRequest: Microsoft answers with tokens of one account.
TokenRequest(account, renewable) ==
  /\ Len(issued) < MaxToken
  /\ issued' = Append(issued, [account |-> account, renewable |-> renewable,
                               expires |-> now + Life])

\* Faulty: the row keeps the expiry of the token before.
StoredUndated(row, t, renewable) ==
  [row EXCEPT !.access = t, !.refresh = IF renewable THEN t ELSE @]

\* Faulty: without a refresh token in the answer, there is none.
StoredAsAnswered(row, t, renewable) ==
  [row EXCEPT !.access = t, !.refresh = IF renewable THEN t ELSE 0, !.expires = now + Life]

\* An answer in a loaded row: without a refresh token in it, the old one stays.
Stored(row, t, renewable) ==
  [row EXCEPT !.access = t, !.refresh = IF renewable THEN t ELSE @,
              !.expires = now + Life]

\* repository.save of a loaded row: inserted again when it is gone, refused when
\* the coach has another (the unique index on userId).
Storable(row) == conn.id \in {0, row.id}

Inserted(row) == IF row.id = 0 THEN [row EXCEPT !.id = row.access] ELSE row

-----------------------------------------------------------------------------
(* Connecting *)

\* handleCallback up to persistTokens: the code is exchanged; the scopes asked
\* for include a refresh token.
Connect(c) ==
  /\ call[c].task = "none"
  /\ \E account \in MicrosoftAccounts :
       /\ TokenRequest(account, TRUE)
       /\ Start(c, "persist", Stored(conn, Len(issued'), TRUE))
  /\ UNCHANGED <<conn, outlook, reported, now>>

Persist(c) ==
  LET row == call[c].row IN
  /\ call[c].task = "persist"
  /\ \/ Storable(row) /\ conn' = Inserted(row) /\ Then(c, "label", Inserted(row))
     \/ ~Storable(row) /\ Return(c) /\ UNCHANGED conn
  /\ UNCHANGED <<issued, outlook, reported, now>>

\* graphGet('/me') with the new token; without an answer the label stays.
Label(c) ==
  /\ call[c].task = "label"
  /\ \/ Then(c, "relabel",
             [call[c].row EXCEPT !.label = issued[call[c].row.access].account])
     \/ Return(c)
  /\ UNCHANGED <<conn, issued, outlook, reported, now>>

\* saveLoginConnection: the tokens came with the sign-in, some time before.
SaveLoginConnection(c) ==
  /\ call[c].task = "none"
  /\ \E account \in MicrosoftAccounts :
       /\ TokenRequest(account, TRUE)
       /\ call' = [call EXCEPT ![c] = [Idle EXCEPT
                     !.task = "saveLogin", !.token = Len(issued'), !.at = now]]
  /\ UNCHANGED <<conn, outlook, reported, now>>

StampLogin(c) ==
  /\ call[c].task = "saveLogin"
  /\ Then(c, "relabel", [Stored(conn, call[c].token, TRUE)
                           EXCEPT !.label = issued[call[c].token].account])
  /\ UNCHANGED <<conn, issued, outlook, reported, now>>

\* The save that ends either way of connecting.
Relabel(c) ==
  /\ call[c].task = "relabel"
  /\ conn' = IF Storable(call[c].row) THEN Inserted(call[c].row) ELSE conn
  /\ Return(c)
  /\ UNCHANGED <<issued, outlook, reported, now>>

Disconnect ==
  /\ conn.id # 0
  /\ conn' = NoConnection
  /\ UNCHANGED <<issued, call, outlook, reported, now>>

-----------------------------------------------------------------------------
(* Using the calendar *)

IsConnected == conn.refresh # 0

\* Faulty: a token is used up to its last moment.
StillValidToTheEnd(row) == row.expires > now

\* More than a minute is left.
StillValid(row) == row.expires - now > 2

\* createCoachingEvent or one of the other operations on the calendar.
Use(c) ==
  /\ call[c].task = "none"
  /\ \E creates \in BOOLEAN :
       /\ creates => outlook < MaxEvents
       /\ call' = [call EXCEPT ![c] = [Idle EXCEPT
                     !.task = "lookUp", !.creates = creates, !.at = now]]
  /\ UNCHANGED <<conn, issued, outlook, reported, now>>

\* Faulty: the failure of the second read fails the call.
ReportedOnSuccess(c) == reported

\* The second read of createCoachingEvent only misses the link when it fails.
ReportedThough(c) == IF call[c].event THEN reported + 1 ELSE reported

Fail(c) == reported' = ReportedThough(c) /\ Return(c)

\* getValidAccessToken, up to the token endpoint.
LookUp(c) ==
  /\ call[c].task = "lookUp"
  /\ \/ ~IsConnected /\ Fail(c)
     \/ /\ IsConnected /\ StillValid(conn)
        /\ call' = [call EXCEPT ![c].task = "graph", ![c].token = conn.access]
        /\ UNCHANGED reported
     \/ IsConnected /\ ~StillValid(conn) /\ Then(c, "renew", conn) /\ UNCHANGED reported
  /\ UNCHANGED <<conn, issued, outlook, now>>

Renew(c) ==
  LET row == call[c].row IN
  /\ call[c].task = "renew"
  /\ \/ \E renewable \in BOOLEAN :
          /\ TokenRequest(issued[row.refresh].account, renewable)
          /\ Then(c, "saveRenewed", Stored(row, Len(issued'), renewable))
          /\ UNCHANGED reported
     \/ Fail(c) /\ UNCHANGED issued
  /\ UNCHANGED <<conn, outlook, now>>

SaveRenewed(c) ==
  LET row == call[c].row IN
  /\ call[c].task = "saveRenewed"
  /\ \/ /\ Storable(row)
        /\ conn' = row
        /\ call' = [call EXCEPT ![c].task = "graph", ![c].token = row.access]
        /\ UNCHANGED reported
     \/ ~Storable(row) /\ Fail(c) /\ UNCHANGED conn
  /\ UNCHANGED <<issued, outlook, now>>

\* The call of Graph. An event made without its Teams link is read once more.
Graph(c) ==
  /\ call[c].task = "graph"
  /\ \/ Fail(c) /\ UNCHANGED outlook
     \/ /\ call[c].creates /\ ~call[c].event
        /\ outlook < MaxEvents
        /\ outlook' = outlook + 1
        /\ \/ reported' = reported + 1 /\ Return(c)
           \/ /\ call' = [call EXCEPT ![c].event = TRUE, ![c].task = "lookUp"]
              /\ UNCHANGED reported
     \/ /\ call[c].creates => call[c].event
        /\ reported' = reported + (IF call[c].creates THEN 1 ELSE 0)
        /\ Return(c)
        /\ UNCHANGED outlook
  /\ UNCHANGED <<conn, issued, now>>

-----------------------------------------------------------------------------
Tick ==
  /\ now < MaxNow
  /\ \A c \in Calls : call[c].task # "none" => call[c].at = now
  /\ now' = now + 1
  /\ UNCHANGED <<conn, issued, call, outlook, reported>>

Next ==
  \/ \E c \in Calls :
       \/ Connect(c) \/ Persist(c) \/ Label(c) \/ SaveLoginConnection(c)
       \/ StampLogin(c) \/ Relabel(c)
       \/ Use(c) \/ LookUp(c) \/ Renew(c) \/ SaveRenewed(c) \/ Graph(c)
  \/ Disconnect \/ Tick

Spec == Init /\ [][Next]_vars

-----------------------------------------------------------------------------
(* Properties *)

\* The row, the answers of Microsoft and the handlers in flight have their types; a
\* stored row can always be renewed.
TypeOK ==
  /\ conn \in Connection /\ (conn.id = 0 <=> conn.refresh = 0)
  /\ Len(issued) \in Tokens
  /\ call \in [Calls -> CallState]
  /\ {outlook, reported} \subseteq 0..MaxEvents /\ now \in 0..MaxNow

\* Whatever order connections, sign-ins, renewals and disconnections of one coach
\* save in, the stored access token and refresh token are of one account, and the
\* stored expiry is that of the stored access token, up to the delay of a handler.
TokensBelongTogether ==
  conn.id # 0 =>
    /\ issued[conn.refresh].account = issued[conn.access].account
    /\ issued[conn.refresh].renewable
    /\ conn.expires - issued[conn.access].expires \in {0, 1}

\* The connection has its type and can be renewed, and its two tokens and its expiry
\* are of one answer.
TokensStand == TypeOK /\ TokensBelongTogether

\* The token a handler calls Graph with has not expired when it gets there, though
\* a sign-in stamps its tokens late and the handler looked the token up earlier.
GraphGetsLiveTokens ==
  \A c \in Calls : call[c].task = "graph" => now < issued[call[c].token].expires

\* An event put on the calendar is returned to the caller, who can cancel it later,
\* also when the second read for its Teams link finds the calendar disconnected.
NoEventIsLost ==
  outlook = reported + Cardinality({c \in Calls : call[c].event})

=============================================================================
