------------------------------- MODULE ChatEdits -------------------------------
(***************************************************************************)
(* Editing employee records through the chat assistant, in two phases: the *)
(* model proposes a change, the admin replies, and a later turn confirms   *)
(* it. chat.service.ts runs a turn and the tools the model calls in it,    *)
(* several at a time; chat-tools.service.ts keeps one pending proposal per *)
(* admin in memory. One admin is enough: admins share only the records.    *)
(***************************************************************************)
EXTENDS Integers, FiniteSets

CONSTANTS
  People,       \* employees on record
  NoPerson,
  Values,       \* the values of each field
  Records,      \* the records to start with
  Asked,        \* what the model may propose: a person, and a value for some fields
  Turns,        \* chat requests of the admin, in order
  Tabs,         \* how many of them may be open at a time
  Tools,        \* slots for tool calls in flight
  EditsRace     \* whether a record may be edited elsewhere between load and save

VARIABLES
  record,    \* the table users: the profile fields of a person
  pending,   \* pendingUpdates: the proposal of the admin
  turn,      \* each turn: open, what it proposed, what the admin had seen before it
  shown,     \* proposals in the replies the admin got (history)
  tool       \* the tool calls in flight

vars == <<record, pending, turn, shown, tool>>

Fields == {"email", "position"}

Rows == {r \in [Fields -> UNION {Values[f] : f \in Fields}] :
           \A f \in Fields : r[f] \in Values[f]}

NoProposal ==
  [of |-> NoPerson, changes |-> << >>, before |-> << >>, turnId |-> 0, expired |-> FALSE]

Tasks == {"none", "taken", "load", "stillFree", "save"}

Idle == [task |-> "none", turn |-> 0, entry |-> NoProposal, row |-> << >>]

NewTurn == [phase |-> "none", proposed |-> {}, seen |-> {}]

Init ==
  /\ record = Records
  /\ pending = NoProposal
  /\ turn = [t \in Turns |-> NewTurn]
  /\ shown = {}
  /\ tool = [c \in Tools |-> Idle]

Open == {t \in Turns : turn[t].phase = "open"}

Return(c) == tool' = [tool EXCEPT ![c] = Idle]

-----------------------------------------------------------------------------
(* Turns *)

\* The admin writes, having read the replies of the turns that are over.
Ask ==
  /\ Cardinality(Open) < Tabs
  /\ \E t \in Turns :
       /\ turn[t].phase = "none" /\ \A o \in Turns : o < t => turn[o].phase # "none"
       /\ turn' = [turn EXCEPT ![t].phase = "open", ![t].seen = shown]
  /\ UNCHANGED <<record, pending, shown, tool>>

\* The model is done with its tools and replies.
Reply ==
  \E t \in Open :
    /\ \A c \in Tools : tool[c].turn # t
    /\ turn' = [turn EXCEPT ![t].phase = "over"]
    /\ shown' = shown \cup turn[t].proposed
    /\ UNCHANGED <<record, pending, tool>>

-----------------------------------------------------------------------------
(* propose_employee_update *)

\* Faulty: fields that would stay as they are count as changed.
AllOf(changes, row) == DOMAIN changes

\* The fields of a change that differ from the record.
Effective(changes, row) == {f \in DOMAIN changes : changes[f] # row[f]}

Taken(p, email) == \E o \in People \ {p} : record[o].email = email

\* An identical proposal is kept: the admin has replied to it.
IsRepeat(e) == pending.of = e.of /\ pending.changes = e.changes /\ ~pending.expired

Stage(e) ==
  /\ pending' = IF IsRepeat(e) THEN pending ELSE e
  /\ turn' = [turn EXCEPT ![e.turnId].proposed =
                @ \cup {[of |-> e.of, changes |-> e.changes]}]

Propose(c, t) ==
  /\ tool[c].task = "none" /\ t \in Open
  /\ \E asked \in Asked :
       LET p == asked.of
           fields == Effective(asked.changes, record[p])
           e == [of |-> p, changes |-> [f \in fields |-> asked.changes[f]],
                 before |-> [f \in fields |-> record[p][f]], turnId |-> t,
                 expired |-> FALSE]
       IN /\ fields # {}
          /\ IF "email" \in fields
             THEN /\ tool' = [tool EXCEPT ![c] = [Idle EXCEPT !.task = "taken", !.turn = t,
                                                              !.entry = e]]
                  /\ UNCHANGED <<pending, turn>>
             ELSE Stage(e) /\ UNCHANGED tool
  /\ UNCHANGED <<record, shown>>

ProposeFree(c) ==
  LET e == tool[c].entry IN
  /\ tool[c].task = "taken"
  /\ IF Taken(e.of, e.changes.email) THEN UNCHANGED <<pending, turn>> ELSE Stage(e)
  /\ Return(c)
  /\ UNCHANGED <<record, shown>>

-----------------------------------------------------------------------------
(* confirm_employee_update *)

\* Faulty: whatever was proposed may be confirmed.
ConfirmableAtOnce(t) == TRUE

\* A proposal of this very turn has not been answered yet.
Confirmable(t) == pending.turnId # t

Confirm(c, t) ==
  /\ tool[c].task = "none" /\ t \in Open /\ pending # NoProposal
  /\ IF pending.expired
     THEN pending' = NoProposal /\ UNCHANGED tool
     ELSE /\ Confirmable(t)
          /\ tool' = [tool EXCEPT ![c] = [Idle EXCEPT !.task = "load", !.turn = t,
                                                      !.entry = pending]]
          /\ UNCHANGED pending
  /\ UNCHANGED <<record, turn, shown>>

\* Faulty: the record is compared with what it is to become.
StaleWhenDone(e, row) == \A f \in DOMAIN e.changes : row[f] = e.changes[f]

\* A field of the proposal moved since.
Stale(e, row) == \E f \in DOMAIN e.changes : row[f] # e.before[f]

ConfirmLoad(c) ==
  LET e == tool[c].entry  row == record[e.of] IN
  /\ tool[c].task = "load"
  /\ IF Stale(e, row) THEN pending' = NoProposal /\ Return(c)
     ELSE /\ tool' = [tool EXCEPT ![c].row = row,
                        ![c].task = IF "email" \in DOMAIN e.changes THEN "stillFree" ELSE "save"]
          /\ UNCHANGED pending
  /\ UNCHANGED <<record, turn, shown>>

ConfirmFree(c) ==
  LET e == tool[c].entry IN
  /\ tool[c].task = "stillFree"
  /\ IF Taken(e.of, e.changes.email) THEN pending' = NoProposal /\ Return(c)
     ELSE tool' = [tool EXCEPT ![c].task = "save"] /\ UNCHANGED pending
  /\ UNCHANGED <<record, turn, shown>>

\* The save of the whole loaded row, which the unique index on addresses may refuse;
\* the proposal is dropped after it, whichever one is pending by then.
SaveUpdate(c) ==
  LET e == tool[c].entry
      row == [f \in Fields |-> IF f \in DOMAIN e.changes THEN e.changes[f] ELSE tool[c].row[f]]
  IN
  /\ tool[c].task = "save"
  /\ IF Taken(e.of, row.email) THEN UNCHANGED <<record, pending>>
     ELSE record' = [record EXCEPT ![e.of] = row] /\ pending' = NoProposal
  /\ Return(c)
  /\ UNCHANGED <<turn, shown>>

-----------------------------------------------------------------------------
(* What happens besides *)

\* A record is edited elsewhere.
EditElsewhere ==
  /\ \A c \in Tools : tool[c].task \in {"stillFree", "save"} => EditsRace
  /\ \E p \in People, f \in Fields, v \in UNION {Values[g] : g \in Fields} :
       /\ v \in Values[f] /\ (f = "email" => ~Taken(p, v))
       /\ record' = [record EXCEPT ![p][f] = v]
  /\ UNCHANGED <<pending, turn, shown, tool>>

TenMinutesPass ==
  /\ pending # NoProposal
  /\ pending' = [pending EXCEPT !.expired = TRUE]
  /\ UNCHANGED <<record, turn, shown, tool>>

\* A restart of the server drops the proposal and cuts the turns.
Restart ==
  /\ pending' = NoProposal
  /\ tool' = [c \in Tools |-> Idle]
  /\ turn' = [t \in Turns |-> IF t \in Open THEN [turn[t] EXCEPT !.phase = "over"] ELSE turn[t]]
  /\ UNCHANGED <<record, shown>>

Next ==
  \/ Ask \/ Reply
  \/ \E c \in Tools :
       \/ \E t \in Turns : Propose(c, t) \/ Confirm(c, t)
       \/ ProposeFree(c) \/ ConfirmLoad(c) \/ ConfirmFree(c) \/ SaveUpdate(c)
  \/ EditElsewhere \/ TenMinutesPass \/ Restart

Spec == Init /\ [][Next]_vars

-----------------------------------------------------------------------------
(* Properties *)

\* The records, the proposal and the handlers in flight have their types; a pending
\* proposal names only fields it would change.
TypeOK ==
  /\ record \in [People -> Rows]
  /\ pending.of \in People \cup {NoPerson} /\ pending.turnId \in Turns \cup {0}
  /\ \A f \in DOMAIN pending.changes : pending.changes[f] # pending.before[f]
  /\ \A t \in Turns : turn[t].seen \subseteq shown
  /\ \A c \in Tools : tool[c].task \in Tasks /\ tool[c].turn \in Turns \cup {0}

Saving(c) == tool[c].task = "save" /\ tool'[c] # tool[c] /\ record' # record

\* A change is saved only in a turn the admin began after reading the reply that
\* showed exactly this change: the model never proposes and applies on its own,
\* however it mixes proposals and confirmations and however they interleave.
AppliedWasShown ==
  [][\A c \in Tools :
       Saving(c) => [of |-> tool[c].entry.of, changes |-> tool[c].entry.changes]
                      \in turn[tool[c].turn].seen]_vars

\* A save overwrites only the values the proposal named as the old ones: a record
\* that moved meanwhile is left alone, and so is every other field of it.
OverwritesWhatWasShown ==
  [][\A c \in Tools :
       Saving(c) =>
         LET e == tool[c].entry IN
         \A f \in Fields :
           record'[e.of][f] # record[e.of][f]
             => f \in DOMAIN e.changes /\ record[e.of][f] = e.before[f]]_vars

=============================================================================
