---------------------------- MODULE Announcements ---------------------------
(***************************************************************************)
(* The announcement board: announcements.service.ts over the tables        *)
(* announcements, announcement_reads, announcement_acknowledgements and    *)
(* announcement_reactions, the last three keyed by announcement and user.  *)
(* A handler checks first and writes later, one statement at a time        *)
(* (call[c].todo). Of an announcement only what the others depend on is    *)
(* kept: that it exists, is pinned, and asks to be acknowledged.           *)
(***************************************************************************)
EXTENDS Naturals, Sequences

CONSTANTS
  Ids,
  People,    \* active users
  Authors,   \* those of them who may publish
  Emojis,
  Calls

VARIABLES
  board,      \* the table announcements
  reads,
  acks,
  reactions,
  bells,      \* the notifications of new announcements
  call,
  cut         \* acknowledgements that a restart cut short (history)

vars == <<board, reads, acks, reactions, bells, call, cut>>
tables == <<board, reads, acks, reactions, bells>>

Row == [exists : BOOLEAN, pinned : BOOLEAN, requiresAcknowledgement : BOOLEAN]
NoRow == [exists |-> FALSE, pinned |-> FALSE, requiresAcknowledgement |-> FALSE]
Keys == Ids \X People

Idle == [id |-> "none", who |-> "none", row |-> NoRow, emoji |-> "none", todo |-> <<>>]
Free(c) == call[c].todo = <<>>

Start(c, a, u, todo) ==
  /\ Free(c)
  /\ call' = [call EXCEPT ![c] = [Idle EXCEPT !.id = a, !.who = u, !.todo = todo]]
  /\ UNCHANGED tables /\ UNCHANGED cut

StartWith(c, a, u, row, todo) ==
  /\ Free(c)
  /\ call' = [call EXCEPT ![c] = [Idle EXCEPT !.id = a, !.who = u, !.row = row, !.todo = todo]]
  /\ UNCHANGED tables /\ UNCHANGED cut

Init ==
  /\ board = [a \in Ids |-> NoRow]
  /\ reads = {} /\ acks = {} /\ reactions = {} /\ bells = {} /\ cut = {}
  /\ call = [c \in Calls |-> Idle]

-----------------------------------------------------------------------------
(* Handlers *)

\* create, and the notifications it fans out without waiting for them
Create(c, a, u) ==
  /\ u \in Authors /\ ~board[a].exists
  /\ \A d \in Calls : call[d].id = a => Free(d)
  /\ \E pinned, ack \in BOOLEAN :
       StartWith(c, a, u, [exists |-> TRUE, pinned |-> pinned, requiresAcknowledgement |-> ack],
                 <<"save", "notify">>)

\* update loads the announcement and saves the whole of it.
Update(c, a, u) ==
  /\ u \in Authors /\ board[a].exists
  /\ \A d \in Calls : "remove" \notin {call[d].todo[i] : i \in DOMAIN call[d].todo}
  /\ \E pinned, ack \in BOOLEAN :
       StartWith(c, a, u, [board[a] EXCEPT !.pinned = pinned, !.requiresAcknowledgement = ack],
                 <<"save">>)

Remove(c, a, u) ==
  /\ u \in Authors
  /\ \A d \in Calls : "save" \notin {call[d].todo[i] : i \in DOMAIN call[d].todo}
  /\ Start(c, a, u, <<"remove">>)

ToggleReaction(c, a, u) ==
  /\ board[a].exists /\ Free(c)
  /\ \E emoji \in Emojis :
       call' = [call EXCEPT ![c] =
         [Idle EXCEPT !.id = a, !.who = u, !.emoji = emoji,
            !.todo = IF <<a, u, emoji>> \in reactions THEN <<"unreact">> ELSE <<"react">>]]
  /\ UNCHANGED tables /\ UNCHANGED cut

MarkRead(c, a, u) == board[a].exists /\ Start(c, a, u, <<"read">>)

\* Faulty: an acknowledgement is not taken for a reading.
AcknowledgedOnly == <<"acknowledge">>

\* What an acknowledgement writes: itself, and by markRead, which looks for the
\* announcement again, that it was read.
AcknowledgedAndRead == <<"acknowledge", "exists", "read">>

Acknowledge(c, a, u) ==
  /\ board[a].exists /\ board[a].requiresAcknowledgement
  /\ Start(c, a, u, AcknowledgedAndRead)

-----------------------------------------------------------------------------
(* Statements *)

Of(a, S) == {k \in S : k[1] = a}

\* Inserts ignore conflicts, the primary key being the row itself; a foreign key
\* refuses rows of an announcement that is gone, which ends the handler.
Write(c) ==
  LET a == call[c].id  k == <<a, call[c].who>>
      do == Head(call[c].todo)  rest == Tail(call[c].todo)
      reaction == <<a, call[c].who, call[c].emoji>>
      refused == do \in {"acknowledge", "exists", "read", "react"} /\ ~board[a].exists
  IN
  /\ ~Free(c)
  /\ board' = CASE do = "save" -> [board EXCEPT ![a] = call[c].row]
                [] do = "remove" -> [board EXCEPT ![a] = NoRow]
                [] OTHER -> board
  /\ reads' = CASE do = "read" /\ ~refused -> reads \cup {k}
                [] do = "remove" -> reads \ Of(a, reads)
                [] OTHER -> reads
  /\ acks' = CASE do = "acknowledge" /\ ~refused -> acks \cup {k}
               [] do = "remove" -> acks \ Of(a, acks)
               [] OTHER -> acks
  /\ reactions' = CASE do = "react" /\ ~refused -> reactions \cup {reaction}
                    [] do = "unreact" -> reactions \ {reaction}
                    [] do = "remove" -> reactions \ Of(a, reactions)
                    [] OTHER -> reactions
  \* Any of the notifications may fail; the author gets none.
  /\ \E reached \in SUBSET (People \ {call[c].who}) :
       bells' = IF do = "notify" THEN bells \cup ({a} \X reached) ELSE bells
  /\ call' = [call EXCEPT ![c] = IF refused \/ rest = <<>> THEN Idle
                                 ELSE [@ EXCEPT !.todo = rest]]
  /\ cut' = IF do = "remove" THEN cut \ Of(a, cut) ELSE cut

Acknowledging(k) ==
  \E c \in Calls : <<call[c].id, call[c].who>> = k /\ call[c].todo \in {<<"exists", "read">>, <<"read">>}

Restart ==
  /\ call' = [c \in Calls |-> Idle]
  /\ cut' = cut \cup {k \in acks : Acknowledging(k)}
  /\ UNCHANGED tables

-----------------------------------------------------------------------------
(* What is shown *)

\* applyViewerState: what user u sees on an announcement
ViewerState(a, u) ==
  [isRead |-> <<a, u>> \in reads, isAcknowledged |-> <<a, u>> \in acks]

\* findViewers: the readers, each with their acknowledgement
Viewers(a) ==
  {[id |-> k[2], acknowledged |-> k \in acks] : k \in Of(a, reads)}

Next ==
  \/ \E c \in Calls, a \in Ids, u \in People :
       \/ Create(c, a, u) \/ Update(c, a, u) \/ Remove(c, a, u)
       \/ ToggleReaction(c, a, u) \/ MarkRead(c, a, u) \/ Acknowledge(c, a, u)
  \/ \E c \in Calls : Write(c)
  \/ Restart

Spec == Init /\ [][Next]_vars

-----------------------------------------------------------------------------
(* Properties *)

\* Every table has its type.
TypeOK ==
  /\ board \in [Ids -> Row]
  /\ reads \subseteq Keys /\ acks \subseteq Keys /\ bells \subseteq Keys
  /\ reactions \subseteq Ids \X People \X Emojis
  /\ cut \subseteq Keys

\* An acknowledgement is one of the readers' in both views, removals and other tabs
\* notwithstanding: for whoever gave it, and in the list of viewers, whose totals
\* would not fit otherwise. Unless the process died between the two inserts, or is
\* still there.
AcknowledgedIsRead ==
  \A a \in Ids, u \in People :
    ViewerState(a, u).isAcknowledged =>
      \/ ViewerState(a, u).isRead /\ [id |-> u, acknowledged |-> TRUE] \in Viewers(a)
      \/ <<a, u>> \in cut \/ Acknowledging(<<a, u>>)

=============================================================================
