---------------------------- MODULE Notifications ---------------------------
(***************************************************************************)
(* The bell of one user: the rows of notifications and the event streams   *)
(* of the user's open tabs, as notifications.service.ts and the controller *)
(* keep them. A stream is registered first, the unread rows are queried    *)
(* then, and sent when the query answers; a new row is pushed to the       *)
(* streams registered when its insert has returned.                        *)
(***************************************************************************)
EXTENDS Integers, FiniteSets

CONSTANTS
  Ids,           \* notifications, in the order they are created
  Tabs,
  ReplayLimit    \* unread notifications sent on connecting

\* Keys are counted from 1.
ASSUME IdsAssumption == Ids \subseteq Nat \ {0}

VARIABLES
  rows,       \* the table
  pushing,    \* notifications inserted and not yet pushed
  reading,    \* loaded by markRead and not yet saved
  streams,    \* tabs whose stream is registered
  replay,     \* per tab, what its query of unread notifications has found
  known,      \* per tab, the notifications it was sent (history)
  older       \* per tab, unread ones the query left out for the limit (history)

vars == <<rows, pushing, reading, streams, replay, known, older>>

NotFetched == {0}   \* no notification has this id
Sent == {-1}

Init ==
  /\ rows = [n \in Ids |-> "none"]
  /\ pushing = {} /\ reading = {} /\ streams = {}
  /\ replay = [t \in Tabs |-> Sent]
  /\ known = [t \in Tabs |-> {}] /\ older = [t \in Tabs |-> {}]

Unread == {n \in Ids : rows[n] = "unread"}

-----------------------------------------------------------------------------
(* Rows *)

\* create: the insert, then the push to whoever listens by then.
Create(n) ==
  /\ rows[n] = "none" /\ \A m \in Ids : m < n => rows[m] # "none"
  /\ rows' = [rows EXCEPT ![n] = "unread"]
  /\ pushing' = pushing \cup {n}
  /\ UNCHANGED <<reading, streams, replay, known, older>>

\* Faulty: only the tabs that had their replay are pushed to.
PushToReplayed(n) ==
  /\ n \in pushing /\ pushing' = pushing \ {n}
  /\ known' = [t \in Tabs |-> IF t \in streams /\ replay[t] = Sent THEN known[t] \cup {n}
                              ELSE known[t]]
  /\ UNCHANGED <<rows, reading, streams, replay, older>>

Push(n) ==
  /\ n \in pushing /\ pushing' = pushing \ {n}
  /\ known' = [t \in Tabs |-> IF t \in streams THEN known[t] \cup {n} ELSE known[t]]
  /\ UNCHANGED <<rows, reading, streams, replay, older>>

\* markRead: loaded, and saved one await later, inserted again if it is gone.
MarkRead(n) ==
  /\ rows[n] \in {"unread", "read"} /\ reading' = reading \cup {n}
  /\ UNCHANGED <<rows, pushing, streams, replay, known, older>>

SaveRead(n) ==
  /\ n \in reading /\ reading' = reading \ {n}
  /\ rows' = [rows EXCEPT ![n] = "read"]
  /\ UNCHANGED <<pushing, streams, replay, known, older>>

MarkAllRead ==
  /\ rows' = [n \in Ids |-> IF rows[n] = "unread" THEN "read" ELSE rows[n]]
  /\ UNCHANGED <<pushing, reading, streams, replay, known, older>>

\* remove, and deleteForRequestByTitles for what an undone decision had announced.
Remove(S) ==
  /\ S # {} /\ \A n \in S : rows[n] \in {"unread", "read"}
  /\ rows' = [n \in Ids |-> IF n \in S THEN "gone" ELSE rows[n]]
  /\ UNCHANGED <<pushing, reading, streams, replay, known, older>>

-----------------------------------------------------------------------------
(* Streams *)

\* getStream
Connect(t) ==
  /\ t \notin streams /\ streams' = streams \cup {t}
  /\ replay' = [replay EXCEPT ![t] = NotFetched]
  /\ UNCHANGED <<rows, pushing, reading, known, older>>

Newest(S) == {n \in S : Cardinality({m \in S : m > n}) < ReplayLimit}

\* Faulty: what to replay is what was read already.
FoundRead == Newest({n \in Ids : rows[n] = "read"})

\* findUnread
Found == Newest(Unread)

Fetch(t) ==
  /\ t \in streams /\ replay[t] = NotFetched
  /\ replay' = [replay EXCEPT ![t] = Found]
  /\ older' = [older EXCEPT ![t] = Unread \ Newest(Unread)]
  /\ UNCHANGED <<rows, pushing, reading, streams, known>>

Replay(t) ==
  /\ t \in streams /\ replay[t] \notin {NotFetched, Sent}
  /\ known' = [known EXCEPT ![t] = @ \cup replay[t]]
  /\ replay' = [replay EXCEPT ![t] = Sent]
  /\ UNCHANGED <<rows, pushing, reading, streams, older>>

\* The request closes: the stream is taken from the map, and what its query still
\* finds goes nowhere.
Close(t) ==
  /\ t \in streams /\ streams' = streams \ {t}
  /\ replay' = [replay EXCEPT ![t] = Sent]
  /\ known' = [known EXCEPT ![t] = {}] /\ older' = [older EXCEPT ![t] = {}]
  /\ UNCHANGED <<rows, pushing, reading>>

Restart ==
  /\ streams' = {} /\ pushing' = {} /\ reading' = {}
  /\ replay' = [t \in Tabs |-> Sent]
  /\ known' = [t \in Tabs |-> {}] /\ older' = [t \in Tabs |-> {}]
  /\ UNCHANGED rows

Next ==
  \/ \E n \in Ids : Create(n) \/ Push(n) \/ MarkRead(n) \/ SaveRead(n)
  \/ MarkAllRead \/ \E S \in SUBSET Ids : Remove(S)
  \/ \E t \in Tabs : Connect(t) \/ Fetch(t) \/ Replay(t) \/ Close(t)
  \/ Restart

\* The database answers every query, and the process goes on with what it has.
Fairness ==
  /\ \A n \in Ids : WF_vars(Push(n))
  /\ \A t \in Tabs : WF_vars(Fetch(t)) /\ WF_vars(Replay(t))

Spec == Init /\ [][Next]_vars

-----------------------------------------------------------------------------
(* Properties *)

\* The streams and what is on its way to them have their types.
TypeOK ==
  /\ rows \in [Ids -> {"none", "unread", "read", "gone"}]
  /\ pushing \subseteq Ids /\ reading \subseteq Ids /\ streams \subseteq Tabs
  /\ replay \in [Tabs -> (SUBSET Ids) \cup {NotFetched, Sent}]
  /\ known \in [Tabs -> SUBSET Ids] /\ older \in [Tabs -> SUBSET Ids]

\* A notification created around the moment a tab connects does not fall between
\* the query and the pushes, whatever their order: an open tab that had its replay
\* has every unread notification, one that is being pushed, or one beyond the limit.
NothingFallsBetween ==
  \A t \in streams : replay[t] = Sent => Unread \subseteq known[t] \cup pushing \cup older[t]

\* An unread notification reaches every tab that stays open, or is beyond the limit.
UnreadReachesOpenTabs ==
  \A t \in Tabs, n \in Ids :
    t \in streams /\ n \in Unread ~> n \in known[t] \cup older[t] \/ n \notin Unread \/ t \notin streams

=============================================================================
