----------------------------- MODULE LoginEvents ----------------------------
(***************************************************************************)
(* How long people are signed in: the rows of login_events, written by     *)
(* AuthService.login and extended by the heartbeats of every open tab.     *)
(***************************************************************************)
EXTENDS Integers

CONSTANTS
  Logins,         \* primary keys of login_events
  Tabs,           \* heartbeats that can be in flight together
  MaxNow,         \* bound: the clock
  IdleThreshold   \* a longer gap between two heartbeats does not count

VARIABLES
  events,     \* the table login_events
  beat,       \* per tab, the event its heartbeat has loaded and will save
  now

vars == <<events, beat, now>>

NoLogin == [exists |-> FALSE, createdAt |-> 0, lastHeartbeatAt |-> 0, duration |-> 0]

Init ==
  /\ events = [e \in Logins |-> NoLogin]
  /\ beat = [t \in Tabs |-> <<>>]
  /\ now = 0

\* login: a new event. Its reference is the login until the first heartbeat.
Login(e) ==
  /\ ~events[e].exists
  /\ events' = [events EXCEPT ![e] =
                 [exists |-> TRUE, createdAt |-> now, lastHeartbeatAt |-> now, duration |-> 0]]
  /\ UNCHANGED <<beat, now>>

\* Faulty: the gap is measured from the login each time.
ExtendedFromLogin(event) ==
  [event EXCEPT !.lastHeartbeatAt = now, !.duration = @ + (now - event.createdAt)]

Extended(event) ==
  LET gap == now - event.lastHeartbeatAt IN
  [event EXCEPT !.lastHeartbeatAt = now,
                !.duration = IF gap <= IdleThreshold THEN @ + gap ELSE @]

\* heartbeat: loads the event, and saves it one await later.
Heartbeat(t, e) ==
  /\ beat[t] = <<>> /\ events[e].exists
  /\ beat' = [beat EXCEPT ![t] = <<e, Extended(events[e])>>]
  /\ UNCHANGED <<events, now>>

SaveHeartbeat(t) ==
  /\ beat[t] # <<>>
  /\ events' = [events EXCEPT ![beat[t][1]] = beat[t][2]]
  /\ beat' = [beat EXCEPT ![t] = <<>>]
  /\ UNCHANGED now

Tick == now < MaxNow /\ now' = now + 1 /\ UNCHANGED <<events, beat>>

Next ==
  \/ \E e \in Logins : Login(e) \/ \E t \in Tabs : Heartbeat(t, e)
  \/ \E t \in Tabs : SaveHeartbeat(t)
  \/ Tick

Spec == Init /\ [][Next]_vars

\* Heartbeats of several tabs, whichever is saved last, never count more time than
\* passed between the login and the last heartbeat.
CountedWithinElapsed ==
  \A e \in Logins : events[e].exists =>
    events[e].duration <= events[e].lastHeartbeatAt - events[e].createdAt

=============================================================================
