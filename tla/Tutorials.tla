------------------------------- MODULE Tutorials -------------------------------
(***************************************************************************)
(* The Video Guide: tutorials.service.ts over the table tutorials. An      *)
(* admin creates a draft, uploads its video and thumbnail to S3 and saves  *)
(* their keys, and switches it on or off; employees see what is active and *)
(* has a video, and are mailed when a tutorial becomes visible. A handler  *)
(* loads the row and saves all of it back after an await. A stop of the    *)
(* process is modelled between handlers only.                              *)
(***************************************************************************)
EXTENDS FiniteSets

CONSTANTS
  Ids,     \* primary keys of tutorials
  Seeds,   \* titles of SEED_TUTORIALS
  Calls    \* slots for handlers in flight

VARIABLES
  tutorials,
  announced,  \* tutorials that employees were mailed about
  seeded,     \* tutorials that came with the seed, visible from the start
  call

vars == <<tutorials, announced, seeded, call>>

Titles == Seeds \cup {"other"}

Tutorial == [there : BOOLEAN, title : Titles, active : BOOLEAN, video : BOOLEAN]

None == [there |-> FALSE, title |-> "other", active |-> FALSE, video |-> FALSE]

Idle == [task |-> "none", ids |-> {}, row |-> None, was |-> FALSE]

Init ==
  /\ tutorials = [i \in Ids |-> None]
  /\ announced = {} /\ seeded = {}
  /\ call = [c \in Calls |-> Idle]

IsPubliclyVisible(row) == row.active /\ row.video

New(i) == ~tutorials[i].there /\ \A c \in Calls : i \notin call[c].ids

Create(i) ==
  /\ New(i)
  /\ \E active \in BOOLEAN, title \in Titles :
       tutorials' = [tutorials EXCEPT ![i] =
         [there |-> TRUE, title |-> title, active |-> active, video |-> FALSE]]
  /\ announced' = announced \ {i} /\ seeded' = seeded \ {i}
  /\ UNCHANGED call

\* Faulty: looks at the row after the change.
WasVisibleAfter(old, new) == IsPubliclyVisible(new)

WasVisible(old, new) == IsPubliclyVisible(old)

\* getEntity, and the change of the loaded row.
Load(c, i, task, row) ==
  /\ call[c].task = "none" /\ tutorials[i].there
  /\ call' = [call EXCEPT ![c] =
       [task |-> task, ids |-> {i}, row |-> row, was |-> WasVisible(tutorials[i], row)]]
  /\ UNCHANGED <<tutorials, announced, seeded>>

Update(c, i) ==
  \E active \in BOOLEAN, title \in Titles :
    Load(c, i, "publish", [tutorials[i] EXCEPT !.active = active, !.title = title])

SaveVideo(c, i) == Load(c, i, "publish", [tutorials[i] EXCEPT !.video = TRUE])

SaveThumbnail(c, i) == Load(c, i, "save", tutorials[i])

\* repository.save writes the row as it was loaded and changed, or inserts it again;
\* notifyPublished follows at once.
Save(c) ==
  LET f == call[c] IN
  /\ f.task \in {"publish", "save"}
  /\ \E i \in f.ids :
       /\ tutorials' = [tutorials EXCEPT ![i] = f.row]
       /\ announced' = IF f.task = "publish" /\ ~f.was /\ IsPubliclyVisible(f.row)
                       THEN announced \cup {i} ELSE announced
  /\ call' = [call EXCEPT ![c] = Idle]
  /\ UNCHANGED seeded

Remove(i) ==
  /\ tutorials[i].there
  /\ tutorials' = [tutorials EXCEPT ![i] = None]
  /\ UNCHANGED <<announced, seeded, call>>

\* seed, as the process starts: the titles that no tutorial has. One at a time.
Seed(i) ==
  /\ \A c \in Calls : call[c].task = "none"
  /\ New(i)
  /\ \E s \in Seeds :
       /\ \A j \in Ids : ~(tutorials[j].there /\ tutorials[j].title = s)
       /\ tutorials' = [tutorials EXCEPT ![i] =
                          [there |-> TRUE, title |-> s, active |-> TRUE, video |-> TRUE]]
  /\ announced' = announced \ {i} /\ seeded' = seeded \cup {i}
  /\ UNCHANGED call

Next ==
  \/ \E i \in Ids : Create(i) \/ Remove(i) \/ Seed(i)
  \/ \E c \in Calls, i \in Ids : Update(c, i) \/ SaveVideo(c, i) \/ SaveThumbnail(c, i)
  \/ \E c \in Calls : Save(c)

Spec == Init /\ [][Next]_vars

-----------------------------------------------------------------------------
(* Properties *)

\* The table and the handlers in flight have their types.
TypeOK ==
  /\ tutorials \in [Ids -> Tutorial]
  /\ announced \cup seeded \subseteq Ids
  /\ \A c \in Calls : call[c].row \in Tutorial

\* What employees can see they were mailed about, unless it came with the seed: also
\* when it is switched on while its video is being saved, and each handler knows
\* only its own half.
PublicWasAnnounced ==
  \A i \in Ids :
    tutorials[i].there /\ IsPubliclyVisible(tutorials[i]) => i \in announced \cup seeded

=============================================================================
