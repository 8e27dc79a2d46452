------------------------------ MODULE FeedPages -----------------------------
(***************************************************************************)
(* Reading the feed page by page: getFeed and the keyset pagination of     *)
(* community.service.ts, while posts come, go, are pinned, and gain and    *)
(* lose reactions.                                                         *)
(*                                                                         *)
(* A post is placed by its time of creation (recent) or its number of      *)
(* reactions (popular), then by its id. The column has microseconds and    *)
(* the cursor milliseconds: a place is <<coarse, fine>>, and the cursor    *)
(* drops the fine part. A count of reactions has none.                     *)
(***************************************************************************)
EXTENDS Integers, FiniteSets

CONSTANTS
  Posts,     \* ids, which the database orders
  Coarse,    \* milliseconds of creation, or numbers of reactions
  Fine,      \* microseconds within them
  Limit      \* posts on a page

ASSUME FeedAssumption ==
  /\ Posts \subseteq Nat /\ Coarse \subseteq Nat /\ Coarse # {}
  /\ Fine \subseteq Nat /\ 0 \in Fine
  /\ Limit \in Nat \ {0}

VARIABLES
  listed,    \* posts in the scope of the query that are not pinned
  place,     \* where each is
  phase,     \* of the reader
  cursor,    \* what the reader sends for the next page
  page,      \* ids the first query of getFeed selected
  returned,  \* posts the reader has been given (history)
  twice,     \* ... more than once (history)
  steady,    \* posts listed, and in the same place, since the reading began (history)
  clear      \* ... with no other post in their millisecond (history)

vars == <<listed, place, phase, cursor, page, returned, twice, steady, clear>>

-----------------------------------------------------------------------------
(* Order *)

Place == Coarse \X Fine

\* No cursor yet, the key of the last post of a page, or no next page.
Cursor == [at : {"top", "after", "end"}, coarse : Nat, fine : Nat, id : Nat]
Top == [at |-> "top", coarse |-> 0, fine |-> 0, id |-> 0]
End == [at |-> "end", coarse |-> 0, fine |-> 0, id |-> 0]

\* Key k comes after key l in the feed: descending, ids last.
After(k, l) ==
  \/ k.coarse < l.coarse
  \/ k.coarse = l.coarse /\ k.fine < l.fine
  \/ k.coarse = l.coarse /\ k.fine = l.fine /\ k.id < l.id

Key(p) == [coarse |-> place[p][1], fine |-> place[p][2], id |-> p]

\* Faulty: the cursor is the place alone.
EncodePlaceOnly(p) == [at |-> "after", coarse |-> place[p][1], fine |-> 0, id |-> 0]

\* encodeCursor: toISOString has no microseconds.
EncodeCursor(p) == [at |-> "after", coarse |-> place[p][1], fine |-> 0, id |-> p]

\* applySortAndCursor
Remaining(p) ==
  cursor.at = "top" \/ (cursor.at = "after" /\ After(Key(p), cursor))

-----------------------------------------------------------------------------
(* The reader *)

Init ==
  /\ listed = {}
  /\ place = [p \in Posts |-> CHOOSE at \in Place : TRUE]
  /\ phase = "idle" /\ cursor = Top
  /\ page = {} /\ returned = {} /\ twice = {} /\ steady = {} /\ clear = {}

\* p shares its millisecond with no post that comes before or after it there.
Clear(p) ==
  \A q \in listed \ {p} :
    place[q][1] = place[p][1] => place[q][2] = 0 /\ place[p][2] = 0

Begin ==
  /\ phase \in {"idle", "done"}
  /\ phase' = "select" /\ cursor' = Top
  /\ page' = {} /\ returned' = {} /\ twice' = {}
  /\ steady' = listed /\ clear' = {p \in listed : Clear(p)}
  /\ UNCHANGED <<listed, place>>

\* The first rows of a set in the order of the feed: selectPostIds of one more
\* than fits tells whether there are more.
First(rows, S) ==
  /\ S \subseteq rows
  /\ \A p \in S, q \in rows \ S : After(Key(q), Key(p))
  /\ IF S = rows THEN Cardinality(S) <= Limit ELSE Cardinality(S) = Limit

Select ==
  /\ phase = "select"
  /\ \E S \in SUBSET listed :
       LET rows == {p \in listed : Remaining(p)} IN
       /\ First(rows, S)
       /\ page' = S
       /\ \/ S = rows /\ cursor' = End
          \/ /\ S # rows
             /\ \E last \in S :
                  /\ \A p \in S \ {last} : After(Key(last), Key(p))
                  /\ cursor' = EncodeCursor(last)
  /\ phase' = "load"
  /\ UNCHANGED <<listed, place, returned, twice, steady, clear>>

\* loadAndMap: the second query does not find what was deleted since the first.
Load ==
  /\ phase = "load"
  /\ \E gone \in SUBSET (page \ listed) :
       /\ returned' = returned \cup (page \ gone)
       /\ twice' = twice \cup (returned \cap (page \ gone))
  /\ page' = {}
  /\ phase' = IF cursor.at = "end" THEN "done" ELSE "select"
  /\ UNCHANGED <<listed, place, cursor, steady, clear>>

-----------------------------------------------------------------------------
(* Everybody else *)

Changing(p) ==
  /\ steady' = steady \ {p}
  /\ clear' = {q \in clear \ {p} : Clear(q)'}
  /\ UNCHANGED <<phase, cursor, page, returned, twice>>

\* Created, unpinned, or in a community the reader has just joined.
Appear(p) ==
  /\ p \notin listed /\ listed' = listed \cup {p}
  /\ \E at \in Place : place' = [place EXCEPT ![p] = at]
  /\ Changing(p)

\* Deleted, pinned, or no longer in scope.
Disappear(p) ==
  /\ p \in listed /\ listed' = listed \ {p}
  /\ UNCHANGED place
  /\ Changing(p)

\* A reaction is added or cleared.
Move(p) ==
  /\ p \in listed
  /\ \E n \in Coarse :
       n \in {place[p][1] - 1, place[p][1] + 1} /\ place' = [place EXCEPT ![p] = <<n, @[2]>>]
  /\ UNCHANGED listed
  /\ Changing(p)

Next ==
  \/ Begin \/ Select \/ Load
  \/ \E p \in Posts : Appear(p) \/ Disappear(p) \/ Move(p)

Spec == Init /\ [][Next]_vars

-----------------------------------------------------------------------------
(* Properties *)

\* The reader's state has its type.
TypeOK ==
  /\ listed \subseteq Posts /\ place \in [Posts -> Place]
  /\ phase \in {"idle", "select", "load", "done"}
  /\ cursor \in Cursor
  /\ page \subseteq Posts /\ returned \subseteq Posts /\ twice \subseteq Posts
  /\ steady \subseteq listed /\ clear \subseteq steady

\* Whatever happens to other posts between two pages, a post that stays where it
\* is is returned once at most; once exactly when the reader gets to the end,
\* unless another post was created in the same millisecond.
SteadyPostsOnce ==
  /\ twice \cap steady = {}
  /\ phase = "done" => clear \subseteq returned

=============================================================================
