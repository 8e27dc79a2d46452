---------------------------- MODULE CommunityProofs ----------------------------
(***************************************************************************)
(* What Community promises, for every number of posts, people, balances    *)
(* and videos: an inductive invariant for each of its parts, and the       *)
(* whole, a step of which is a step of one part that leaves the others as  *)
(* they are.                                                               *)
(***************************************************************************)
EXTENDS Community, SequenceTheorems, TLAPS

-----------------------------------------------------------------------------
(* The pages of the feed *)

Handled == returned \cup page

\* What has been handed out lies before the cursor, nothing in its place was handed
\* out twice, and nothing clear lies before the cursor without having been.
Reading ==
  /\ \A p \in steady : p \in Handled => ~Remaining(p)
  /\ \A p \in clear : Remaining(p) \/ p \in Handled
  /\ \A p \in clear : Clear(p)
  /\ page \cap returned \cap steady = {}
  /\ twice \cap steady = {}
  /\ phase \in {"select", "done"} => page = {}
  /\ phase = "done" => cursor.at = "end"
  /\ phase = "idle" => steady = {}

IInv == TypeOK /\ Reading

\* The cursor after a page: what is on the page or before it does not come again,
\* and what is after it does, unless a millisecond hides it.
LEMMA CursorMoves ==
  ASSUME TypeOK, NEW last \in Posts, NEW p \in Posts
  PROVE  /\ p = last \/ After(Key(last), Key(p)) => ~After(Key(p), EncodeCursor(last))
         /\ ~After(Key(p), cursor) /\ After(Key(last), cursor)
              => ~After(Key(p), EncodeCursor(last))
         /\ /\ After(Key(p), Key(last))
            /\ place[last][1] = place[p][1] => place[last][2] = 0 /\ place[p][2] = 0
            => After(Key(p), EncodeCursor(last))
<1>1. /\ place[p][1] \in Int /\ place[p][2] \in Int /\ place[p][2] >= 0
      /\ place[last][1] \in Int /\ place[last][2] \in Int /\ place[last][2] >= 0
      /\ p \in Int /\ last \in Int
  <2>1. place[p] \in Coarse \X Fine /\ place[last] \in Coarse \X Fine
    BY DEF TypeOK, Place
  <2>2. /\ place[p][1] \in Coarse /\ place[p][2] \in Fine
        /\ place[last][1] \in Coarse /\ place[last][2] \in Fine
    BY <2>1
  <2>3. /\ \A n \in Coarse : n \in Int
        /\ \A n \in Fine : n \in Int /\ n >= 0
        /\ \A n \in Posts : n \in Int
    BY FeedAssumption
  <2> QED BY <2>2, <2>3
<1>2. cursor.coarse \in Int /\ cursor.fine \in Int /\ cursor.id \in Int
  BY DEF TypeOK, Cursor
<1> QED
  BY <1>1, <1>2 DEF After, Key, EncodeCursor

LEMMA InitReading == Init => IInv
<1> SUFFICES ASSUME Init PROVE IInv OBVIOUS
<1>1. Place # {}
  <2>1. PICK n \in Coarse : TRUE
    BY FeedAssumption
  <2>2. <<n, 0>> \in Place
    BY <2>1, FeedAssumption DEF Place
  <2> QED BY <2>2
<1>2. \A p \in Posts : (CHOOSE at \in Place : TRUE) \in Place
  BY <1>1
<1>3. TypeOK
  BY <1>2, FeedAssumption DEF Init, TypeOK, Cursor, Top
<1>4. Reading
  BY DEF Init, Reading, Handled
<1> QED BY <1>3, <1>4 DEF IInv

LEMMA BeginKeeps == IInv /\ Begin => IInv'
<1> SUFFICES ASSUME IInv, Begin PROVE IInv' OBVIOUS
<1>1. TypeOK'
  BY DEF IInv, TypeOK, Begin, Cursor, Top
<1>2. \A p : Clear(p)' <=> Clear(p)
  BY DEF Begin, Clear
<1>3. \A p : Remaining(p)'
  BY DEF Begin, Remaining, Top
<1>4. Reading'
  BY <1>2, <1>3 DEF Reading, Handled, Begin
<1> QED BY <1>1, <1>4 DEF IInv

LEMMA SelectKeeps == IInv /\ Select => IInv'
<1> SUFFICES ASSUME IInv, Select PROVE IInv' OBVIOUS
<1> DEFINE rows == {p \in listed : Remaining(p)}
<1>1. PICK S \in SUBSET listed :
        /\ First(rows, S)
        /\ page' = S
        /\ \/ S = rows /\ cursor' = End
           \/ /\ S # rows
              /\ \E last \in S :
                   /\ \A p \in S \ {last} : After(Key(last), Key(p))
                   /\ cursor' = EncodeCursor(last)
  BY DEF Select
<1>2. TypeOK /\ Reading /\ listed \subseteq Posts /\ steady \subseteq listed /\ clear \subseteq steady
  BY DEF IInv, TypeOK
<1>3. /\ page = {} /\ phase' = "load" /\ S \subseteq rows
      /\ UNCHANGED <<listed, place, returned, twice, steady, clear>>
  BY <1>1, <1>2 DEF Select, Reading, First
<1>4. \A p : Clear(p)' <=> Clear(p)
  BY <1>3 DEF Clear
<1>5. \A p : Key(p)' = Key(p)
  BY <1>3 DEF Key
<1>6. CASE S = rows /\ cursor' = End
  <2>1. TypeOK'
    BY <1>1, <1>2, <1>3, <1>6 DEF TypeOK, Cursor, End, Top
  <2>2. \A p : ~Remaining(p)'
    BY <1>6 DEF Remaining, End, Top
  <2>3. \A p \in clear : p \in (Handled)'
    BY <1>1, <1>2, <1>3, <1>6 DEF Reading, Handled
  <2>4. page' \cap returned \cap steady = {}
    BY <1>1, <1>2, <1>3 DEF Reading, Handled
  <2> QED
    BY <1>2, <1>3, <1>4, <2>1, <2>2, <2>3, <2>4 DEF IInv, Reading
<1>7. CASE S # rows /\ \E last \in S : /\ \A p \in S \ {last} : After(Key(last), Key(p))
                                       /\ cursor' = EncodeCursor(last)
  <2>1. PICK last \in S : /\ \A p \in S \ {last} : After(Key(last), Key(p))
                          /\ cursor' = EncodeCursor(last)
    BY <1>7
  <2>2. last \in Posts /\ last \in listed /\ Remaining(last)
    BY <1>2, <1>3, <2>1
  <2>3. TypeOK'
    <3>1. EncodeCursor(last) \in Cursor
      BY <1>2, <2>2, FeedAssumption DEF TypeOK, Place, EncodeCursor, Cursor
    <3> QED BY <1>1, <1>2, <1>3, <2>1, <3>1 DEF TypeOK
  <2>4. \A p : Remaining(p)' <=> After(Key(p), EncodeCursor(last))
    BY <1>5, <2>1 DEF Remaining, EncodeCursor
  <2>5. \A p \in steady : p \in S => ~Remaining(p)'
    BY <1>2, <2>1, <2>2, <2>4, CursorMoves
  <2>6. \A p \in steady : p \in returned => ~Remaining(p)'
    <3> SUFFICES ASSUME NEW p \in steady, p \in returned PROVE ~Remaining(p)' OBVIOUS
    <3>1. ~Remaining(p)
      BY <1>2 DEF Reading, Handled
    <3>2. ~After(Key(p), cursor) /\ After(Key(last), cursor)
      BY <2>2, <3>1 DEF Remaining
    <3> QED BY <1>2, <2>2, <2>4, <3>2, CursorMoves
  <2>7. \A p \in clear : Remaining(p)' \/ p \in S \/ p \in returned
    <3> SUFFICES ASSUME NEW p \in clear, p \notin S, p \notin returned PROVE Remaining(p)'
      OBVIOUS
    <3>1. p \in rows \ S /\ p # last /\ p \in Posts
      BY <1>2, <1>3, <2>1 DEF Reading, Handled
    <3>2. After(Key(p), Key(last))
      BY <1>1, <2>1, <3>1 DEF First
    <3>3. place[last][1] = place[p][1] => place[last][2] = 0 /\ place[p][2] = 0
      BY <1>2, <2>2, <3>1 DEF Reading, Clear
    <3> QED BY <1>2, <2>2, <2>4, <3>1, <3>2, <3>3, CursorMoves
  <2>8. page' \cap returned \cap steady = {}
    BY <1>1, <1>2, <1>3 DEF Reading, Handled
  <2> QED
    BY <1>1, <1>2, <1>3, <1>4, <2>3, <2>5, <2>6, <2>7, <2>8 DEF IInv, Reading, Handled
<1> QED BY <1>1, <1>6, <1>7

LEMMA LoadKeeps == IInv /\ Load => IInv'
<1> SUFFICES ASSUME IInv, Load PROVE IInv' OBVIOUS
<1>1. PICK gone \in SUBSET (page \ listed) :
        /\ returned' = returned \cup (page \ gone)
        /\ twice' = twice \cup (returned \cap (page \ gone))
  BY DEF Load
<1>2. /\ page' = {} /\ phase' = (IF cursor.at = "end" THEN "done" ELSE "select")
      /\ UNCHANGED <<listed, place, cursor, steady, clear>>
  BY DEF Load
<1>3. TypeOK'
  BY <1>1, <1>2 DEF IInv, TypeOK
<1>4. \A p : (Remaining(p)' <=> Remaining(p)) /\ (Clear(p)' <=> Clear(p))
  BY <1>2 DEF Remaining, Clear, Key, After
<1>5. \A p \in steady : p \in (Handled)' <=> p \in Handled
  BY <1>1, <1>2 DEF IInv, TypeOK, Handled
<1>6. twice' \cap steady = {}
  BY <1>1 DEF IInv, Reading
<1>7. Reading'
  BY <1>2, <1>4, <1>5, <1>6 DEF IInv, TypeOK, Reading
<1> QED BY <1>3, <1>7 DEF IInv

\* Nothing that happens to one post disturbs what the reader knows of the others.
LEMMA ChangeKeeps ==
  ASSUME IInv, NEW p \in Posts, Changing(p), TypeOK',
         \A q \in Posts \ {p} : place'[q] = place[q]
  PROVE  IInv'
<1>1. /\ steady' = steady \ {p} /\ clear' = {q \in clear \ {p} : Clear(q)'}
      /\ UNCHANGED <<phase, cursor, page, returned, twice>>
  BY DEF Changing
<1>2. \A q \in steady' : q \in Posts \ {p}
  BY <1>1 DEF IInv, TypeOK
<1>3. \A q \in steady' : Remaining(q)' <=> Remaining(q)
  BY <1>1, <1>2 DEF Remaining, Key, After
<1>4. clear' \subseteq steady' /\ clear' \subseteq clear /\ \A q \in clear' : Clear(q)'
  BY <1>1 DEF IInv, TypeOK
<1>5. Handled' = Handled
  BY <1>1 DEF Handled
<1>6. Reading'
  BY <1>1, <1>3, <1>4, <1>5 DEF IInv, Reading
<1> QED BY <1>6 DEF IInv

LEMMA OthersKeep == IInv /\ (\E p \in Posts : Appear(p) \/ Disappear(p) \/ Move(p)) => IInv'
<1> SUFFICES ASSUME IInv, NEW p \in Posts, Appear(p) \/ Disappear(p) \/ Move(p) PROVE IInv'
  OBVIOUS
<1>1. Changing(p)
  BY DEF Appear, Disappear, Move
<1>2. /\ place' \in [Posts -> Place] /\ \A q \in Posts \ {p} : place'[q] = place[q]
      /\ listed' \subseteq Posts /\ listed \ {p} \subseteq listed'
  <2>1. CASE Appear(p)
    BY <2>1 DEF IInv, TypeOK, Appear
  <2>2. CASE Disappear(p)
    BY <2>2 DEF IInv, TypeOK, Disappear
  <2>3. CASE Move(p)
    <3>1. PICK n \in Coarse : place' = [place EXCEPT ![p] = <<n, @[2]>>]
      BY <2>3 DEF Move
    <3>2. <<n, place[p][2]>> \in Place
      BY <3>1 DEF IInv, TypeOK, Place
    <3> QED BY <2>3, <3>1, <3>2 DEF IInv, TypeOK, Move
  <2> QED BY <2>1, <2>2, <2>3
<1>3. TypeOK'
  BY <1>1, <1>2 DEF IInv, TypeOK, Changing
<1> QED BY <1>1, <1>2, <1>3, ChangeKeeps

\* The reader's invariant holds for every set of posts, every clock and page size.
THEOREM ReadingInvariant == Spec => []IInv
<1>1. Init => IInv
  BY InitReading
<1>2. IInv /\ [Next]_vars => IInv'
  <2> SUFFICES ASSUME IInv, [Next]_vars PROVE IInv' OBVIOUS
  <2>1. CASE UNCHANGED vars
    BY <2>1 DEF vars, IInv, TypeOK, Reading, Handled, Remaining, Clear, Key, After
  <2>2. CASE Next
    BY <2>2, BeginKeeps, SelectKeeps, LoadKeeps, OthersKeep DEF Next
  <2> QED BY <2>1, <2>2
<1> QED BY <1>1, <1>2, PTL DEF Spec

\* A post that stays in its place is read once at most, and exactly once by the end
\* unless a millisecond hides it: getFeed, however the feed changes meanwhile.
THEOREM SteadyPostsReadOnce == Spec => []SteadyPostsOnce
<1>1. IInv => SteadyPostsOnce
  BY DEF IInv, TypeOK, Reading, Handled, Remaining, SteadyPostsOnce
<1> QED BY <1>1, ReadingInvariant, PTL

\* The reader's state keeps its type.
THEOREM FeedPagesType == Spec => []TypeOK
<1>1. IInv => TypeOK
  BY DEF IInv
<1> QED BY <1>1, ReadingInvariant, PTL

-----------------------------------------------------------------------------
(* The posts of the feed *)

\* Edits and pins of a post do not overlap its deletion.
DeletionsApart == {{"update", "delete"}, {"pin", "delete"}} \subseteq Alone

Rewrites == {"update", "pin"}
RowOps == {"react", "vote", "comment", "reply", "seen"}

Inserting == <<"insert", "praised", "options">>
Replacing == <<"save", "unpraise", "praised">>

\* What the handler of an operation may have left to write.
FeedPlans(op) ==
  CASE op = "create" -> {Inserting, <<"praised", "options">>, <<"options">>}
    [] op = "update" -> {<<"save">>, Replacing, <<"unpraise", "praised">>, <<"praised">>}
    [] op = "pin" -> {<<"save">>}
    [] op = "delete" -> {<<"delete">>}
    [] op \in RowOps -> {<<"row">>}
    [] OTHER -> {<<>>}

AnyFeedPlan == UNION {FeedPlans(op) : op \in Posted!Ops \cup {"none"}}

CommentRows ==
  [written : SUBSET Posted!Keys, reactions : [Posted!Keys \X People -> Values \cup {"none"}]]

FeedCall ==
  [op : Posted!Ops \cup {"none"}, id : Stories \cup {Posted!Idle.id}, who : People \cup {"none"},
   post : Posted!Post, key : Posted!Keys \cup (Posted!Keys \X People) \cup {<<>>},
   value : Values \cup Options \cup {"none"}, todo : AnyFeedPlan]

FeedTables ==
  /\ posts \in [Stories -> Posted!Post]
  /\ reactions \in [Posted!Keys -> Values \cup {"none"}]
  /\ votes \in [Posted!Keys -> Options \cup {"none"}]
  /\ views \in SUBSET Posted!Keys /\ comments \in CommentRows

\* A handler that is about to save a post holds one that exists; an edit, one that
\* has what its type requires.
FeedCallFits(k) ==
  /\ k \in FeedCall /\ k.todo \in FeedPlans(k.op)
  /\ k.op # "none" => k.id \in Stories
  /\ k.op \in Rewrites \cup {"create"} => k.post.exists
  /\ k.op = "update" => Posted!ValidEdit(k.post)
  /\ k.op \in Rewrites => posts[k.id].exists
  /\ k.todo = Inserting => ~posts[k.id].exists
  /\ k.op \in RowOps \ {"reply"} => k.key \in Posted!Keys /\ k.key[1] = k.id
  /\ k.op = "reply" => k.key \in Posted!Keys \X People /\ k.key[1][1] = k.id
  /\ k.op \in {"react", "reply"} => k.value \in Values \cup {"none"}
  /\ k.op = "vote" => k.value \in Options \cup {"none"}

HandlersApart ==
  \A c, d \in Callers :
    /\ feedCall[c].op = "delete" => feedCall[d].op \notin Rewrites
    /\ c # d /\ feedCall[c].todo = Inserting /\ feedCall[d].todo = Inserting
         => feedCall[c].id # feedCall[d].id

FeedInv ==
  /\ FeedTables /\ Posted!NoOrphans /\ HandlersApart /\ DOMAIN feedCall = Callers
  /\ \A c \in Callers : FeedCallFits(feedCall[c])

LEMMA PlansOf ==
  /\ FeedPlans("create") = {Inserting, <<"praised", "options">>, <<"options">>}
  /\ FeedPlans("update") = {<<"save">>, Replacing, <<"unpraise", "praised">>, <<"praised">>}
  /\ FeedPlans("pin") = {<<"save">>} /\ FeedPlans("delete") = {<<"delete">>}
  /\ \A op \in RowOps : FeedPlans(op) = {<<"row">>}
  /\ FeedPlans("none") = {<<>>}
  BY DEF FeedPlans, RowOps

LEMMA PlansAreAny ==
  ASSUME NEW op \in Posted!Ops \cup {"none"}, NEW todo \in FeedPlans(op)
  PROVE  todo \in AnyFeedPlan
  BY DEF AnyFeedPlan

LEMMA NoPostIs == Posted!NoPost \in Posted!Post /\ ~Posted!NoPost.exists
  BY DEF Posted!NoPost, Posted!Post, Posted!Markup

LEMMA FeedIdle ==
  /\ Posted!Idle \in FeedCall /\ Posted!Idle.op = "none" /\ Posted!Idle.todo = <<>>
  /\ FeedCallFits(Posted!Idle) /\ FeedCallFits(Posted!Idle)'
<1>1. PICK p, r : p = (CHOOSE q \in Stories : TRUE) /\ r = Posted!Idle
  OBVIOUS
<1>2. r = [op |-> "none", id |-> p, who |-> "none", post |-> Posted!NoPost,
           key |-> <<>>, value |-> "none", todo |-> <<>>]
  BY <1>1 DEF Posted!Idle, Posted!NoRow
<1>3. r.op = "none" /\ r.todo = <<>>
  BY <1>2
<1>4. r.todo \in FeedPlans(r.op) /\ <<>> \in AnyFeedPlan
  BY <1>3, PlansOf, PlansAreAny
<1>5. r \in FeedCall
  BY <1>1, <1>2, <1>4, NoPostIs DEF FeedCall
<1>6. r.todo # Inserting /\ r.op \notin Rewrites \cup {"create"} \cup RowOps
  BY <1>3 DEF Inserting, Rewrites, RowOps
<1>7. FeedCallFits(r) /\ FeedCallFits(r)'
  BY <1>3, <1>4, <1>5, <1>6 DEF FeedCallFits, Rewrites, RowOps
<1> QED BY <1>1, <1>3, <1>5, <1>7

LEMMA FeedFacts ==
  ASSUME FeedInv
  PROVE  /\ FeedTables
         /\ \A c \in Callers : FeedCallFits(feedCall[c]) /\ feedCall[c] \in FeedCall
         /\ \A p \in Stories : posts[p] \in Posted!Post
  BY DEF FeedInv, FeedTables, FeedCallFits

\* A handler that begins: nothing is written yet.
LEMMA FeedStarts ==
  ASSUME FeedInv, NEW c \in Callers, NEW k, FeedCallFits(k),
         feedCall' = [feedCall EXCEPT ![c] = k], UNCHANGED <<posts, reactions, votes, views, comments>>,
         k.op = "delete" => \A d \in Callers : feedCall[d].op \notin Rewrites,
         k.op \in Rewrites => \A d \in Callers : feedCall[d].op # "delete",
         k.todo = Inserting =>
           \A d \in Callers : feedCall[d].todo = Inserting => feedCall[d].id # k.id
  PROVE  FeedInv'
<1>1. \A d \in Callers : feedCall'[d] = IF d = c THEN k ELSE feedCall[d]
  BY DEF FeedInv
<1>2. FeedTables'
  BY DEF FeedInv, FeedTables
<1>3. Posted!NoOrphans'
  BY DEF FeedInv, Posted!NoOrphans
<1>4. HandlersApart'
  <2> SUFFICES ASSUME NEW b \in Callers, NEW d \in Callers
               PROVE  /\ feedCall'[b].op = "delete" => feedCall'[d].op \notin Rewrites
                      /\ b # d /\ feedCall'[b].todo = Inserting /\ feedCall'[d].todo = Inserting
                           => feedCall'[b].id # feedCall'[d].id
    BY DEF HandlersApart
  <2>1. CASE b = c /\ d = c
    BY <1>1, <2>1 DEF Rewrites
  <2>2. CASE b = c /\ d # c
    BY <1>1, <2>2
  <2>3. CASE b # c /\ d = c
    BY <1>1, <2>3
  <2>4. CASE b # c /\ d # c
    BY <1>1, <2>4 DEF FeedInv, HandlersApart
  <2> QED BY <2>1, <2>2, <2>3, <2>4
<1>5. FeedCallFits(k)'
  BY DEF FeedCallFits
<1>6. ASSUME NEW d \in Callers PROVE FeedCallFits(feedCall[d])'
  <2>1. CASE d = c
    BY <1>1, <1>5, <2>1 DEF FeedCallFits
  <2>2. CASE d # c
    BY <1>1, <2>2 DEF FeedInv, FeedCallFits
  <2> QED BY <2>1, <2>2
<1>7. DOMAIN feedCall' = Callers
  BY DEF FeedInv
<1> QED BY <1>2, <1>3, <1>4, <1>6, <1>7 DEF FeedInv

\* The state StartSaving gives a handler.
SavingCall(k, op, p, u, post, todo) ==
  k = [Posted!Idle EXCEPT !.op = op, !.id = p, !.who = u, !.post = post, !.todo = todo]

LEMMA SavingState ==
  ASSUME NEW op \in {"create", "update", "pin"}, NEW p \in Stories, NEW u \in People,
         NEW post \in Posted!Post, NEW todo \in FeedPlans(op), NEW k,
         SavingCall(k, op, p, u, post, todo), post.exists, op = "update" => Posted!ValidEdit(post),
         op \in Rewrites => posts[p].exists, todo = Inserting => ~posts[p].exists
  PROVE  FeedCallFits(k) /\ k.op = op /\ k.id = p /\ k.todo = todo
<1>1. op \in Posted!Ops /\ op \notin RowOps
  BY DEF Posted!Ops, RowOps
<1>2. todo \in AnyFeedPlan
  BY <1>1, PlansAreAny
<1>3. k \in FeedCall /\ k.op = op /\ k.id = p /\ k.todo = todo /\ k.post = post
  BY <1>1, <1>2, FeedIdle DEF FeedCall, SavingCall
<1> QED BY <1>1, <1>3 DEF FeedCallFits, RowOps, Rewrites

LEMMA CreateFits ==
  ASSUME FeedInv, NEW c \in Callers, NEW p \in Stories, NEW u \in People, Posted!CreatePost(c, p, u)
  PROVE  FeedInv'
<1>1. PICK type \in StoryTypes, d \in Drafts :
         Posted!StartSaving(c, "create", p, u,
            [Posted!NewPost(type, u, d) EXCEPT !.praised = type = "praise",
                      !.options = IF type = "poll" THEN d.options ELSE {}],
            <<"insert", "praised", "options">>)
  BY DEF Posted!CreatePost
<1>2. PICK new, post :
        /\ new = Posted!NewPost(type, u, d)
        /\ post = [new EXCEPT !.praised = type = "praise",
                              !.options = IF type = "poll" THEN d.options ELSE {}]
  OBVIOUS
<1>0. PICK k : SavingCall(k, "create", p, u, post, Inserting)
  BY DEF SavingCall
<1>3. feedCall' = [feedCall EXCEPT ![c] = k]
  BY <1>0, <1>1, <1>2 DEF Posted!StartSaving, Inserting, SavingCall
<1>4. d \in Posted!Draft /\ d.options \subseteq Options
  BY CommunityAssumption
<1>5. Posted!Sanitized(d.html) \in Posted!Markup
  BY <1>4 DEF Posted!Sanitized, Posted!Draft, Posted!Markup
<1>6. new \in Posted!Post /\ new.exists
  <2>1. (type = "praise" /\ d.badge) \in BOOLEAN /\ d.title \in BOOLEAN
        /\ (d.body \/ Posted!PlainText(Posted!Sanitized(d.html))) \in BOOLEAN
    BY <1>4 DEF Posted!Draft, Posted!PlainText
  <2>2. new = [Posted!NoPost EXCEPT !.exists = TRUE, !.type = type, !.author = u, !.title = d.title,
                 !.html = Posted!Sanitized(d.html),
                 !.body = d.body \/ Posted!PlainText(Posted!Sanitized(d.html)),
                 !.badge = type = "praise" /\ d.badge]
    BY <1>2 DEF Posted!NewPost
  <2> QED BY <1>5, <2>1, <2>2, NoPostIs DEF Posted!Post
<1>7. post \in Posted!Post /\ post.exists
  <2>1. PICK praised \in BOOLEAN, options \in SUBSET Options :
          /\ praised = (type = "praise") /\ options = IF type = "poll" THEN d.options ELSE {}
    BY <1>4
  <2>2. post = [new EXCEPT !.praised = praised, !.options = options]
    BY <1>2, <2>1
  <2> QED BY <1>6, <2>2 DEF Posted!Post
<1>8. /\ ~posts[p].exists /\ UNCHANGED <<posts, reactions, votes, views, comments>>
      /\ \A e \in Callers : feedCall[e].id # p \/ Posted!Free(e)
  BY DEF Posted!CreatePost, Posted!rows
<1>9. FeedCallFits(k) /\ k.op = "create" /\ k.id = p /\ k.todo = Inserting
  <2>1. "create" \notin Rewrites /\ Inserting \in FeedPlans("create")
    BY PlansOf DEF Rewrites
  <2> QED BY <1>0, <1>7, <1>8, <2>1, SavingState
<1>10. \A e \in Callers : feedCall[e].todo = Inserting => feedCall[e].id # p
  BY <1>8, FeedFacts, PlansOf DEF FeedCallFits, Posted!Free, Inserting
<1> QED BY <1>3, <1>8, <1>9, <1>10, FeedStarts DEF Rewrites

LEMMA MergedFits ==
  ASSUME NEW row \in Posted!Post, NEW e \in Edits, NEW m, m = Posted!Merged(row, e)
  PROVE  m \in Posted!Post /\ m.exists = row.exists
<1>1. e \in Posted!Edit
  BY CommunityAssumption
<1>2. PICK title, html, body, badge :
        /\ title = IF e.title = "omitted" THEN row.title ELSE e.title = "some"
        /\ html = IF e.html = "omitted" THEN row.html ELSE Posted!Sanitized(e.html)
        /\ body = IF e.html # "omitted"
                  THEN e.body = "some" \/ Posted!PlainText(Posted!Sanitized(e.html))
                  ELSE IF e.body # "omitted" THEN e.body = "some" ELSE row.body
        /\ badge = IF row.type = "praise" /\ e.badge # "omitted" THEN e.badge = "some" ELSE row.badge
  OBVIOUS
<1>3. m = [row EXCEPT !.title = title, !.html = html, !.body = body, !.badge = badge]
  BY <1>2 DEF Posted!Merged
<1>4. html \in Posted!Markup
  BY <1>1, <1>2 DEF Posted!Edit, Posted!Markup, Posted!Sanitized, Posted!Post
<1>5. title \in BOOLEAN /\ body \in BOOLEAN /\ badge \in BOOLEAN
  <2>1. row.title \in BOOLEAN /\ row.body \in BOOLEAN /\ row.badge \in BOOLEAN
    BY DEF Posted!Post
  <2> QED BY <1>2, <2>1 DEF Posted!PlainText
<1> QED BY <1>3, <1>4, <1>5 DEF Posted!Post

LEMMA StartedApart ==
  ASSUME FeedInv, DeletionsApart, NEW c \in Callers, NEW op \in Rewrites \cup {"delete"},
         Posted!MayStart(c, op)
  PROVE  /\ op = "delete" => \A d \in Callers : feedCall[d].op \notin Rewrites
         /\ op \in Rewrites => \A d \in Callers : feedCall[d].op # "delete"
<1>1. \A d \in Callers : feedCall[d].op # "none" => {op, feedCall[d].op} \notin Alone
  BY DEF Posted!MayStart, Posted!Free
<1>2. \A r \in Rewrites : r # "none" /\ {r, "delete"} \in Alone /\ {"delete", r} \in Alone
  <2>1. \A r \in Rewrites : {r, "delete"} = {"delete", r}
    OBVIOUS
  <2> QED BY <2>1 DEF Rewrites, DeletionsApart
<1> QED BY <1>1, <1>2

LEMMA EditFits ==
  ASSUME FeedInv, DeletionsApart, NEW c \in Callers, NEW p \in Stories, NEW u \in People,
         Posted!UpdatePost(c, p, u)
  PROVE  FeedInv'
<1>1. PICK e \in Edits :
        /\ Posted!MayStore(posts[p], e)
        /\ \/ Posted!StartSaving(c, "update", p, u, Posted!Merged(posts[p], e), <<"save">>)
           \/ Posted!StartSaving(c, "update", p, u, [Posted!Merged(posts[p], e) EXCEPT !.praised = TRUE],
                            <<"save", "unpraise", "praised">>)
  BY DEF Posted!UpdatePost
<1>2. /\ posts[p].exists /\ UNCHANGED <<posts, reactions, votes, views, comments>>
      /\ \A d \in Callers : feedCall[d].op # "delete"
  BY StartedApart DEF Posted!UpdatePost, Posted!rows, Rewrites
<1>3. PICK m : m = Posted!Merged(posts[p], e)
  OBVIOUS
<1>4. m \in Posted!Post /\ m.exists /\ Posted!ValidEdit(m)
  BY <1>1, <1>2, <1>3, MergedFits, FeedFacts DEF Posted!MayStore
<1>5. CASE Posted!StartSaving(c, "update", p, u, Posted!Merged(posts[p], e), <<"save">>)
  <2>1. PICK todo, k : /\ todo = <<"save">>
                       /\ SavingCall(k, "update", p, u, m, todo)
    BY DEF SavingCall
  <2>2. feedCall' = [feedCall EXCEPT ![c] = k]
    BY <1>3, <1>5, <2>1 DEF Posted!StartSaving, SavingCall
  <2>3. todo \in FeedPlans("update") /\ todo # Inserting
    BY <2>1, PlansOf DEF Inserting
  <2>4. FeedCallFits(k) /\ k.op = "update" /\ k.todo = todo
    BY <1>2, <1>4, <2>1, <2>3, SavingState
  <2> QED BY <1>2, <2>2, <2>3, <2>4, FeedStarts
<1>6. CASE Posted!StartSaving(c, "update", p, u, [Posted!Merged(posts[p], e) EXCEPT !.praised = TRUE],
                            <<"save", "unpraise", "praised">>)
  <2>0. PICK post : post = [m EXCEPT !.praised = TRUE]
    OBVIOUS
  <2>1. PICK k : SavingCall(k, "update", p, u, post, Replacing)
    BY DEF SavingCall
  <2>2. feedCall' = [feedCall EXCEPT ![c] = k]
    BY <1>3, <1>6, <2>0, <2>1 DEF Posted!StartSaving, Replacing, SavingCall
  <2>3. Replacing \in FeedPlans("update") /\ Replacing # Inserting
    BY PlansOf DEF Inserting, Replacing
  <2>4. post \in Posted!Post /\ post.exists /\ Posted!ValidEdit(post)
    BY <1>4, <2>0 DEF Posted!Post, Posted!ValidEdit, Posted!HasBody
  <2>5. FeedCallFits(k) /\ k.op = "update" /\ k.todo = Replacing
    BY <1>2, <2>1, <2>3, <2>4, SavingState
  <2> QED BY <1>2, <2>2, <2>3, <2>5, FeedStarts
<1> QED BY <1>1, <1>5, <1>6

LEMMA PinFits ==
  ASSUME FeedInv, DeletionsApart, NEW c \in Callers, NEW p \in Stories, NEW u \in People,
         Posted!TogglePin(c, p, u)
  PROVE  FeedInv'
<1>0. PICK post : post = [posts[p] EXCEPT !.pinned = ~posts[p].pinned]
  OBVIOUS
<1>1. PICK todo, k : todo = <<"save">> /\ SavingCall(k, "pin", p, u, post, todo)
  BY DEF SavingCall
<1>2. feedCall' = [feedCall EXCEPT ![c] = k]
  BY <1>0, <1>1 DEF Posted!TogglePin, Posted!StartSaving, SavingCall
<1>3. /\ posts[p].exists /\ UNCHANGED <<posts, reactions, votes, views, comments>>
      /\ \A d \in Callers : feedCall[d].op # "delete"
  BY StartedApart DEF Posted!TogglePin, Posted!rows, Rewrites
<1>4. todo \in FeedPlans("pin") /\ todo # Inserting
  BY <1>1, PlansOf DEF Inserting
<1>5. post \in Posted!Post /\ post.exists
  BY <1>0, <1>3, FeedFacts DEF Posted!Post
<1>6. FeedCallFits(k) /\ k.op = "pin" /\ k.todo = todo
  BY <1>1, <1>3, <1>4, <1>5, SavingState
<1> QED BY <1>2, <1>3, <1>4, <1>6, FeedStarts

LEMMA DeleteFits ==
  ASSUME FeedInv, DeletionsApart, NEW c \in Callers, NEW p \in Stories, NEW u \in People,
         Posted!DeletePost(c, p, u)
  PROVE  FeedInv'
<1>1. PICK todo, k : /\ todo = <<"delete">>
                     /\ k = [Posted!Idle EXCEPT !.op = "delete", !.id = p, !.who = u, !.todo = todo]
  OBVIOUS
<1>2. feedCall' = [feedCall EXCEPT ![c] = k] /\ UNCHANGED <<posts, reactions, votes, views, comments>>
  BY <1>1 DEF Posted!DeletePost, Posted!Start, Posted!rows
<1>3. \A d \in Callers : feedCall[d].op \notin Rewrites
  BY StartedApart DEF Posted!DeletePost, Rewrites
<1>4. todo \in FeedPlans("delete") /\ todo # Inserting /\ todo \in AnyFeedPlan
  BY <1>1, PlansOf, PlansAreAny DEF Inserting, Posted!Ops
<1>5. k \in FeedCall /\ k.op = "delete" /\ k.id = p /\ k.todo = todo
  BY <1>1, <1>4, FeedIdle DEF FeedCall, Posted!Ops
<1>6. FeedCallFits(k)
  BY <1>4, <1>5 DEF FeedCallFits, Rewrites, RowOps
<1> QED BY <1>2, <1>3, <1>4, <1>5, <1>6, FeedStarts DEF Rewrites

\* A reaction, a vote, a comment or a view.
LEMMA ToggleFits ==
  ASSUME FeedInv, NEW c \in Callers, NEW op \in RowOps, NEW p \in Stories, NEW key, NEW value,
         Posted!StartToggle(c, op, p, key, value),
         UNCHANGED <<posts, reactions, votes, views, comments>>,
         op # "reply" => key \in Posted!Keys /\ key[1] = p,
         op = "reply" => key \in Posted!Keys \X People /\ key[1][1] = p,
         value \in Values \cup Options \cup {"none"},
         op \in {"react", "reply"} => value \in Values \cup {"none"},
         op = "vote" => value \in Options \cup {"none"}
  PROVE  FeedInv'
<1>1. PICK todo, k :
        /\ todo = <<"row">>
        /\ k = [Posted!Idle EXCEPT !.op = op, !.id = p, !.key = key, !.value = value, !.todo = todo]
  OBVIOUS
<1>2. feedCall' = [feedCall EXCEPT ![c] = k]
  BY <1>1 DEF Posted!StartToggle
<1>3. op \in Posted!Ops /\ op \notin Rewrites \cup {"create", "delete", "none"}
  BY DEF Posted!Ops, RowOps, Rewrites
<1>4. todo \in FeedPlans(op) /\ todo # Inserting /\ todo \in AnyFeedPlan
  BY <1>1, <1>3, PlansOf, PlansAreAny DEF Inserting
<1>5. key \in Posted!Keys \cup (Posted!Keys \X People) \cup {<<>>}
  OBVIOUS
<1>6. k \in FeedCall /\ k.op = op /\ k.id = p /\ k.key = key /\ k.value = value /\ k.todo = todo
  BY <1>1, <1>3, <1>4, <1>5, FeedIdle DEF FeedCall
<1>7. FeedCallFits(k)
  BY <1>3, <1>4, <1>6 DEF FeedCallFits, Rewrites, RowOps
<1> QED BY <1>2, <1>3, <1>4, <1>6, <1>7, FeedStarts DEF Rewrites

LEMMA TogglesFit ==
  ASSUME FeedInv, NEW c \in Callers, NEW p \in Stories, NEW u \in People,
         \/ Posted!React(c, p, u) \/ Posted!Vote(c, p, u) \/ Posted!AddComment(c, p, u)
         \/ Posted!ReactToComment(c, p, u) \/ Posted!MarkSeen(c, p, u)
  PROVE  FeedInv'
<1> DEFINE key == <<p, u>>
<1>1. key \in Posted!Keys /\ key[1] = p
  BY DEF Posted!Keys
<1>2. \A a, b : Posted!Toggled(a, b) \in {b, "none"}
  BY DEF Posted!Toggled, Posted!NoRow
<1>3. CASE Posted!React(c, p, u)
  <2>1. PICK v \in Values : Posted!StartToggle(c, "react", p, key, Posted!Toggled(reactions[key], v))
    BY <1>1, <1>3 DEF Posted!React
  <2>2. PICK value : value = Posted!Toggled(reactions[key], v)
    OBVIOUS
  <2> QED BY <1>1, <1>2, <1>3, <2>1, <2>2, ToggleFits DEF Posted!React, Posted!rows, RowOps
<1>4. CASE Posted!Vote(c, p, u)
  <2>1. PICK v \in posts[p].options :
          Posted!StartToggle(c, "vote", p, key, Posted!Toggled(votes[key], v))
    BY <1>1, <1>4 DEF Posted!Vote
  <2>2. PICK value : value = Posted!Toggled(votes[key], v)
    OBVIOUS
  <2>3. v \in Options
    BY FeedFacts DEF Posted!Post
  <2> QED BY <1>1, <1>2, <1>4, <2>1, <2>2, <2>3, ToggleFits DEF Posted!Vote, Posted!rows, RowOps
<1>5. CASE Posted!AddComment(c, p, u)
  BY <1>1, <1>5, ToggleFits DEF Posted!AddComment, Posted!rows, RowOps, Posted!NoRow
<1>6. CASE Posted!MarkSeen(c, p, u)
  BY <1>1, <1>6, ToggleFits DEF Posted!MarkSeen, Posted!rows, RowOps, Posted!NoRow
<1>7. CASE Posted!ReactToComment(c, p, u)
  <2>1. PICK a \in People, v \in Values :
          Posted!StartToggle(c, "reply", p, <<<<p, a>>, u>>,
                             Posted!Toggled(comments.reactions[<<<<p, a>>, u>>], v))
    BY <1>7 DEF Posted!ReactToComment
  <2>2. PICK on, value : /\ on = <<<<p, a>>, u>>
                         /\ value = Posted!Toggled(comments.reactions[<<<<p, a>>, u>>], v)
    OBVIOUS
  <2>3. on \in Posted!Keys \X People /\ on[1][1] = p
    BY <2>2 DEF Posted!Keys
  <2> QED BY <1>2, <1>7, <2>1, <2>2, <2>3, ToggleFits DEF Posted!ReactToComment, Posted!rows, RowOps
<1> QED BY <1>3, <1>4, <1>5, <1>6, <1>7

-----------------------------------------------------------------------------
(* The writes of the feed *)

LEMMA PlanSteps ==
  ASSUME NEW op \in Posted!Ops, NEW todo \in FeedPlans(op)
  PROVE  /\ Head(todo) = "insert" => todo = Inserting /\ op = "create"
         /\ todo = Inserting => op = "create"
         /\ Head(todo) = "save" => op \in Rewrites
         /\ Head(todo) = "delete" <=> op = "delete"
         /\ Head(todo) = "row" <=> op \in RowOps
         /\ Tail(todo) # <<>> => Tail(todo) \in FeedPlans(op) /\ Tail(todo) # Inserting
<1>1. CASE op = "create"
  <2>1. todo \in {Inserting, <<"praised", "options">>, <<"options">>}
    BY <1>1, PlansOf
  <2>2. CASE todo = Inserting
    <3>1. Head(todo) = "insert" /\ Tail(todo) = <<"praised", "options">>
      BY <2>2 DEF Inserting
    <3>2. <<"praised", "options">> # Inserting
      BY DEF Inserting
    <3> QED BY <1>1, <2>2, <3>1, <3>2, PlansOf DEF RowOps
  <2>3. CASE todo = <<"praised", "options">>
    <3>1. Head(todo) = "praised" /\ Tail(todo) = <<"options">> /\ todo # Inserting
      BY <2>3 DEF Inserting
    <3>2. <<"options">> # Inserting
      BY DEF Inserting
    <3> QED BY <1>1, <3>1, <3>2, PlansOf DEF RowOps
  <2>4. CASE todo = <<"options">>
    <3>1. Head(todo) = "options" /\ Tail(todo) = <<>> /\ todo # Inserting
      BY <2>4 DEF Inserting
    <3> QED BY <1>1, <3>1 DEF RowOps
  <2> QED BY <2>1, <2>2, <2>3, <2>4
<1>2. CASE op = "update"
  <2>1. todo \in {<<"save">>, Replacing, <<"unpraise", "praised">>, <<"praised">>}
    BY <1>2, PlansOf
  <2>2. CASE todo = <<"save">>
    <3>1. Head(todo) = "save" /\ Tail(todo) = <<>> /\ todo # Inserting
      BY <2>2 DEF Inserting
    <3> QED BY <1>2, <3>1 DEF RowOps, Rewrites
  <2>3. CASE todo = Replacing
    <3>1. Head(todo) = "save" /\ Tail(todo) = <<"unpraise", "praised">> /\ todo # Inserting
      BY <2>3 DEF Inserting, Replacing
    <3>2. <<"unpraise", "praised">> # Inserting
      BY DEF Inserting
    <3> QED BY <1>2, <3>1, <3>2, PlansOf DEF RowOps, Rewrites
  <2>4. CASE todo = <<"unpraise", "praised">>
    <3>1. Head(todo) = "unpraise" /\ Tail(todo) = <<"praised">> /\ todo # Inserting
      BY <2>4 DEF Inserting
    <3>2. <<"praised">> # Inserting
      BY DEF Inserting
    <3> QED BY <1>2, <3>1, <3>2, PlansOf DEF RowOps, Rewrites
  <2>5. CASE todo = <<"praised">>
    <3>1. Head(todo) = "praised" /\ Tail(todo) = <<>> /\ todo # Inserting
      BY <2>5 DEF Inserting
    <3> QED BY <1>2, <3>1 DEF RowOps
  <2> QED BY <2>1, <2>2, <2>3, <2>4, <2>5
<1>3. CASE op = "pin"
  <2>1. todo = <<"save">>
    BY <1>3, PlansOf
  <2>2. Head(todo) = "save" /\ Tail(todo) = <<>> /\ todo # Inserting
    BY <2>1 DEF Inserting
  <2> QED BY <1>3, <2>2 DEF RowOps, Rewrites
<1>4. CASE op = "delete"
  <2>1. todo = <<"delete">>
    BY <1>4, PlansOf
  <2>2. Head(todo) = "delete" /\ Tail(todo) = <<>> /\ todo # Inserting
    BY <2>1 DEF Inserting
  <2> QED BY <1>4, <2>2 DEF RowOps, Rewrites
<1>5. CASE op \in RowOps
  <2>1. todo = <<"row">>
    BY <1>5, PlansOf
  <2>2. Head(todo) = "row" /\ Tail(todo) = <<>> /\ todo # Inserting
    BY <2>1 DEF Inserting
  <2> QED BY <1>5, <2>2 DEF RowOps, Rewrites
<1> QED BY <1>1, <1>2, <1>3, <1>4, <1>5 DEF Posted!Ops, RowOps

\* What a handler in flight is about to do.
LEMMA FeedTurn ==
  ASSUME FeedInv, NEW c \in Callers, ~Posted!Free(c)
  PROVE  /\ feedCall[c].op \in Posted!Ops /\ feedCall[c].todo \in FeedPlans(feedCall[c].op)
         /\ feedCall[c].id \in Stories /\ feedCall[c] \in FeedCall
         /\ FeedCallFits(feedCall[c])
  BY FeedFacts DEF FeedCallFits, FeedCall, Posted!Free

\* The handler that wrote goes on or is done, and the others still fit.
LEMMA FeedWrote ==
  ASSUME FeedInv, NEW c \in Callers, NEW k, FeedCallFits(k)',
         feedCall' = [feedCall EXCEPT ![c] = k],
         k.op \in {feedCall[c].op, "none"}, k.todo # Inserting,
         FeedTables', Posted!NoOrphans',
         \A p \in Stories : posts[p].exists => posts'[p].exists \/ feedCall[c].op = "delete",
         \A p \in Stories : posts'[p].exists =>
           \/ posts[p].exists
           \/ p = feedCall[c].id /\ feedCall[c].todo = Inserting
  PROVE  FeedInv'
<1>1. \A d \in Callers : feedCall'[d] = IF d = c THEN k ELSE feedCall[d]
  BY DEF FeedInv
<1>2. HandlersApart'
  <2> SUFFICES ASSUME NEW b \in Callers, NEW d \in Callers
               PROVE  /\ feedCall'[b].op = "delete" => feedCall'[d].op \notin Rewrites
                      /\ b # d /\ feedCall'[b].todo = Inserting /\ feedCall'[d].todo = Inserting
                           => feedCall'[b].id # feedCall'[d].id
    BY DEF HandlersApart
  <2>1. feedCall'[b].op \in {feedCall[b].op, "none"} /\ feedCall'[d].op \in {feedCall[d].op, "none"}
    BY <1>1
  <2>2. feedCall[b].op = "delete" => feedCall[d].op \notin Rewrites
    BY DEF FeedInv, HandlersApart
  <2>3. feedCall'[b].op = "delete" => feedCall'[d].op \notin Rewrites
    BY <2>1, <2>2 DEF Rewrites
  <2>4. feedCall'[b].todo = Inserting /\ feedCall'[d].todo = Inserting => b # c /\ d # c
    BY <1>1
  <2>5. b # d /\ feedCall'[b].todo = Inserting /\ feedCall'[d].todo = Inserting
          => feedCall'[b].id # feedCall'[d].id
    BY <1>1, <2>4 DEF FeedInv, HandlersApart
  <2> QED BY <2>3, <2>5
<1>3. ASSUME NEW d \in Callers PROVE FeedCallFits(feedCall[d])'
  <2>1. CASE d = c
    BY <1>1, <2>1 DEF FeedCallFits
  <2>2. CASE d # c
    <3>1. feedCall'[d] = feedCall[d] /\ FeedCallFits(feedCall[d])
      BY <1>1, <2>2 DEF FeedInv
    <3>2. feedCall[d].op \in Rewrites => posts'[feedCall[d].id].exists
      <4>1. feedCall[d].op \in Rewrites =>
              feedCall[d].id \in Stories /\ posts[feedCall[d].id].exists
        BY <3>1 DEF FeedCallFits, Rewrites
      <4>2. feedCall[d].op \in Rewrites => feedCall[c].op # "delete"
        BY DEF FeedInv, HandlersApart
      <4> QED BY <4>1, <4>2
    <3>3. feedCall[d].todo = Inserting => ~posts'[feedCall[d].id].exists
      <4>1. SUFFICES ASSUME feedCall[d].todo = Inserting
                     PROVE  ~posts'[feedCall[d].id].exists
        OBVIOUS
      <4>2. feedCall[d].op # "none" /\ feedCall[d].id \in Stories /\ ~posts[feedCall[d].id].exists
        <5>1. Inserting \notin FeedPlans("none")
          BY PlansOf DEF Inserting
        <5> QED BY <3>1, <4>1, <5>1 DEF FeedCallFits
      <4>3. feedCall[c].todo = Inserting => feedCall[d].id # feedCall[c].id
        BY <2>2, <4>1 DEF FeedInv, HandlersApart
      <4> QED BY <4>2, <4>3
    <3>4. feedCall[d] \in FeedCall
      BY <3>1 DEF FeedCallFits
    <3> QED BY <3>1, <3>2, <3>3 DEF FeedCallFits
  <2> QED BY <2>1, <2>2
<1>4. DOMAIN feedCall' = Callers
  BY DEF FeedInv
<1> QED BY <1>2, <1>3, <1>4 DEF FeedInv

\* Storing or deleting a row of the post of a handler.
LEMMA PostStored ==
  ASSUME FeedInv, NEW p \in Stories, NEW row \in Posted!Post, posts' = [posts EXCEPT ![p] = row]
  PROVE  /\ posts' \in [Stories -> Posted!Post]
         /\ \A q \in Stories : posts'[q] = IF q = p THEN row ELSE posts[q]
  BY FeedFacts DEF FeedTables

LEMMA PostWritten ==
  ASSUME FeedInv, NEW c \in Callers, ~Posted!Free(c), Posted!WritePost(c)
  PROVE  \E row \in Posted!Post :
           /\ posts' = [posts EXCEPT ![feedCall[c].id] = row]
           /\ row.exists => posts[feedCall[c].id].exists \/ feedCall[c].todo = Inserting
           /\ posts[feedCall[c].id].exists => row.exists
           /\ /\ posts[feedCall[c].id].exists /\ Posted!ValidEdit(posts[feedCall[c].id])
              /\ feedCall[c].op = "pin" => Posted!ValidEdit(feedCall[c].post)
              => Posted!ValidEdit(row)
<1>1. PICK x, p, old, post, todo, do :
        /\ x = feedCall[c] /\ p = x.id /\ old = posts[p] /\ post = x.post /\ todo = x.todo
        /\ do = Head(todo)
  OBVIOUS
<1>2. /\ x \in FeedCall /\ FeedCallFits(x) /\ x.op \in Posted!Ops /\ todo \in FeedPlans(x.op)
      /\ p \in Stories
  BY <1>1, FeedTurn
<1>3. old \in Posted!Post /\ post \in Posted!Post /\ DOMAIN posts = Stories
  BY <1>1, <1>2, FeedFacts DEF FeedCall, FeedTables
<1>4. posts' = CASE do = "insert" ->
                     Posted!Store(p, [post EXCEPT !.praised = FALSE, !.options = {}])
                 [] do = "save" ->
                     Posted!Store(p, [post EXCEPT !.praised = old.praised, !.options = old.options])
                 [] old.exists /\ do = "unpraise" -> [posts EXCEPT ![p].praised = FALSE]
                 [] old.exists /\ do = "praised" -> [posts EXCEPT ![p].praised = post.praised]
                 [] old.exists /\ do = "options" -> [posts EXCEPT ![p].options = post.options]
                 [] OTHER -> posts
  BY <1>1 DEF Posted!WritePost
<1>5. SUFFICES \E row \in Posted!Post :
           /\ posts' = [posts EXCEPT ![p] = row]
           /\ row.exists => old.exists \/ todo = Inserting
           /\ old.exists => row.exists
           /\ /\ old.exists /\ Posted!ValidEdit(old)
              /\ x.op = "pin" => Posted!ValidEdit(post)
              => Posted!ValidEdit(row)
  BY <1>1
<1>6. CASE do = "insert"
  <2>1. PICK row : row = [post EXCEPT !.praised = FALSE, !.options = {}]
    OBVIOUS
  <2>2. row \in Posted!Post /\ row.exists = post.exists
    BY <1>3, <2>1 DEF Posted!Post
  <2>3. posts' = [posts EXCEPT ![p] = row]
    BY <1>4, <1>6, <2>1 DEF Posted!Store
  <2>4. todo = Inserting
    BY <1>1, <1>2, <1>6, PlanSteps
  <2>5. post.exists /\ ~old.exists
    <3>1. x.op = "create"
      BY <1>1, <1>2, <1>6, PlanSteps
    <3> QED BY <1>1, <1>2, <2>4, <3>1 DEF FeedCallFits
  <2> QED BY <2>2, <2>3, <2>4, <2>5
<1>7. CASE do = "save"
  <2>1. PICK row : row = [post EXCEPT !.praised = old.praised, !.options = old.options]
    OBVIOUS
  <2>2. /\ row \in Posted!Post /\ row.exists = post.exists
        /\ Posted!ValidEdit(post) => Posted!ValidEdit(row)
    <3>1. old.praised \in BOOLEAN /\ old.options \in SUBSET Options
      BY <1>3 DEF Posted!Post
    <3> QED BY <1>3, <2>1, <3>1 DEF Posted!Post, Posted!ValidEdit, Posted!HasBody
  <2>3. posts' = [posts EXCEPT ![p] = row]
    <3>1. do # "insert"
      BY <1>7
    <3> QED BY <1>4, <1>7, <2>1, <3>1 DEF Posted!Store
  <2>4. x.op \in Rewrites
    BY <1>1, <1>2, <1>7, PlanSteps
  <2>5. post.exists /\ old.exists /\ (x.op = "pin" \/ Posted!ValidEdit(post))
    BY <1>1, <1>2, <2>4 DEF FeedCallFits, Rewrites
  <2> QED BY <2>2, <2>3, <2>5
<1>8. CASE old.exists /\ do \in {"unpraise", "praised", "options"}
  <2>1. PICK row : row = CASE do = "unpraise" -> [old EXCEPT !.praised = FALSE]
                           [] do = "praised" -> [old EXCEPT !.praised = post.praised]
                           [] do = "options" -> [old EXCEPT !.options = post.options]
    OBVIOUS
  <2>2. /\ row \in Posted!Post /\ row.exists = old.exists
        /\ Posted!ValidEdit(old) => Posted!ValidEdit(row)
    <3>1. post.praised \in BOOLEAN /\ post.options \in SUBSET Options
      BY <1>3 DEF Posted!Post
    <3>2. CASE do = "unpraise"
      <4>1. row = [old EXCEPT !.praised = FALSE]
        BY <2>1, <3>2
      <4> QED BY <1>3, <4>1 DEF Posted!Post, Posted!ValidEdit, Posted!HasBody
    <3>3. CASE do = "praised"
      <4>1. row = [old EXCEPT !.praised = post.praised]
        BY <2>1, <3>3
      <4> QED BY <1>3, <3>1, <4>1 DEF Posted!Post, Posted!ValidEdit, Posted!HasBody
    <3>4. CASE do = "options"
      <4>1. row = [old EXCEPT !.options = post.options]
        BY <2>1, <3>4
      <4> QED BY <1>3, <3>1, <4>1 DEF Posted!Post, Posted!ValidEdit, Posted!HasBody
    <3> QED BY <1>8, <3>2, <3>3, <3>4
  <2>3. posts' = [posts EXCEPT ![p] = row]
    <3>1. CASE do = "unpraise"
      <4>1. row = [old EXCEPT !.praised = FALSE]
        BY <2>1, <3>1
      <4>2. posts' = [posts EXCEPT ![p].praised = FALSE]
        BY <1>4, <1>8, <3>1
      <4> QED BY <1>1, <4>1, <4>2
    <3>2. CASE do = "praised"
      <4>1. row = [old EXCEPT !.praised = post.praised]
        BY <2>1, <3>2
      <4>2. posts' = [posts EXCEPT ![p].praised = post.praised]
        BY <1>4, <1>8, <3>2
      <4> QED BY <1>1, <4>1, <4>2
    <3>3. CASE do = "options"
      <4>1. row = [old EXCEPT !.options = post.options]
        BY <2>1, <3>3
      <4>2. posts' = [posts EXCEPT ![p].options = post.options]
        BY <1>4, <1>8, <3>3
      <4> QED BY <1>1, <4>1, <4>2
    <3> QED BY <1>8, <3>1, <3>2, <3>3
  <2> QED BY <2>2, <2>3
<1>9. CASE /\ do \notin {"insert", "save"}
           /\ ~(old.exists /\ do \in {"unpraise", "praised", "options"})
  <2>0. /\ do # "insert" /\ do # "save"
        /\ ~(old.exists /\ do = "unpraise") /\ ~(old.exists /\ do = "praised")
        /\ ~(old.exists /\ do = "options")
    BY <1>9
  <2>1. posts' = posts
    BY ONLY <1>4, <2>0
  <2>2. posts' = [posts EXCEPT ![p] = old]
    <3>1. posts = [q \in Stories |-> posts[q]]
      BY FeedFacts DEF FeedTables
    <3>2. posts = [posts EXCEPT ![p] = old]
      BY <1>1, <1>2, <3>1
    <3> QED BY <2>1, <3>2
  <2> QED BY <1>3, <2>2
<1> QED BY <1>6, <1>7, <1>8, <1>9

LEMMA RowsOf ==
  ASSUME FeedInv
  PROVE  /\ reactions \in [Posted!Keys -> Values \cup {"none"}]
         /\ votes \in [Posted!Keys -> Options \cup {"none"}]
         /\ views \in SUBSET Posted!Keys /\ comments \in CommentRows
         /\ comments.written \in SUBSET Posted!Keys
         /\ comments.reactions \in [Posted!Keys \X People -> Values \cup {"none"}]
         /\ \A k \in Posted!Keys : k[1] \in Stories /\ k = <<k[1], k[2]>>
         /\ \A k \in Posted!Keys \X People : k[1] \in Posted!Keys /\ k[2] \in People /\ k = <<k[1], k[2]>>
  BY FeedFacts DEF FeedTables, CommentRows, Posted!Keys

LEMMA RowsHang ==
  ASSUME FeedInv, NEW k \in Posted!Keys
  PROVE  /\ reactions[k] # "none" => posts[k[1]].exists
         /\ votes[k] # "none" => posts[k[1]].exists
         /\ k \in comments.written => posts[k[1]].exists
         /\ k \in views => posts[k[1]].exists
         /\ \A u \in People : comments.reactions[<<k, u>>] # "none" => k \in comments.written
  BY DEF FeedInv, Posted!NoOrphans, Posted!NoRow

\* Storing or clearing a row leaves every row on a post.
LEMMA RowWritten ==
  ASSUME FeedInv, NEW c \in Callers, ~Posted!Free(c), feedCall[c].op \in RowOps, Posted!WriteRow(c)
  PROVE  FeedTables' /\ Posted!NoOrphans' /\ posts' = posts
<1>1. PICK x, k, value : x = feedCall[c] /\ k = x.key /\ value = x.value
  OBVIOUS
<1>2. /\ FeedCallFits(x) /\ x.op \in RowOps /\ x.id \in Stories /\ x.op \in RowOps
  BY <1>1, FeedTurn
<1>3. posts' = posts
  BY DEF Posted!WriteRow, Posted!Touch
<1>4. SUFFICES ASSUME \/ UNCHANGED <<reactions, votes, views, comments>>
                      \/ /\ \/ x.op \in {"react", "vote", "reply"} /\ value = "none"
                            \/ posts[x.id].exists /\ (x.op = "reply" => k[1] \in comments.written)
                         /\ reactions' = IF x.op = "react" THEN [reactions EXCEPT ![k] = value] ELSE reactions
                         /\ votes' = IF x.op = "vote" THEN [votes EXCEPT ![k] = value] ELSE votes
                         /\ views' = IF x.op = "seen" THEN views \cup {k} ELSE views
                         /\ comments' = CASE x.op = "comment" ->
                                               [comments EXCEPT !.written = comments.written \cup {k}]
                                          [] x.op = "reply" -> [comments EXCEPT !.reactions[k] = value]
                                          [] OTHER -> comments
               PROVE  FeedTables' /\ Posted!NoOrphans'
  BY <1>1, <1>3 DEF Posted!WriteRow, Posted!Clears, Posted!ParentExists, Posted!NoRow
<1>5. CASE UNCHANGED <<reactions, votes, views, comments>>
  BY <1>3, <1>5 DEF FeedInv, FeedTables, Posted!NoOrphans
<1>6. CASE x.op = "react"
  <2>1. k \in Posted!Keys /\ k[1] = x.id /\ value \in Values \cup {"none"}
    BY <1>1, <1>2, <1>6 DEF FeedCallFits, RowOps
  <2>2. CASE ~(UNCHANGED <<reactions, votes, views, comments>>)
    <3>1. /\ reactions' = [reactions EXCEPT ![k] = value]
          /\ UNCHANGED <<votes, views, comments>> /\ (value = "none" \/ posts[x.id].exists)
      BY <1>4, <1>6, <2>2
    <3>2. FeedTables'
      BY <1>3, <2>1, <3>1, FeedFacts DEF FeedTables
    <3>3. \A q \in Posted!Keys : reactions'[q] = IF q = k THEN value ELSE reactions[q]
      BY <2>1, <3>1, RowsOf
    <3> QED BY <1>3, <2>1, <3>1, <3>2, <3>3, RowsHang DEF Posted!NoOrphans, Posted!NoRow
  <2> QED BY <1>5, <2>2
<1>7. CASE x.op = "vote"
  <2>1. k \in Posted!Keys /\ k[1] = x.id /\ value \in Options \cup {"none"}
    BY <1>1, <1>2, <1>7 DEF FeedCallFits, RowOps
  <2>2. CASE ~(UNCHANGED <<reactions, votes, views, comments>>)
    <3>1. /\ votes' = [votes EXCEPT ![k] = value]
          /\ UNCHANGED <<reactions, views, comments>> /\ (value = "none" \/ posts[x.id].exists)
      BY <1>4, <1>7, <2>2
    <3>2. FeedTables'
      BY <1>3, <2>1, <3>1, FeedFacts DEF FeedTables
    <3>3. \A q \in Posted!Keys : votes'[q] = IF q = k THEN value ELSE votes[q]
      BY <2>1, <3>1, RowsOf
    <3> QED BY <1>3, <2>1, <3>1, <3>2, <3>3, RowsHang DEF Posted!NoOrphans, Posted!NoRow
  <2> QED BY <1>5, <2>2
<1>8. CASE x.op = "seen"
  <2>1. k \in Posted!Keys /\ k[1] = x.id
    BY <1>1, <1>2, <1>8 DEF FeedCallFits, RowOps
  <2>2. CASE ~(UNCHANGED <<reactions, votes, views, comments>>)
    <3>1. /\ views' = views \cup {k}
          /\ UNCHANGED <<reactions, votes, comments>> /\ posts[x.id].exists
      BY <1>4, <1>8, <2>2
    <3>2. FeedTables'
      BY <1>3, <2>1, <3>1, FeedFacts DEF FeedTables
    <3> QED BY <1>3, <2>1, <3>1, <3>2, RowsHang DEF Posted!NoOrphans, Posted!NoRow
  <2> QED BY <1>5, <2>2
<1>9. CASE x.op = "comment"
  <2>1. k \in Posted!Keys /\ k[1] = x.id
    BY <1>1, <1>2, <1>9 DEF FeedCallFits, RowOps
  <2>2. CASE ~(UNCHANGED <<reactions, votes, views, comments>>)
    <3>1. PICK com : com = [comments EXCEPT !.written = comments.written \cup {k}]
      OBVIOUS
    <3>2. /\ comments' = com
          /\ UNCHANGED <<reactions, votes, views>> /\ posts[x.id].exists
      BY <1>4, <1>9, <2>2, <3>1
    <3>3. com \in CommentRows /\ com.written = comments.written \cup {k}
          /\ com.reactions = comments.reactions
      BY <2>1, <3>1, RowsOf DEF CommentRows
    <3>4. FeedTables'
      BY <1>3, <3>2, <3>3, FeedFacts DEF FeedTables
    <3> QED BY <1>3, <2>1, <3>2, <3>3, <3>4, RowsHang DEF Posted!NoOrphans, Posted!NoRow
  <2> QED BY <1>5, <2>2
<1>10. CASE x.op = "reply"
  <2>1. k \in Posted!Keys \X People /\ value \in Values \cup {"none"}
    BY <1>1, <1>2, <1>10 DEF FeedCallFits, RowOps
  <2>2. CASE ~(UNCHANGED <<reactions, votes, views, comments>>)
    <3>1. PICK com : com = [comments EXCEPT !.reactions[k] = value]
      OBVIOUS
    <3>2. /\ comments' = com /\ UNCHANGED <<reactions, votes, views>>
          /\ value = "none" \/ k[1] \in comments.written
      BY <1>4, <1>10, <2>2, <3>1
    <3>3. com \in CommentRows /\ com.written = comments.written
          /\ com.reactions = [comments.reactions EXCEPT ![k] = value]
      BY <2>1, <3>1, RowsOf DEF CommentRows
    <3>4. FeedTables'
      BY <1>3, <3>2, <3>3, FeedFacts DEF FeedTables
    <3>5. \A q \in Posted!Keys, u \in People :
            com.reactions[<<q, u>>] # "none" => comments.reactions[<<q, u>>] # "none" \/ q \in comments.written
      <4> SUFFICES ASSUME NEW q \in Posted!Keys, NEW u \in People, com.reactions[<<q, u>>] # "none"
                   PROVE  comments.reactions[<<q, u>>] # "none" \/ q \in comments.written
        OBVIOUS
      <4>1. CASE <<q, u>> = k
        <5>1. k[1] = q
          BY <4>1
        <5>2. com.reactions[k] = value
          BY <2>1, <3>3, RowsOf
        <5> QED BY <3>2, <4>1, <5>1, <5>2
      <4>2. CASE <<q, u>> # k
        <5>1. <<q, u>> \in Posted!Keys \X People
          OBVIOUS
        <5> QED BY <3>3, <4>2, <5>1, RowsOf
      <4> QED BY <4>1, <4>2
    <3> QED BY <1>3, <3>2, <3>3, <3>4, <3>5, RowsHang DEF Posted!NoOrphans, Posted!NoRow
  <2> QED BY <1>5, <2>2
<1> QED BY <1>2, <1>6, <1>7, <1>8, <1>9, <1>10, <1>3 DEF RowOps

\* The rows of a post go with it.
LEMMA PostDeleted ==
  ASSUME FeedInv, NEW p \in Stories,
         posts' = [posts EXCEPT ![p] = Posted!NoPost], Posted!Cascade(p)
  PROVE  /\ FeedTables' /\ Posted!NoOrphans'
         /\ \A q \in Stories : q # p => posts'[q] = posts[q]
         /\ ~posts'[p].exists
<1>1. /\ posts' \in [Stories -> Posted!Post] /\ ~posts'[p].exists
      /\ \A q \in Stories : q # p => posts'[q] = posts[q]
  BY PostStored, NoPostIs
<1>2. PICK com : com = [written |-> {k \in comments.written : k[1] # p},
                        reactions |-> [k \in Posted!Keys \X People |->
                                         IF k[1][1] = p THEN "none" ELSE comments.reactions[k]]]
  OBVIOUS
<1>3. /\ comments' = com
      /\ reactions' = [k \in Posted!Keys |-> IF k[1] = p THEN "none" ELSE reactions[k]]
      /\ votes' = [k \in Posted!Keys |-> IF k[1] = p THEN "none" ELSE votes[k]]
      /\ views' = {k \in views : k[1] # p}
  BY <1>2 DEF Posted!Cascade, Posted!NoRow
<1>4. /\ com.written = {k \in comments.written : k[1] # p}
      /\ com.reactions = [k \in Posted!Keys \X People |->
                            IF k[1][1] = p THEN "none" ELSE comments.reactions[k]]
  BY <1>2
<1>5. com \in CommentRows
  <2>1. com.written \in SUBSET Posted!Keys
    BY <1>4, RowsOf
  <2>2. com.reactions \in [Posted!Keys \X People -> Values \cup {"none"}]
    BY <1>4, RowsOf
  <2> QED BY <1>2, <2>1, <2>2 DEF CommentRows
<1>6. FeedTables'
  <2>1. reactions' \in [Posted!Keys -> Values \cup {"none"}]
    BY <1>3, RowsOf
  <2>2. votes' \in [Posted!Keys -> Options \cup {"none"}]
    BY <1>3, RowsOf
  <2>3. views' \in SUBSET Posted!Keys
    BY <1>3, RowsOf
  <2> QED BY <1>1, <1>3, <1>5, <2>1, <2>2, <2>3 DEF FeedTables
<1>7. ASSUME NEW k \in Posted!Keys
      PROVE  /\ \/ reactions'[k] # "none" \/ votes'[k] # "none" \/ k \in com.written \cup views'
                => posts'[k[1]].exists
             /\ \A u \in People : com.reactions[<<k, u>>] # "none" => k \in com.written
  <2>1. k[1] \in Stories
    BY RowsOf
  <2>2. CASE k[1] = p
    <3>1. reactions'[k] = "none" /\ votes'[k] = "none" /\ k \notin views' /\ k \notin com.written
      BY <1>3, <1>4, <2>2
    <3>2. ASSUME NEW u \in People PROVE com.reactions[<<k, u>>] = "none"
      <4>1. <<k, u>> \in Posted!Keys \X People /\ <<k, u>>[1] = k
        OBVIOUS
      <4> QED BY <1>4, <2>2, <4>1
    <3> QED BY <3>1, <3>2
  <2>3. CASE k[1] # p
    <3>1. /\ reactions'[k] = reactions[k] /\ votes'[k] = votes[k] /\ (k \in views' => k \in views)
          /\ k \in com.written <=> k \in comments.written
          /\ posts'[k[1]] = posts[k[1]]
      BY <1>1, <1>3, <1>4, <2>1, <2>3
    <3>2. ASSUME NEW u \in People PROVE com.reactions[<<k, u>>] = comments.reactions[<<k, u>>]
      <4>1. <<k, u>> \in Posted!Keys \X People /\ <<k, u>>[1] = k
        OBVIOUS
      <4> QED BY <1>4, <2>3, <4>1
    <3> QED BY <3>1, <3>2, RowsHang
  <2> QED BY <2>2, <2>3
<1>8. Posted!NoOrphans'
  BY <1>3, <1>7 DEF Posted!NoOrphans, Posted!NoRow
<1> QED BY <1>1, <1>6, <1>8

\* What a write of a handler does to the posts; it may only create the post it inserts.
LEMMA WriteFits ==
  ASSUME FeedInv, NEW c \in Callers, Posted!Write(c)
  PROVE  /\ FeedInv'
         /\ \A p \in Stories : posts'[p].exists =>
              \/ posts[p].exists
              \/ p = feedCall[c].id /\ feedCall[c].op = "create"
         /\ \A p \in Stories :
              /\ posts[p].exists /\ posts'[p].exists /\ Posted!ValidEdit(posts[p])
              /\ feedCall[c].op = "pin" => Posted!ValidEdit(feedCall[c].post)
              => Posted!ValidEdit(posts'[p])
<1>1. PICK x, rest : x = feedCall[c] /\ rest = Tail(x.todo)
  OBVIOUS
<1>2. PICK k : k \in {Posted!Idle, [x EXCEPT !.todo = rest]} /\ feedCall' = [feedCall EXCEPT ![c] = k]
               /\ (rest = <<>> => k = Posted!Idle)
  <2>1. PICK do, idle, on : /\ idle = Posted!Idle /\ on = [x EXCEPT !.todo = rest]
                            /\ do = (\/ /\ Head(feedCall[c].todo) \in {"praised", "options"}
                                        /\ ~posts[feedCall[c].id].exists
                                     \/ Tail(feedCall[c].todo) = <<>>)
    OBVIOUS
  <2>2. feedCall' = [feedCall EXCEPT ![c] = IF do THEN idle ELSE on]
    BY <1>1, <2>1 DEF Posted!Write
  <2>3. rest = <<>> => do
    BY <1>1, <2>1
  <2>4. CASE do
    BY <2>1, <2>2, <2>4
  <2>5. CASE ~do
    BY <2>1, <2>2, <2>3, <2>5
  <2> QED BY <2>4, <2>5
<1>3. ~Posted!Free(c)
  BY DEF Posted!Write
<1>4. /\ x.op \in Posted!Ops /\ x.todo \in FeedPlans(x.op) /\ x.id \in Stories
      /\ x \in FeedCall /\ FeedCallFits(x)
  BY <1>1, <1>3, FeedTurn
<1>5. rest # <<>> => rest \in FeedPlans(x.op) /\ rest # Inserting
  BY <1>1, <1>4, PlanSteps
<1>6. <<>> # Inserting
  BY DEF Inserting
\* The handler goes on: its post, if it rewrites one, is still there.
<1>7. ASSUME x.op \in Rewrites => posts'[x.id].exists
      PROVE  FeedCallFits(k)' /\ k.op \in {feedCall[c].op, "none"} /\ k.todo # Inserting
  <2>1. CASE k = Posted!Idle
    BY <1>6, <2>1, FeedIdle
  <2>2. CASE k = [x EXCEPT !.todo = rest] /\ rest # <<>>
    <3>1. rest \in AnyFeedPlan
      BY <1>4, <1>5, <2>2, PlansAreAny
    <3>2. /\ k.op = x.op /\ k.id = x.id /\ k.post = x.post /\ k.key = x.key /\ k.value = x.value
          /\ k.todo = rest
      BY <1>4, <2>2 DEF FeedCall
    <3>3. k \in FeedCall
      BY <1>4, <2>2, <3>1 DEF FeedCall
    <3> QED BY <1>1, <1>4, <1>5, <1>7, <2>2, <3>2, <3>3 DEF FeedCallFits
  <2> QED BY <1>2, <2>1, <2>2
<1>8. \/ Head(x.todo) = "row" /\ Posted!WriteRow(c)
      \/ Head(x.todo) = "delete" /\ posts' = Posted!Store(x.id, Posted!NoPost) /\ Posted!Cascade(x.id)
      \/ Head(x.todo) \notin {"row", "delete"} /\ Posted!WritePost(c)
  BY <1>1 DEF Posted!Write
<1>9. CASE Head(x.todo) = "row" /\ Posted!WriteRow(c)
  <2>1. x.op \in RowOps
    BY <1>4, <1>9, PlanSteps
  <2>2. FeedTables' /\ Posted!NoOrphans' /\ posts' = posts
    BY <1>1, <1>3, <1>9, <2>1, RowWritten
  <2>3. x.op \in Rewrites => posts'[x.id].exists
    BY <2>1 DEF RowOps, Rewrites
  <2>4. FeedInv'
    BY <1>2, <1>7, <2>2, <2>3, FeedWrote
  <2> QED BY <2>2, <2>4
<1>10. CASE /\ Head(x.todo) = "delete" /\ posts' = Posted!Store(x.id, Posted!NoPost)
            /\ Posted!Cascade(x.id)
  <2>1. x.op = "delete"
    BY <1>4, <1>10, PlanSteps
  <2>2. posts' = [posts EXCEPT ![x.id] = Posted!NoPost]
    BY <1>10 DEF Posted!Store
  <2>3. /\ FeedTables' /\ Posted!NoOrphans'
        /\ \A q \in Stories : q # x.id => posts'[q] = posts[q]
        /\ ~posts'[x.id].exists
    BY <1>4, <1>10, <2>2, PostDeleted
  <2>4. x.op \in Rewrites => posts'[x.id].exists
    BY <2>1 DEF Rewrites
  <2>5. \A q \in Stories : posts'[q].exists => posts'[q] = posts[q]
    BY <2>3
  <2>6. feedCall[c].op = "delete"
    BY <1>1, <2>1
  <2>7. \A p \in Stories : posts'[p].exists =>
           \/ posts[p].exists
           \/ p = feedCall[c].id /\ feedCall[c].todo = Inserting
    BY <2>5
  <2>8. FeedInv'
    BY <1>2, <1>7, <2>3, <2>4, <2>6, <2>7, FeedWrote
  <2> QED BY <2>5, <2>8
<1>11. CASE Head(x.todo) \notin {"row", "delete"} /\ Posted!WritePost(c)
  <2>1. PICK row \in Posted!Post :
           /\ posts' = [posts EXCEPT ![x.id] = row]
           /\ row.exists => posts[x.id].exists \/ x.todo = Inserting
           /\ posts[x.id].exists => row.exists
           /\ /\ posts[x.id].exists /\ Posted!ValidEdit(posts[x.id])
              /\ x.op = "pin" => Posted!ValidEdit(x.post)
              => Posted!ValidEdit(row)
    BY <1>1, <1>3, <1>11, PostWritten
  <2>2. /\ posts' \in [Stories -> Posted!Post]
        /\ \A q \in Stories : posts'[q] = IF q = x.id THEN row ELSE posts[q]
    BY <1>4, <2>1, PostStored
  <2>3. UNCHANGED <<reactions, votes, views, comments>>
    BY <1>11 DEF Posted!WritePost
  <2>4. FeedTables'
    BY <2>2, <2>3, FeedFacts DEF FeedTables
  <2>5. \A q \in Stories : posts[q].exists => posts'[q].exists
    BY <2>1, <2>2
  <2>6. Posted!NoOrphans'
    <3> SUFFICES ASSUME NEW k0 \in Posted!Keys
                 PROVE  /\ \/ reactions[k0] # "none" \/ votes[k0] # "none" \/ k0 \in comments.written \cup views
                           => posts'[k0[1]].exists
                        /\ \A u \in People :
                             comments.reactions[<<k0, u>>] # "none" => k0 \in comments.written
      BY <2>3 DEF Posted!NoOrphans, Posted!NoRow
    <3>1. k0[1] \in Stories
      BY RowsOf
    <3> QED BY <2>5, <3>1, RowsHang
  <2>7. x.op \in Rewrites => posts'[x.id].exists
    BY <1>4, <2>5 DEF FeedCallFits, Rewrites
  <2>8. \A p \in Stories : posts'[p].exists =>
           \/ posts[p].exists
           \/ p = feedCall[c].id /\ feedCall[c].todo = Inserting
    BY <1>1, <2>1, <2>2
  <2>9. FeedInv'
    BY <1>2, <1>7, <2>4, <2>5, <2>6, <2>7, <2>8, FeedWrote
  <2>10. x.todo = Inserting => x.op = "create"
    BY <1>4, PlanSteps
  <2>11. ASSUME NEW p \in Stories,
                posts[p].exists, posts'[p].exists, Posted!ValidEdit(posts[p]),
                feedCall[c].op = "pin" => Posted!ValidEdit(feedCall[c].post)
         PROVE  Posted!ValidEdit(posts'[p])
    <3>1. CASE p = x.id
      <4>1. Posted!ValidEdit(row) /\ posts'[p] = row
        BY <1>1, <2>1, <2>2, <2>11, <3>1
      <4> QED BY <4>1
    <3>2. CASE p # x.id
      <4>1. posts'[p] = posts[p]
        BY <2>2, <3>2
      <4> QED BY <2>11, <4>1
    <3> QED BY <3>1, <3>2
  <2> QED BY <1>1, <2>8, <2>9, <2>10, <2>11
<1> QED BY <1>8, <1>9, <1>10, <1>11

LEMMA FeedRestarts ==
  ASSUME FeedInv, Posted!Restart
  PROVE  FeedInv' /\ posts' = posts
<1>1. PICK idle : idle = Posted!Idle
  OBVIOUS
<1>2. feedCall' = [c \in Callers |-> idle] /\ UNCHANGED <<posts, reactions, votes, views, comments>>
  BY <1>1 DEF Posted!Restart, Posted!rows
<1>3. \A c \in Callers : feedCall'[c] = idle
  BY <1>2
<1>4. idle.op = "none" /\ idle.todo = <<>> /\ FeedCallFits(idle)'
  BY <1>1, FeedIdle
<1>5. \A c \in Callers : FeedCallFits(feedCall[c])'
  BY <1>3, <1>4 DEF FeedCallFits
<1>6. <<>> # Inserting
  BY DEF Inserting
<1>7. HandlersApart'
  BY <1>3, <1>4, <1>6 DEF HandlersApart
<1>8. FeedTables' /\ Posted!NoOrphans'
  BY <1>2 DEF FeedInv, FeedTables, Posted!NoOrphans
<1>9. DOMAIN feedCall' = Callers
  BY <1>2
<1> QED BY <1>2, <1>5, <1>7, <1>8, <1>9 DEF FeedInv

LEMMA FeedBegins == Posted!Init => FeedInv
<1> SUFFICES ASSUME Posted!Init PROVE FeedInv
  OBVIOUS
<1>1. PICK idle, none : idle = Posted!Idle /\ none = Posted!NoPost
  OBVIOUS
<1>2. /\ posts = [p \in Stories |-> none] /\ feedCall = [c \in Callers |-> idle]
      /\ reactions = [k \in Posted!Keys |-> "none"] /\ votes = [k \in Posted!Keys |-> "none"]
      /\ views = {}
  BY <1>1 DEF Posted!Init, Posted!NoRow
<1>3. PICK com : /\ com = [written |-> {}, reactions |-> [k \in Posted!Keys \X People |-> "none"]]
                 /\ comments = com
  BY DEF Posted!Init, Posted!NoRow
<1>4. /\ com.written = {} /\ com.reactions = [k \in Posted!Keys \X People |-> "none"]
      /\ com \in CommentRows
  BY <1>3 DEF CommentRows
<1>5. none \in Posted!Post /\ idle.op = "none" /\ idle.todo = <<>> /\ FeedCallFits(idle)
  BY <1>1, NoPostIs, FeedIdle
<1>6. FeedTables
  BY <1>2, <1>3, <1>4, <1>5 DEF FeedTables
<1>7. Posted!NoOrphans
  <2>1. \A k \in Posted!Keys, u \in People : comments.reactions[<<k, u>>] = "none"
    BY <1>3, <1>4
  <2> QED BY <1>2, <1>3, <1>4, <2>1 DEF Posted!NoOrphans, Posted!NoRow
<1>8. HandlersApart
  <2>1. <<>> # Inserting
    BY DEF Inserting
  <2> QED BY <1>2, <1>5, <2>1 DEF HandlersApart
<1> QED BY <1>2, <1>5, <1>6, <1>7, <1>8 DEF FeedInv

LEMMA FeedStep ==
  ASSUME FeedInv, DeletionsApart, [Posted!Next]_feedVars
  PROVE  /\ FeedInv'
         /\ \A p \in Stories : ~posts[p].exists /\ posts'[p].exists =>
              \E c \in Callers : feedCall[c].op = "create" /\ feedCall[c].id = p
         /\ \A p \in Stories :
              /\ posts[p].exists /\ posts'[p].exists /\ Posted!ValidEdit(posts[p])
              /\ \A c \in Callers : feedCall[c].op = "pin" => Posted!ValidEdit(feedCall[c].post)
              => Posted!ValidEdit(posts'[p])
<1>1. CASE UNCHANGED feedVars
  BY <1>1 DEF feedVars, FeedInv, FeedTables, Posted!NoOrphans, HandlersApart, FeedCallFits
<1>2. CASE Posted!Restart
  BY <1>2, FeedRestarts
<1>3. ASSUME NEW c \in Callers, Posted!Write(c)
      PROVE  /\ FeedInv'
             /\ \A p \in Stories : ~posts[p].exists /\ posts'[p].exists =>
                  feedCall[c].op = "create" /\ feedCall[c].id = p
             /\ \A p \in Stories :
                  /\ posts[p].exists /\ posts'[p].exists /\ Posted!ValidEdit(posts[p])
                  /\ feedCall[c].op = "pin" => Posted!ValidEdit(feedCall[c].post)
                  => Posted!ValidEdit(posts'[p])
  BY <1>3, WriteFits
<1>4. ASSUME NEW c \in Callers, NEW p \in Stories, NEW u \in People,
             \/ Posted!CreatePost(c, p, u) \/ Posted!UpdatePost(c, p, u) \/ Posted!TogglePin(c, p, u)
             \/ Posted!DeletePost(c, p, u) \/ Posted!React(c, p, u) \/ Posted!Vote(c, p, u)
             \/ Posted!AddComment(c, p, u) \/ Posted!ReactToComment(c, p, u) \/ Posted!MarkSeen(c, p, u)
      PROVE  FeedInv' /\ posts' = posts
  <2>1. posts' = posts
    BY <1>4 DEF Posted!CreatePost, Posted!UpdatePost, Posted!TogglePin, Posted!DeletePost,
                Posted!React, Posted!Vote, Posted!AddComment, Posted!ReactToComment,
                Posted!MarkSeen, Posted!rows
  <2>2. FeedInv'
    BY <1>4, CreateFits, EditFits, PinFits, DeleteFits, TogglesFit
  <2> QED BY <2>1, <2>2
<1>5. CASE \E c \in Callers : Posted!Write(c)
  BY <1>3, <1>5
<1>6. CASE \E c \in Callers, p \in Stories, u \in People :
             \/ Posted!CreatePost(c, p, u) \/ Posted!UpdatePost(c, p, u) \/ Posted!TogglePin(c, p, u)
             \/ Posted!DeletePost(c, p, u) \/ Posted!React(c, p, u) \/ Posted!Vote(c, p, u)
             \/ Posted!AddComment(c, p, u) \/ Posted!ReactToComment(c, p, u) \/ Posted!MarkSeen(c, p, u)
  <2>1. FeedInv' /\ posts' = posts
    BY <1>4, <1>6
  <2> QED BY <2>1
<1> QED BY <1>1, <1>2, <1>5, <1>6 DEF Posted!Next

\* When edits and pins of a post do not overlap its deletion, no comment, reaction, vote
\* or view hangs on no post, edits that race never take from a post what its type
\* requires, and no reaction or comment brings a deleted post back.
THEOREM PostsAlwaysStand ==
  DeletionsApart /\ Posted!Spec => [](Posted!TypeOK /\ Posted!NoOrphans) /\ PostsStand
<1> SUFFICES ASSUME DeletionsApart
             PROVE  Posted!Spec => [](Posted!TypeOK /\ Posted!NoOrphans) /\ PostsStand
  OBVIOUS
<1>1. FeedInv => Posted!TypeOK /\ Posted!NoOrphans
  <2> SUFFICES ASSUME FeedInv PROVE Posted!TypeOK
    BY DEF FeedInv
  <2>1. \A c \in Callers : feedCall[c].op \in Posted!Ops \cup {"none"} /\ feedCall[c].post \in Posted!Post
    BY FeedFacts DEF FeedCall
  <2> QED BY <2>1, FeedFacts, RowsOf DEF FeedTables, Posted!TypeOK, Posted!NoRow
<1>2. FeedInv /\ [Posted!Next]_(Posted!vars) => FeedInv'
  BY FeedStep DEF feedVars, Posted!vars
<1>3. FeedInv /\ [Posted!Next]_(Posted!vars) =>
        [\A p \in Stories :
           /\ posts[p].exists /\ posts'[p].exists /\ Posted!ValidEdit(posts[p])
           /\ \A c \in Callers : feedCall[c].op = "pin" => Posted!ValidEdit(feedCall[c].post)
           => Posted!ValidEdit(posts'[p])]_(Posted!vars)
  BY FeedStep DEF feedVars, Posted!vars
<1>4. FeedInv /\ [Posted!Next]_(Posted!vars) =>
        [\A p \in Stories : ~posts[p].exists /\ posts'[p].exists =>
           \E c \in Callers : feedCall[c].op = "create" /\ feedCall[c].id = p]_(Posted!vars)
  BY FeedStep DEF feedVars, Posted!vars
<1> QED BY <1>1, <1>2, <1>3, <1>4, FeedBegins, PTL
        DEF Posted!Spec, PostsStand, Posted!EditsKeepRequirements, Posted!DeletedPostsStayDeleted

-----------------------------------------------------------------------------
(* The announcement board *)

\* What a handler may have left to write.
BoardPlans ==
  {<<>>, <<"save", "notify">>, <<"save">>, <<"notify">>, <<"remove">>, <<"react">>, <<"unreact">>,
   <<"acknowledge", "exists", "read">>, <<"exists", "read">>, <<"read">>}

ToRead == {<<"exists", "read">>, <<"read">>}

BoardCall ==
  [id : Notices \cup {"none"}, who : People \cup {"none"}, row : Board!Row,
   emoji : Emojis \cup {"none"}, todo : BoardPlans]

BoardCallFits(k) ==
  /\ k \in BoardCall
  /\ k.todo # <<>> => k.id \in Notices /\ k.who \in People
  /\ k.todo \in {<<"save", "notify">>, <<"save">>} => k.row.exists
  /\ k.todo = <<"react">> => k.emoji \in Emojis

\* Who acknowledged has read, or is about to, or was cut short.
AcksFit ==
  \A k \in acks :
    /\ board[k[1]].exists
    /\ k \in reads \cup cut \/ Board!Acknowledging(k)

BoardInv ==
  /\ Board!TypeOK /\ DOMAIN boardCall = Callers /\ AcksFit
  /\ \A c \in Callers : BoardCallFits(boardCall[c])

LEMMA BoardTails ==
  /\ Tail(<<"save", "notify">>) = <<"notify">>
  /\ Tail(<<"acknowledge", "exists", "read">>) = <<"exists", "read">>
  /\ Tail(<<"exists", "read">>) = <<"read">>
  /\ \A v : Tail(<<v>>) = <<>>
  /\ Head(<<"save", "notify">>) = "save" /\ Head(<<"exists", "read">>) = "exists"
  /\ Head(<<"acknowledge", "exists", "read">>) = "acknowledge"
  /\ \A v : Head(<<v>>) = v
  OBVIOUS

LEMMA BoardIdle ==
  Board!Idle.todo = <<>> /\ BoardCallFits(Board!Idle)
  BY DEF Board!Idle, BoardCallFits, BoardPlans, BoardCall, Board!NoRow, Board!Row

LEMMA AcksAreKeys ==
  ASSUME BoardInv, NEW k \in acks
  PROVE  k = <<k[1], k[2]>> /\ k[1] \in Notices /\ k[2] \in People
  BY DEF BoardInv, Board!TypeOK, Board!Keys

\* A handler that begins: nothing is written yet.
LEMMA BoardStarts ==
  ASSUME BoardInv, NEW c \in Callers, Board!Free(c), NEW k, BoardCallFits(k),
         boardCall' = [boardCall EXCEPT ![c] = k],
         UNCHANGED <<board, reads, acks, emojis, bells, cut>>
  PROVE  BoardInv'
<1>1. \A d \in Callers : boardCall'[d] = IF d = c THEN k ELSE boardCall[d]
  BY DEF BoardInv
<1>2. Board!TypeOK'
  BY DEF BoardInv, Board!TypeOK
<1>3. ASSUME NEW d \in Callers PROVE BoardCallFits(boardCall[d])'
  BY <1>1 DEF BoardInv, BoardCallFits
<1>4. \A key : Board!Acknowledging(key) => Board!Acknowledging(key)'
  BY <1>1 DEF Board!Acknowledging, Board!Free
<1>5. AcksFit'
  BY <1>4 DEF BoardInv, AcksFit
<1> QED BY <1>2, <1>3, <1>5 DEF BoardInv

LEMMA BoardStartsWith ==
  ASSUME BoardInv, NEW c \in Callers, Board!Free(c), NEW a \in Notices, NEW u \in People,
         NEW k \in BoardCall, k.id = a, k.who = u,
         k.todo \in {<<"save", "notify">>, <<"save">>} => k.row.exists,
         k.todo = <<"react">> => k.emoji \in Emojis,
         boardCall' = [boardCall EXCEPT ![c] = k],
         UNCHANGED <<board, reads, acks, emojis, bells, cut>>
  PROVE  BoardInv'
<1>1. BoardCallFits(k)
  BY DEF BoardCallFits
<1> QED BY <1>1, BoardStarts

LEMMA BoardHandlersStart ==
  ASSUME BoardInv, NEW c \in Callers, NEW a \in Notices, NEW u \in People,
         \/ Board!Create(c, a, u) \/ Board!Update(c, a, u) \/ Board!Remove(c, a, u)
         \/ Board!ToggleReaction(c, a, u) \/ Board!MarkRead(c, a, u) \/ Board!Acknowledge(c, a, u)
  PROVE  BoardInv'
<1>1. ASSUME NEW todo \in {<<"remove">>, <<"read">>, <<"acknowledge", "exists", "read">>},
             Board!Start(c, a, u, todo)
      PROVE  BoardInv'
  <2>1. PICK k : k = [Board!Idle EXCEPT !.id = a, !.who = u, !.todo = todo]
    OBVIOUS
  <2>2. todo \in BoardPlans /\ todo \notin {<<"save", "notify">>, <<"save">>, <<"react">>}
    BY DEF BoardPlans
  <2>3. /\ Board!Free(c) /\ boardCall' = [boardCall EXCEPT ![c] = k]
        /\ UNCHANGED <<board, reads, acks, emojis, bells, cut>>
    BY <1>1, <2>1 DEF Board!Start, Board!tables
  <2>4. k \in BoardCall /\ k.id = a /\ k.who = u /\ k.todo = todo
    BY <2>1, <2>2, BoardIdle DEF BoardCallFits, BoardCall
  <2> QED BY <2>2, <2>3, <2>4, BoardStartsWith
<1>2. ASSUME NEW row, row \in Board!Row, row.exists, NEW todo \in {<<"save", "notify">>, <<"save">>},
             Board!StartWith(c, a, u, row, todo)
      PROVE  BoardInv'
  <2>1. PICK k : k = [Board!Idle EXCEPT !.id = a, !.who = u, !.row = row, !.todo = todo]
    OBVIOUS
  <2>2. todo \in BoardPlans /\ todo # <<"react">>
    BY DEF BoardPlans
  <2>3. /\ Board!Free(c) /\ boardCall' = [boardCall EXCEPT ![c] = k]
        /\ UNCHANGED <<board, reads, acks, emojis, bells, cut>>
    BY <1>2, <2>1 DEF Board!StartWith, Board!tables
  <2>4. k \in BoardCall /\ k.id = a /\ k.who = u /\ k.row = row /\ k.todo = todo
    BY <1>2, <2>1, <2>2, BoardIdle DEF BoardCallFits, BoardCall
  <2> QED BY <1>2, <2>2, <2>3, <2>4, BoardStartsWith
<1>3. CASE Board!Create(c, a, u)
  <2>1. PICK pinned \in BOOLEAN, ack \in BOOLEAN :
          Board!StartWith(c, a, u,
            [exists |-> TRUE, pinned |-> pinned, requiresAcknowledgement |-> ack], <<"save", "notify">>)
    BY <1>3 DEF Board!Create
  <2>2. PICK row : row = [exists |-> TRUE, pinned |-> pinned, requiresAcknowledgement |-> ack]
    OBVIOUS
  <2>3. row \in Board!Row /\ row.exists
    BY <2>2 DEF Board!Row
  <2> QED BY <1>2, <2>1, <2>2, <2>3
<1>4. CASE Board!Update(c, a, u)
  <2>1. PICK pinned \in BOOLEAN, ack \in BOOLEAN :
          Board!StartWith(c, a, u,
            [board[a] EXCEPT !.pinned = pinned, !.requiresAcknowledgement = ack], <<"save">>)
    BY <1>4 DEF Board!Update
  <2>2. PICK row : row = [board[a] EXCEPT !.pinned = pinned, !.requiresAcknowledgement = ack]
    OBVIOUS
  <2>3. board[a] \in Board!Row /\ board[a].exists
    BY <1>4 DEF Board!Update, BoardInv, Board!TypeOK
  <2>4. row \in Board!Row /\ row.exists
    BY <2>2, <2>3 DEF Board!Row
  <2> QED BY <1>2, <2>1, <2>2, <2>4
<1>5. CASE Board!Remove(c, a, u) \/ Board!MarkRead(c, a, u) \/ Board!Acknowledge(c, a, u)
  BY <1>1, <1>5 DEF Board!Remove, Board!MarkRead, Board!Acknowledge, Board!AcknowledgedAndRead
<1>6. CASE Board!ToggleReaction(c, a, u)
  <2>1. PICK emoji \in Emojis :
          boardCall' = [boardCall EXCEPT ![c] =
            [Board!Idle EXCEPT !.id = a, !.who = u, !.emoji = emoji,
               !.todo = IF <<a, u, emoji>> \in emojis THEN <<"unreact">> ELSE <<"react">>]]
    BY <1>6 DEF Board!ToggleReaction
  <2>2. PICK todo, k :
          /\ todo = IF <<a, u, emoji>> \in emojis THEN <<"unreact">> ELSE <<"react">>
          /\ k = [Board!Idle EXCEPT !.id = a, !.who = u, !.emoji = emoji, !.todo = todo]
    OBVIOUS
  <2>3. todo \in {<<"unreact">>, <<"react">>}
    BY <2>2
  <2>4. todo \in BoardPlans /\ todo \notin {<<"save", "notify">>, <<"save">>}
    BY <2>3 DEF BoardPlans
  <2>5. k \in BoardCall /\ k.id = a /\ k.who = u /\ k.todo = todo /\ k.emoji = emoji
    BY <2>2, <2>4, BoardIdle DEF BoardCallFits, BoardCall
  <2>6. /\ Board!Free(c) /\ boardCall' = [boardCall EXCEPT ![c] = k]
        /\ UNCHANGED <<board, reads, acks, emojis, bells, cut>>
    BY <1>6, <2>1, <2>2 DEF Board!ToggleReaction, Board!tables
  <2> QED BY <2>4, <2>5, <2>6, BoardStartsWith
<1> QED BY <1>3, <1>4, <1>5, <1>6

\* A statement of handler c that has plan x.todo, and what is left of it.
LEMMA BoardWriteFits ==
  ASSUME BoardInv, NEW c \in Callers, Board!Write(c)
  PROVE  BoardInv'
<1>1. PICK x, a, u, key, do, rest :
        /\ x = boardCall[c] /\ a = x.id /\ u = x.who /\ key = <<a, u>>
        /\ do = Head(x.todo) /\ rest = Tail(x.todo)
  OBVIOUS
<1>2. /\ BoardCallFits(x) /\ x.todo # <<>> /\ a \in Notices /\ u \in People
      /\ key \in Board!Keys /\ key[1] = a /\ key[2] = u
  BY <1>1 DEF BoardInv, BoardCallFits, Board!Write, Board!Free, Board!Keys
<1>3. /\ do \in {"save", "notify", "remove", "react", "unreact", "acknowledge", "exists", "read"}
      /\ rest \in {<<>>, <<"notify">>, <<"exists", "read">>, <<"read">>}
      /\ do = "acknowledge" <=> rest = <<"exists", "read">>
      /\ do = "exists" <=> rest = <<"read">>
      /\ do = "save" => x.row \in Board!Row /\ x.row.exists
      /\ do = "react" => x.emoji \in Emojis
      /\ x.todo \in ToRead <=> do \in {"exists", "read"}
  <2>1. x.todo \in BoardPlans \ {<<>>} /\ x.row \in Board!Row
    BY <1>2 DEF BoardCallFits, BoardCall
  <2>2. CASE x.todo = <<"save", "notify">>
    BY <1>1, <1>2, <2>1, <2>2, BoardTails DEF BoardCallFits, ToRead
  <2>3. CASE x.todo = <<"save">>
    BY <1>1, <1>2, <2>1, <2>3, BoardTails DEF BoardCallFits, ToRead
  <2>4. CASE x.todo \in {<<"notify">>, <<"remove">>, <<"unreact">>}
    <3>1. PICK v \in {"notify", "remove", "unreact"} : x.todo = <<v>>
      BY <2>4
    <3>2. do = v /\ rest = <<>>
      BY <1>1, <3>1, BoardTails
    <3> QED BY <3>1, <3>2 DEF ToRead
  <2>5. CASE x.todo = <<"react">>
    BY <1>1, <1>2, <2>5, BoardTails DEF BoardCallFits, ToRead
  <2>6. CASE x.todo = <<"acknowledge", "exists", "read">>
    BY <1>1, <2>6, BoardTails DEF ToRead
  <2>7. CASE x.todo = <<"exists", "read">>
    BY <1>1, <2>7, BoardTails DEF ToRead
  <2>8. CASE x.todo = <<"read">>
    BY <1>1, <2>8, BoardTails DEF ToRead
  <2> QED BY <2>1, <2>2, <2>3, <2>4, <2>5, <2>6, <2>7, <2>8 DEF BoardPlans
<1>4. PICK refused :
        refused <=> do \in {"acknowledge", "exists", "read", "react"} /\ ~board[a].exists
  <2>1. \E r \in BOOLEAN : r <=> do \in {"acknowledge", "exists", "read", "react"} /\ ~board[a].exists
    OBVIOUS
  <2> QED BY <2>1
<1>5. PICK k : k = IF refused \/ rest = <<>> THEN Board!Idle ELSE [x EXCEPT !.todo = rest]
  OBVIOUS
<1>6. boardCall' = [boardCall EXCEPT ![c] = k]
  BY <1>1, <1>4, <1>5 DEF Board!Write
<1>7. \A d \in Callers : boardCall'[d] = IF d = c THEN k ELSE boardCall[d]
  BY <1>6 DEF BoardInv
<1>8. /\ board' = CASE do = "save" -> [board EXCEPT ![a] = x.row]
                    [] do = "remove" -> [board EXCEPT ![a] = Board!NoRow]
                    [] OTHER -> board
      /\ reads' = CASE do = "read" /\ ~refused -> reads \cup {key}
                    [] do = "remove" -> reads \ Board!Of(a, reads)
                    [] OTHER -> reads
      /\ acks' = CASE do = "acknowledge" /\ ~refused -> acks \cup {key}
                   [] do = "remove" -> acks \ Board!Of(a, acks)
                   [] OTHER -> acks
      /\ cut' = IF do = "remove" THEN cut \ Board!Of(a, cut) ELSE cut
  BY <1>1, <1>4 DEF Board!Write
<1>9. emojis' \subseteq Notices \X People \X Emojis
  <2>1. PICK reaction : reaction = <<a, u, x.emoji>>
    OBVIOUS
  <2>2. emojis' = CASE do = "react" /\ ~refused -> emojis \cup {reaction}
                    [] do = "unreact" -> emojis \ {reaction}
                    [] do = "remove" -> emojis \ Board!Of(a, emojis)
                    [] OTHER -> emojis
    BY <1>1, <1>4, <2>1 DEF Board!Write
  <2>3. emojis \subseteq Notices \X People \X Emojis
    BY DEF BoardInv, Board!TypeOK
  <2>4. do = "react" => reaction \in Notices \X People \X Emojis
    BY <1>2, <1>3, <2>1
  <2>5. CASE do = "react"
    BY <2>2, <2>3, <2>4, <2>5
  <2>6. CASE do # "react"
    BY <2>2, <2>3, <2>6
  <2> QED BY <2>5, <2>6
<1>10. bells' \subseteq Board!Keys
  <2>1. PICK reached \in SUBSET (People \ {u}) :
          bells' = IF do = "notify" THEN bells \cup ({a} \X reached) ELSE bells
    BY <1>1 DEF Board!Write
  <2>2. bells \subseteq Board!Keys /\ {a} \X reached \subseteq Board!Keys
    BY <1>2 DEF BoardInv, Board!TypeOK, Board!Keys
  <2> QED BY <2>1, <2>2
<1>11. /\ board' \in [Notices -> Board!Row] /\ reads' \subseteq Board!Keys
       /\ acks' \subseteq Board!Keys /\ cut' \subseteq Board!Keys
  <2>1. /\ board \in [Notices -> Board!Row] /\ reads \subseteq Board!Keys
        /\ acks \subseteq Board!Keys /\ cut \subseteq Board!Keys
    BY DEF BoardInv, Board!TypeOK
  <2>2. Board!NoRow \in Board!Row
    BY DEF Board!NoRow, Board!Row
  <2>3. CASE do = "save"
    BY <1>2, <1>3, <1>8, <2>1, <2>3
  <2>4. CASE do = "remove"
    BY <1>2, <1>8, <2>1, <2>2, <2>4
  <2>5. CASE do \notin {"save", "remove"}
    BY <1>2, <1>8, <2>1, <2>5
  <2> QED BY <2>3, <2>4, <2>5
<1>12. BoardCallFits(k)
  <2>1. CASE refused \/ rest = <<>>
    BY <1>5, <2>1, BoardIdle
  <2>2. CASE ~(refused \/ rest = <<>>)
    <3>1. k = [x EXCEPT !.todo = rest]
      BY <1>5, <2>2
    <3>2. rest \in {<<"notify">>, <<"exists", "read">>, <<"read">>} /\ rest \in BoardPlans
      BY <1>3, <2>2 DEF BoardPlans
    <3>3. k \in BoardCall /\ k.todo = rest /\ k.id = a /\ k.who = u
      BY <1>1, <1>2, <3>1, <3>2 DEF BoardCallFits, BoardCall
    <3> QED BY <1>2, <3>2, <3>3 DEF BoardCallFits
  <2> QED BY <2>1, <2>2
<1>13. ASSUME NEW m \in acks', NEW b, b = m[1]
       PROVE  board'[b].exists /\ (m \in reads' \cup cut' \/ Board!Acknowledging(m)')
  <2>1. CASE do = "acknowledge" /\ ~refused /\ m = key
    <3>1. board' = board /\ board[a].exists
      BY <1>4, <1>8, <2>1
    <3>2. k = [x EXCEPT !.todo = rest] /\ rest = <<"exists", "read">>
      BY <1>3, <1>5, <2>1
    <3>3. k.id = a /\ k.who = u /\ k.todo = <<"exists", "read">>
      BY <1>1, <1>2, <3>2 DEF BoardCallFits, BoardCall
    <3>4. <<boardCall'[c].id, boardCall'[c].who>> = m /\ boardCall'[c].todo \in ToRead
      BY <1>1, <1>7, <2>1, <3>3 DEF ToRead
    <3> QED BY <1>1, <1>13, <2>1, <3>1, <3>4 DEF Board!Acknowledging, ToRead
  <2>2. CASE ~(do = "acknowledge" /\ ~refused /\ m = key)
    <3>1. m \in acks /\ (do = "remove" => b # a)
      BY <1>8, <1>13, <2>2 DEF Board!Of
    <3>2. m = <<b, m[2]>> /\ b \in Notices /\ m[2] \in People /\ board[b].exists
      BY <1>13, <3>1, AcksAreKeys DEF BoardInv, AcksFit
    <3>3. board'[b].exists
      <4>1. board \in [Notices -> Board!Row]
        BY DEF BoardInv, Board!TypeOK
      <4>2. CASE do = "save"
        BY <1>2, <1>3, <1>8, <3>2, <4>1, <4>2
      <4>3. CASE do = "remove"
        BY <1>2, <1>8, <3>1, <3>2, <4>1, <4>3
      <4>4. CASE do \notin {"save", "remove"}
        BY <1>8, <3>2, <4>4
      <4> QED BY <4>2, <4>3, <4>4
    <3>4. CASE m \in reads \cup cut
      BY <1>8, <1>13, <3>1, <3>3, <3>4 DEF Board!Of
    <3>5. CASE m \notin reads \cup cut
      <4>1. PICK d \in Callers :
              <<boardCall[d].id, boardCall[d].who>> = m /\ boardCall[d].todo \in ToRead
        BY <3>1, <3>5 DEF BoardInv, AcksFit, Board!Acknowledging, ToRead
      <4>2. CASE d # c
        <5>1. boardCall'[d] = boardCall[d]
          BY <1>7, <4>2
        <5> QED BY <3>3, <4>1, <5>1 DEF Board!Acknowledging, ToRead
      <4>3. CASE d = c
        <5>1. m = key /\ do \in {"exists", "read"} /\ ~refused
          BY <1>1, <1>3, <1>4, <3>2, <4>1, <4>3
        <5>2. CASE do = "read"
          BY <1>8, <3>3, <5>1, <5>2
        <5>3. CASE do = "exists"
          <6>1. k = [x EXCEPT !.todo = rest] /\ rest = <<"read">>
            BY <1>3, <1>5, <5>1, <5>3
          <6>2. k.id = a /\ k.who = u /\ k.todo = <<"read">>
            BY <1>1, <1>2, <6>1 DEF BoardCallFits, BoardCall
          <6>3. <<boardCall'[c].id, boardCall'[c].who>> = m /\ boardCall'[c].todo \in ToRead
            BY <1>1, <1>7, <5>1, <6>2 DEF ToRead
          <6> QED BY <3>3, <6>3 DEF Board!Acknowledging, ToRead
        <5> QED BY <5>1, <5>2, <5>3
      <4> QED BY <4>2, <4>3
    <3> QED BY <3>4, <3>5
  <2> QED BY <2>1, <2>2
<1>14. AcksFit'
  BY <1>13 DEF AcksFit
<1>15. Board!TypeOK'
  BY <1>9, <1>10, <1>11 DEF Board!TypeOK, Board!Keys, Board!Row
<1>16. ASSUME NEW d \in Callers PROVE BoardCallFits(boardCall[d])'
  <2>1. CASE d = c
    BY <1>7, <1>12, <2>1 DEF BoardCallFits, BoardCall
  <2>2. CASE d # c
    BY <1>7, <2>2 DEF BoardInv, BoardCallFits, BoardCall
  <2> QED BY <2>1, <2>2
<1>17. DOMAIN boardCall' = Callers
  BY <1>6 DEF BoardInv
<1> QED BY <1>14, <1>15, <1>16, <1>17 DEF BoardInv

LEMMA BoardRestarts ==
  ASSUME BoardInv, Board!Restart \/ UNCHANGED Board!vars
  PROVE  BoardInv'
<1>1. CASE Board!Restart
  <2>1. /\ boardCall' = [c \in Callers |-> Board!Idle]
        /\ cut' = cut \cup {k \in acks : Board!Acknowledging(k)}
        /\ UNCHANGED <<board, reads, acks, emojis, bells>>
    BY <1>1 DEF Board!Restart, Board!tables
  <2>2. Board!TypeOK'
    BY <2>1 DEF BoardInv, Board!TypeOK, Board!Keys, Board!Row
  <2>3. AcksFit'
    BY <2>1 DEF BoardInv, AcksFit
  <2>4. \A c \in Callers : BoardCallFits(boardCall[c])'
    <3> TAKE c \in Callers
    <3>1. boardCall'[c] = Board!Idle
      BY <2>1
    <3> QED BY <3>1, BoardIdle DEF BoardCallFits, BoardCall
  <2> QED BY <2>1, <2>2, <2>3, <2>4 DEF BoardInv
<1>2. CASE UNCHANGED Board!vars
  BY <1>2 DEF Board!vars, BoardInv, Board!TypeOK, Board!Keys, Board!Row, AcksFit, Board!Acknowledging,
              BoardCallFits, BoardCall
<1> QED BY <1>1, <1>2

LEMMA BoardStep ==
  ASSUME BoardInv, [Board!Next]_(Board!vars)
  PROVE  BoardInv'
<1>1. ASSUME NEW c \in Callers, NEW a \in Notices, NEW u \in People,
         \/ Board!Create(c, a, u) \/ Board!Update(c, a, u) \/ Board!Remove(c, a, u)
         \/ Board!ToggleReaction(c, a, u) \/ Board!MarkRead(c, a, u) \/ Board!Acknowledge(c, a, u)
      PROVE  BoardInv'
  BY <1>1, BoardHandlersStart
<1> QED BY <1>1, BoardWriteFits, BoardRestarts DEF Board!Next

\* Removals, edits and other tabs notwithstanding, everyone who acknowledged an
\* announcement counts among its readers, unless the process died between the two
\* inserts, or is still there.
THEOREM AcknowledgedAlwaysRead == Board!Spec => [](Board!TypeOK /\ Board!AcknowledgedIsRead)
<1>1. Board!Init => BoardInv
  <2> SUFFICES ASSUME Board!Init PROVE BoardInv
    OBVIOUS
  <2>1. Board!NoRow \in Board!Row
    BY DEF Board!NoRow, Board!Row
  <2> QED BY <2>1, BoardIdle DEF Board!Init, BoardInv, Board!TypeOK, AcksFit
<1>2. BoardInv /\ [Board!Next]_(Board!vars) => BoardInv'
  BY BoardStep
<1>3. BoardInv => Board!TypeOK /\ Board!AcknowledgedIsRead
  <2> SUFFICES ASSUME BoardInv PROVE Board!AcknowledgedIsRead
    BY DEF BoardInv
  <2>1. ASSUME NEW a \in Notices, NEW u \in People, Board!ViewerState(a, u).isAcknowledged
        PROVE  \/ /\ Board!ViewerState(a, u).isRead
                  /\ [id |-> u, acknowledged |-> TRUE] \in Board!Viewers(a)
               \/ <<a, u>> \in cut \/ Board!Acknowledging(<<a, u>>)
    <3>1. <<a, u>> \in acks
      BY <2>1 DEF Board!ViewerState
    <3>2. CASE <<a, u>> \in reads
      <4>1. PICK k : k = <<a, u>>
        OBVIOUS
      <4>2. k \in Board!Of(a, reads) /\ k[2] = u /\ (k \in acks) = TRUE
        BY <3>1, <3>2, <4>1 DEF Board!Of
      <4>3. [id |-> u, acknowledged |-> TRUE] \in Board!Viewers(a)
        BY <4>2 DEF Board!Viewers
      <4> QED BY <3>2, <4>3 DEF Board!ViewerState
    <3> QED BY <3>1, <3>2 DEF BoardInv, AcksFit
  <2> QED BY <2>1 DEF Board!AcknowledgedIsRead
<1> QED BY <1>1, <1>2, <1>3, PTL DEF Board!Spec

-----------------------------------------------------------------------------
(* The yearly balances *)

\* Runs of the reminder overlap neither each other nor a change of a boost.
RemindersApart == {{"remind"}, {"remind", "boost"}} \subseteq RemindedAlone

BalanceOf(k) == balances[<<k.of, k.year>>]

\* What each step of a handler rests on while others go on.
CallerFits(k) ==
  /\ k.task = "none" => k.op = "none"
  /\ k.task = "find" => FALSE
  /\ k.task = "insert" => k.of \in Employees /\ k.op \in {"read", "boost", "initialise"}
  /\ k.task = "save" =>
       /\ k.op = "boost" /\ k.of \in Employees /\ BalanceOf(k).exists
       /\ BalanceOf(k).lastReminderCheckpoint = k.row.lastReminderCheckpoint
  /\ k.op = "boost" => k.row.exists
  /\ k.op = "boost" /\ k.task = "insert" => k.row.lastReminderCheckpoint = 0
  /\ k.task = "init" => k.op = "initialise"
  /\ k.op = "initialise" =>
       \A e \in Employees \ k.todo :
         balances[<<e, k.year>>].exists \/ (k.task = "insert" /\ k.of = e)
  /\ k.task = "mail" => k.op = "remind" /\ k.due \in Tiers
  /\ k.op = "remind" =>
       \A e \in k.todo :
         /\ balances[<<e, k.year>>].exists /\ k.loaded[e].exists
         /\ k.loaded[e].lastReminderCheckpoint = balances[<<e, k.year>>].lastReminderCheckpoint

\* A reminder that was sent is on record, and was sent once.
MailFits(a, t) ==
  /\ mails[<<a, t>>] <= 1
  /\ mails[<<a, t>>] # 0 => balances[a].exists /\ balances[a].lastReminderCheckpoint >= t

\* While a run goes on, no other does, and no boost is changed.
RunsAlone ==
  \A c, d \in Callers :
    c # d /\ served[c].op = "remind" => served[d].op \notin {"remind", "boost"}

YearInv ==
  /\ Yearly!TypeOK /\ RunsAlone
  /\ \A c \in Callers : CallerFits(served[c])
  /\ \A a \in Yearly!Accounts, t \in Tiers : MailFits(a, t)


LEMMA CallerSet ==
  ASSUME YearInv, NEW c \in Callers, NEW k \in Yearly!CallerState, Yearly!Go(c, k)
  PROVE  /\ served' \in [Callers -> Yearly!CallerState]
         /\ \A d \in Callers : served'[d] = IF d = c THEN k ELSE served[d]
  BY DEF YearInv, Yearly!TypeOK, Yearly!Go

LEMMA TierNumbers == \A t \in Tiers \cup {0} : t \in Nat
  BY CommunityAssumption

LEMMA YearFacts ==
  ASSUME YearInv
  PROVE  /\ balances \in [Yearly!Accounts -> Yearly!Balance]
         /\ \A c \in Callers : served[c] \in Yearly!CallerState /\ CallerFits(served[c])
         /\ \A e \in Employees, y \in Years : <<e, y>> \in Yearly!Accounts
         /\ \A a \in Yearly!Accounts :
              balances[a] \in Yearly!Balance /\ balances[a].lastReminderCheckpoint \in Nat
<1>1. /\ balances \in [Yearly!Accounts -> Yearly!Balance]
      /\ \A c \in Callers : served[c] \in Yearly!CallerState /\ CallerFits(served[c])
  BY DEF YearInv, Yearly!TypeOK
<1>2. \A e \in Employees, y \in Years : <<e, y>> \in Yearly!Accounts
  BY DEF Yearly!Accounts
<1>3. \A a \in Yearly!Accounts :
        balances[a] \in Yearly!Balance /\ balances[a].lastReminderCheckpoint \in Nat
  BY <1>1, TierNumbers DEF Yearly!Balance
<1> QED BY <1>1, <1>2, <1>3

LEMMA AtRestFits ==
  /\ Yearly!AtRest \in Yearly!CallerState
  /\ Yearly!AtRest.op = "none" /\ Yearly!AtRest.task = "none" /\ Yearly!AtRest.todo = {}
  /\ CallerFits(Yearly!AtRest) /\ CallerFits(Yearly!AtRest)'
<1>1. PICK y : y = CHOOSE x \in Years : TRUE
  OBVIOUS
<1>2. y \in Years
  BY <1>1, CommunityAssumption
<1>3. Yearly!Missing \in Yearly!Balance
  BY DEF Yearly!Missing, Yearly!Balance
<1>4. PICK r : r = Yearly!AtRest
  OBVIOUS
<1>5. r = [task |-> "none", op |-> "none", of |-> NoOne, year |-> y, row |-> Yearly!Missing,
           todo |-> {}, loaded |-> [e \in Employees |-> Yearly!Missing], due |-> 0]
  BY <1>1, <1>4 DEF Yearly!AtRest
<1>6. r \in Yearly!CallerState
  BY <1>2, <1>3, <1>5 DEF Yearly!CallerState
<1>7. r.op = "none" /\ r.task = "none" /\ r.todo = {}
  BY <1>5
<1>8. CallerFits(r) /\ CallerFits(r)'
  BY <1>7 DEF CallerFits
<1> QED BY <1>4, <1>6, <1>7, <1>8

\* Balances come, and their checkpoints stay.
Grows ==
  \A a \in Yearly!Accounts :
    balances[a].exists =>
      /\ balances'[a].exists
      /\ balances'[a].lastReminderCheckpoint = balances[a].lastReminderCheckpoint

LEMMA KeptFits ==
  ASSUME NEW k \in Yearly!CallerState, CallerFits(k), Grows
  PROVE  CallerFits(k)'
<1>1. \A e \in Employees : <<e, k.year>> \in Yearly!Accounts
  BY DEF Yearly!CallerState, Yearly!Accounts
<1>2. k.todo \subseteq Employees
  BY DEF Yearly!CallerState
<1>3. k.task = "save" =>
        /\ BalanceOf(k)'.exists
        /\ BalanceOf(k)'.lastReminderCheckpoint = k.row.lastReminderCheckpoint
  BY <1>1 DEF CallerFits, Grows, BalanceOf
<1>4. k.op = "initialise" =>
        \A e \in Employees \ k.todo :
          balances'[<<e, k.year>>].exists \/ (k.task = "insert" /\ k.of = e)
  BY <1>1 DEF CallerFits, Grows
<1>5. k.op = "remind" =>
       \A e \in k.todo :
         /\ balances'[<<e, k.year>>].exists /\ k.loaded[e].exists
         /\ k.loaded[e].lastReminderCheckpoint = balances'[<<e, k.year>>].lastReminderCheckpoint
  BY <1>1, <1>2 DEF CallerFits, Grows
<1> QED BY <1>3, <1>4, <1>5 DEF CallerFits, BalanceOf

LEMMA YearStepFits ==
  ASSUME YearInv, NEW c \in Callers, NEW k \in Yearly!CallerState, Yearly!Go(c, k),
         balances' \in [Yearly!Accounts -> Yearly!Balance], Grows, CallerFits(k)',
         UNCHANGED <<mails, today>>,
         k.op \in {served[c].op, "none"}
           \/ /\ k.op = "remind" => \A d \in Callers : served[d].op \notin {"remind", "boost"}
              /\ k.op \in {"remind", "boost"} => \A d \in Callers : served[d].op # "remind"
  PROVE  YearInv'
<1>1. /\ served' \in [Callers -> Yearly!CallerState]
      /\ \A d \in Callers : served'[d] = IF d = c THEN k ELSE served[d]
  BY CallerSet
<1>2. Yearly!TypeOK'
  BY <1>1 DEF YearInv, Yearly!TypeOK, Yearly!Accounts, Yearly!Balance, Yearly!CallerState
<1>3. RunsAlone'
  BY <1>1 DEF YearInv, RunsAlone
<1>4. ASSUME NEW d \in Callers PROVE CallerFits(served[d])'
  <2>1. PICK x : x = served[d]
    OBVIOUS
  <2>2. CASE d = c
    <3>1. served'[d] = k
      BY <1>1, <2>2
    <3> QED BY <3>1 DEF CallerFits, BalanceOf
  <2>3. CASE d # c
    <3>1. served'[d] = x
      BY <1>1, <2>1, <2>3
    <3>2. CallerFits(x)'
      BY <2>1, KeptFits, YearFacts
    <3> QED BY <3>1, <3>2 DEF CallerFits, BalanceOf
  <2> QED BY <2>2, <2>3
<1>5. ASSUME NEW a \in Yearly!Accounts, NEW t \in Tiers PROVE MailFits(a, t)'
  BY DEF YearInv, MailFits, Grows
<1> QED BY <1>2, <1>3, <1>4, <1>5 DEF YearInv, Yearly!Accounts

\* Handlers that only look.
LEMMA ReadingFits ==
  ASSUME YearInv, NEW c \in Callers, NEW k \in Yearly!CallerState, Yearly!Go(c, k),
         UNCHANGED <<balances, mails, today>>, CallerFits(k),
         k.op \in {served[c].op, "none"}
           \/ /\ k.op = "remind" => \A d \in Callers : served[d].op \notin {"remind", "boost"}
              /\ k.op \in {"remind", "boost"} => \A d \in Callers : served[d].op # "remind"
  PROVE  YearInv'
<1>1. Grows /\ balances' \in [Yearly!Accounts -> Yearly!Balance]
  BY YearFacts DEF Grows
<1>2. CallerFits(k)'
  BY DEF CallerFits, BalanceOf
<1> QED BY <1>1, <1>2, YearStepFits

LEMMA YearReturnFits ==
  ASSUME YearInv, NEW c \in Callers, Yearly!Return(c), UNCHANGED <<balances, mails, today>>
  PROVE  YearInv'
<1>1. PICK r : r = Yearly!AtRest
  OBVIOUS
<1>2. Yearly!Go(c, r) /\ r \in Yearly!CallerState /\ r.op = "none" /\ CallerFits(r)
  BY <1>1, AtRestFits DEF Yearly!Return, CallerFits, BalanceOf
<1> QED BY <1>2, ReadingFits

LEMMA GetOrCreateFits ==
  ASSUME YearInv, NEW c \in Callers, Yearly!GetOrCreate(c)
  PROVE  YearInv'
<1>1. PICK a \in Yearly!Accounts :
        IF balances[a].exists THEN Yearly!Return(c)
        ELSE Yearly!Go(c, [Yearly!AtRest EXCEPT !.op = "read", !.task = "insert", !.of = a[1],
                                                !.year = a[2]])
  BY DEF Yearly!GetOrCreate
<1>2. UNCHANGED <<balances, mails, today>>
  BY DEF Yearly!GetOrCreate
<1>3. CASE balances[a].exists
  BY <1>1, <1>2, <1>3, YearReturnFits
<1>4. CASE ~balances[a].exists
  <2>1. PICK k : k = [Yearly!AtRest EXCEPT !.op = "read", !.task = "insert", !.of = a[1],
                                           !.year = a[2]]
    OBVIOUS
  <2>2. a[1] \in Employees /\ a[2] \in Years
    BY DEF Yearly!Accounts
  <2>3. k \in Yearly!CallerState /\ k.op = "read" /\ k.task = "insert" /\ k.of = a[1]
    BY <2>1, <2>2, AtRestFits DEF Yearly!CallerState
  <2>4. CallerFits(k)
    BY <2>2, <2>3 DEF CallerFits
  <2> QED BY <1>1, <1>2, <1>4, <2>1, <2>3, <2>4, ReadingFits
<1> QED BY <1>3, <1>4

LEMMA NewBalanceIs ==
  /\ Yearly!NewBalance \in Yearly!Balance /\ Yearly!NewBalance.exists
  /\ Yearly!NewBalance.lastReminderCheckpoint = 0
  BY DEF Yearly!NewBalance, Yearly!Missing, Yearly!Balance

LEMMA UpdateBoostFits ==
  ASSUME YearInv, RemindersApart, NEW c \in Callers, Yearly!UpdateBoost(c)
  PROVE  YearInv'
<1>1. PICK a \in Yearly!Accounts, b \in Boosts :
        Yearly!Go(c, [Yearly!AtRest EXCEPT !.op = "boost", !.of = a[1], !.year = a[2],
                 !.task = IF balances[a].exists THEN "save" ELSE "insert",
                 !.row = [(IF balances[a].exists THEN balances[a] ELSE Yearly!NewBalance)
                           EXCEPT !.boostTokens = b]])
  BY DEF Yearly!UpdateBoost
<1>2. PICK old, row, task, k :
        /\ old = IF balances[a].exists THEN balances[a] ELSE Yearly!NewBalance
        /\ row = [old EXCEPT !.boostTokens = b]
        /\ task = IF balances[a].exists THEN "save" ELSE "insert"
        /\ k = [Yearly!AtRest EXCEPT !.op = "boost", !.of = a[1], !.year = a[2], !.task = task,
                                     !.row = row]
  OBVIOUS
<1>3. Yearly!Go(c, k) /\ UNCHANGED <<balances, mails, today>>
  BY <1>1, <1>2 DEF Yearly!UpdateBoost
<1>4. a[1] \in Employees /\ a[2] \in Years /\ a = <<a[1], a[2]>>
  BY DEF Yearly!Accounts
<1>5. old \in Yearly!Balance /\ old.exists
  BY <1>2, NewBalanceIs, YearFacts
<1>6. /\ row \in Yearly!Balance /\ row.exists
      /\ row.lastReminderCheckpoint = old.lastReminderCheckpoint
  BY <1>2, <1>5 DEF Yearly!Balance
<1>7. /\ k \in Yearly!CallerState /\ k.op = "boost" /\ k.of = a[1] /\ k.year = a[2]
      /\ k.task = task /\ k.row = row
  BY <1>2, <1>4, <1>6, AtRestFits DEF Yearly!CallerState
<1>8. CallerFits(k)
  <2>1. BalanceOf(k) = balances[a]
    BY <1>4, <1>7 DEF BalanceOf
  <2>2. CASE balances[a].exists
    <3>1. k.task = "save" /\ k.op = "boost" /\ old = balances[a]
      BY <1>2, <1>7, <2>2
    <3>2. k.row.lastReminderCheckpoint = BalanceOf(k).lastReminderCheckpoint /\ k.row.exists
      BY <1>6, <1>7, <2>1, <3>1
    <3> QED BY <1>4, <1>7, <2>1, <2>2, <3>1, <3>2 DEF CallerFits
  <2>3. CASE ~balances[a].exists
    <3>1. k.task = "insert" /\ k.op = "boost" /\ old = Yearly!NewBalance
      BY <1>2, <1>7, <2>3
    <3>2. k.row.lastReminderCheckpoint = 0 /\ k.row.exists
      BY <1>6, <1>7, <3>1, NewBalanceIs
    <3> QED BY <1>4, <1>7, <3>1, <3>2 DEF CallerFits
  <2> QED BY <2>2, <2>3
<1>9. \A d \in Callers : served[d].op # "remind"
  BY DEF Yearly!UpdateBoost, Yearly!MayStart, RemindersApart
<1> QED BY <1>3, <1>7, <1>8, <1>9, ReadingFits

LEMMA InsertFits ==
  ASSUME YearInv, NEW c \in Callers, Yearly!Insert(c)
  PROVE  YearInv'
<1>1. PICK x, a : x = served[c] /\ a = <<x.of, x.year>>
  OBVIOUS
<1>2. /\ x \in Yearly!CallerState /\ CallerFits(x) /\ x.task = "insert"
      /\ x.of \in Employees /\ x.op \in {"read", "boost", "initialise"} /\ a \in Yearly!Accounts
  BY <1>1, YearFacts DEF Yearly!Insert, CallerFits, Yearly!CallerState, Yearly!Accounts
<1>3. UNCHANGED <<mails, today>>
  BY DEF Yearly!Insert
<1>4. CASE ~Yearly!Inserts(a)
  BY <1>1, <1>3, <1>4, YearReturnFits DEF Yearly!Insert
<1>5. CASE Yearly!Inserts(a)
  <2>1. /\ ~balances[a].exists /\ balances' = [balances EXCEPT ![a] = Yearly!NewBalance]
    BY <1>1, <1>5 DEF Yearly!Insert, Yearly!Inserts
  <2>2. /\ balances' \in [Yearly!Accounts -> Yearly!Balance] /\ Grows
        /\ balances'[a] = Yearly!NewBalance
    BY <1>2, <2>1, NewBalanceIs, YearFacts DEF Grows
  <2>3. PICK k : k = CASE x.op = "boost" -> [x EXCEPT !.task = "save"]
                       [] x.op = "initialise" -> [x EXCEPT !.task = "init"]
                       [] OTHER -> Yearly!AtRest
    OBVIOUS
  <2>4. Yearly!Go(c, k)
    BY <1>1, <1>2, <1>5, <2>3 DEF Yearly!Insert, Yearly!Return
  <2>5. CASE x.op = "boost"
    <3>1. PICK m : m = [x EXCEPT !.task = "save"]
      OBVIOUS
    <3>2. /\ m \in Yearly!CallerState /\ m.task = "save" /\ m.op = "boost" /\ m.row = x.row
          /\ m.of = x.of /\ m.year = x.year
      BY <1>2, <2>5, <3>1 DEF Yearly!CallerState
    <3>3. balances'[<<m.of, m.year>>] = Yearly!NewBalance
      BY <1>1, <2>2, <3>2
    <3>4. CallerFits(m)'
      BY <1>2, <2>5, <3>2, <3>3, NewBalanceIs DEF CallerFits, BalanceOf
    <3>5. k = m
      BY <2>3, <2>5, <3>1
    <3> QED BY <1>1, <1>3, <2>2, <2>4, <2>5, <3>2, <3>4, <3>5, YearStepFits
  <2>6. CASE x.op = "initialise"
    <3>1. PICK m : m = [x EXCEPT !.task = "init"]
      OBVIOUS
    <3>2. /\ m \in Yearly!CallerState /\ m.task = "init" /\ m.op = "initialise"
          /\ m.todo = x.todo /\ m.year = x.year
      BY <1>2, <2>6, <3>1 DEF Yearly!CallerState
    <3>3. \A e \in Employees \ m.todo : balances'[<<e, m.year>>].exists
      BY <1>1, <1>2, <2>2, <2>6, <3>2, NewBalanceIs, YearFacts
         DEF CallerFits, Grows, Yearly!CallerState
    <3>4. CallerFits(m)'
      BY <3>2, <3>3 DEF CallerFits
    <3>5. k = m
      BY <2>3, <2>6, <3>1
    <3> QED BY <1>1, <1>3, <2>2, <2>4, <2>6, <3>2, <3>4, <3>5, YearStepFits
  <2>7. CASE x.op = "read"
    <3>1. k = Yearly!AtRest
      BY <2>3, <2>7
    <3>2. k \in Yearly!CallerState /\ k.op = "none" /\ CallerFits(k)'
      BY <3>1, AtRestFits DEF CallerFits, BalanceOf
    <3> QED BY <1>3, <2>2, <2>4, <3>2, YearStepFits
  <2> QED BY <1>2, <2>5, <2>6, <2>7
<1> QED BY <1>4, <1>5

LEMMA BoostSaveFits ==
  ASSUME YearInv, NEW c \in Callers, Yearly!Save(c)
  PROVE  YearInv'
<1>1. PICK x, a : x = served[c] /\ a = <<x.of, x.year>>
  OBVIOUS
<1>2. /\ x \in Yearly!CallerState /\ CallerFits(x) /\ x.task = "save" /\ a \in Yearly!Accounts
      /\ x.row \in Yearly!Balance
  BY <1>1, YearFacts DEF Yearly!Save, CallerFits, Yearly!CallerState, Yearly!Accounts
<1>3. balances' = [balances EXCEPT ![a] = x.row] /\ UNCHANGED <<mails, today>>
  BY <1>1 DEF Yearly!Save
<1>4. /\ balances[a].exists /\ x.row.exists
      /\ balances[a].lastReminderCheckpoint = x.row.lastReminderCheckpoint
  BY <1>1, <1>2 DEF CallerFits, BalanceOf
<1>5. balances' \in [Yearly!Accounts -> Yearly!Balance] /\ Grows
  BY <1>2, <1>3, <1>4, YearFacts DEF Grows
<1>6. PICK r : r = Yearly!AtRest
  OBVIOUS
<1>7. Yearly!Go(c, r) /\ r \in Yearly!CallerState /\ r.op = "none" /\ CallerFits(r)'
  BY <1>6, AtRestFits DEF Yearly!Save, Yearly!Return, CallerFits, BalanceOf
<1> QED BY <1>3, <1>5, <1>7, YearStepFits

LEMMA InitializeFits ==
  ASSUME YearInv, NEW c \in Callers,
         Yearly!InitializeYear(c) \/ Yearly!InitializeOne(c) \/ Yearly!Initialized(c)
  PROVE  YearInv'
<1>1. CASE Yearly!InitializeYear(c)
  <2>1. PICK year \in Years :
          Yearly!Go(c, [Yearly!AtRest EXCEPT !.op = "initialise", !.task = "init", !.year = year,
                                             !.todo = Employees])
    BY <1>1 DEF Yearly!InitializeYear
  <2>2. PICK k : k = [Yearly!AtRest EXCEPT !.op = "initialise", !.task = "init", !.year = year,
                                           !.todo = Employees]
    OBVIOUS
  <2>3. k \in Yearly!CallerState /\ k.op = "initialise" /\ k.task = "init" /\ k.todo = Employees
    BY <2>2, AtRestFits DEF Yearly!CallerState
  <2>4. CallerFits(k)
    BY <2>3 DEF CallerFits
  <2> QED BY <1>1, <2>1, <2>2, <2>3, <2>4, ReadingFits DEF Yearly!InitializeYear
<1>2. CASE Yearly!InitializeOne(c)
  <2>1. PICK x : x = served[c]
    OBVIOUS
  <2>2. x \in Yearly!CallerState /\ CallerFits(x) /\ x.task = "init" /\ x.op = "initialise"
    BY <1>2, <2>1, YearFacts DEF Yearly!InitializeOne, CallerFits
  <2>3. PICK e \in x.todo :
          IF balances[<<e, x.year>>].exists
          THEN Yearly!Go(c, [x EXCEPT !.todo = Yearly!Skipped(x.todo, e)])
          ELSE Yearly!Go(c, [x EXCEPT !.task = "insert", !.of = e, !.todo = x.todo \ {e}])
    BY <1>2, <2>1 DEF Yearly!InitializeOne
  <2>4. UNCHANGED <<balances, mails, today>>
    BY <1>2 DEF Yearly!InitializeOne
  <2>5. CASE balances[<<e, x.year>>].exists
    <3>1. PICK k : k = [x EXCEPT !.todo = x.todo \ {e}]
      OBVIOUS
    <3>2. Yearly!Go(c, k)
      BY <2>3, <2>5, <3>1 DEF Yearly!Skipped
    <3>3. /\ k \in Yearly!CallerState /\ k.op = x.op /\ k.task = x.task /\ k.todo = x.todo \ {e}
          /\ k.year = x.year
      BY <2>2, <3>1 DEF Yearly!CallerState
    <3>4. \A o \in Employees \ k.todo : balances[<<o, k.year>>].exists
      BY <2>2, <2>5, <3>3 DEF CallerFits
    <3>5. CallerFits(k)
      BY <2>2, <3>3, <3>4 DEF CallerFits
    <3> QED BY <2>1, <2>4, <3>2, <3>3, <3>5, ReadingFits
  <2>6. CASE ~balances[<<e, x.year>>].exists
    <3>1. PICK k : k = [x EXCEPT !.task = "insert", !.of = e, !.todo = x.todo \ {e}]
      OBVIOUS
    <3>2. Yearly!Go(c, k)
      BY <2>3, <2>6, <3>1
    <3>3. /\ k \in Yearly!CallerState /\ k.op = x.op /\ k.task = "insert" /\ k.of = e
          /\ k.todo = x.todo \ {e} /\ k.year = x.year /\ e \in Employees
      BY <2>2, <3>1 DEF Yearly!CallerState
    <3>4. \A o \in Employees \ k.todo : balances[<<o, k.year>>].exists \/ o = e
      BY <2>2, <3>3 DEF CallerFits
    <3>5. CallerFits(k)
      BY <2>2, <3>3, <3>4 DEF CallerFits
    <3> QED BY <2>1, <2>4, <3>2, <3>3, <3>5, ReadingFits
  <2> QED BY <2>5, <2>6
<1>3. CASE Yearly!Initialized(c)
  BY <1>3, YearReturnFits DEF Yearly!Initialized
<1> QED BY <1>1, <1>2, <1>3

LEMMA RunReminderFits ==
  ASSUME YearInv, RemindersApart, NEW c \in Callers, Yearly!RunReminder(c)
  PROVE  YearInv'
<1>1. PICK y, due, loaded, todo, k :
        /\ y = today.year /\ due = today.tier
        /\ loaded = [e \in Employees |-> balances[<<e, y>>]]
        /\ todo = {e \in Employees : balances[<<e, y>>].exists}
        /\ k = [Yearly!AtRest EXCEPT !.op = "remind", !.task = "mail", !.year = y, !.due = due,
                                     !.loaded = loaded, !.todo = todo]
  OBVIOUS
<1>2. Yearly!Go(c, k) /\ UNCHANGED <<balances, mails, today>>
  BY <1>1 DEF Yearly!RunReminder
<1>3. y \in Years /\ due \in Tiers
  <2>1. today \in [year : Years, tier : Tiers \cup {0}] /\ today.tier > 0
    BY DEF YearInv, Yearly!TypeOK, Yearly!RunReminder
  <2>2. today.year \in Years /\ today.tier \in Tiers \cup {0}
    BY <2>1
  <2> QED BY <1>1, <2>1, <2>2
<1>4. loaded \in [Employees -> Yearly!Balance] /\ todo \in SUBSET Employees
  BY <1>1, <1>3, YearFacts
<1>5. /\ k \in Yearly!CallerState /\ k.op = "remind" /\ k.task = "mail" /\ k.year = y
      /\ k.due = due /\ k.loaded = loaded /\ k.todo = todo
  BY <1>1, <1>3, <1>4, AtRestFits DEF Yearly!CallerState
<1>6. CallerFits(k)
  <2>1. \A e \in todo : loaded[e] = balances[<<e, y>>] /\ balances[<<e, y>>].exists
    BY <1>1
  <2> QED BY <1>3, <1>5, <2>1 DEF CallerFits
<1>7. \A d \in Callers : served[d].op \notin {"remind", "boost"}
  BY DEF Yearly!RunReminder, Yearly!MayStart, RemindersApart
<1> QED BY <1>2, <1>5, <1>6, <1>7, ReadingFits

LEMMA RemindOneFits ==
  ASSUME YearInv, NEW c \in Callers, Yearly!RemindOne(c) \/ Yearly!Reminded(c)
  PROVE  YearInv'
<1>1. CASE Yearly!Reminded(c)
  BY <1>1, YearReturnFits DEF Yearly!Reminded
<1>2. CASE Yearly!RemindOne(c)
  <2>1. PICK x : x = served[c]
    OBVIOUS
  <2>2. /\ x \in Yearly!CallerState /\ CallerFits(x) /\ x.task = "mail" /\ x.op = "remind"
        /\ x.due \in Tiers
    BY <1>2, <2>1, YearFacts DEF Yearly!RemindOne, CallerFits
  <2>3. PICK e \in x.todo :
          /\ Yearly!Go(c, [x EXCEPT !.todo = x.todo \ {e}])
          /\ \/ /\ Yearly!Behind(x.loaded[e], x.due)
                /\ balances' = [balances EXCEPT ![<<e, x.year>>] =
                      [x.loaded[e] EXCEPT !.lastReminderCheckpoint = x.due]]
                /\ mails' = [mails EXCEPT ![<<<<e, x.year>>, x.due>>] = @ + 1]
             \/ UNCHANGED <<balances, mails>>
    BY <1>2, <2>1 DEF Yearly!RemindOne
  <2>4. PICK k : k = [x EXCEPT !.todo = x.todo \ {e}]
    OBVIOUS
  <2>5. /\ k \in Yearly!CallerState /\ k.op = "remind" /\ k.task = "mail" /\ k.due = x.due
        /\ k.todo = x.todo \ {e} /\ k.year = x.year /\ k.loaded = x.loaded /\ e \in Employees
    BY <2>2, <2>4 DEF Yearly!CallerState
  <2>6. Yearly!Go(c, k) /\ UNCHANGED today
    BY <1>2, <2>3, <2>4 DEF Yearly!RemindOne
  <2>7. CASE UNCHANGED <<balances, mails>>
    <3>1. CallerFits(k)
      BY <2>2, <2>5 DEF CallerFits
    <3> QED BY <2>1, <2>2, <2>5, <2>6, <2>7, <3>1, ReadingFits
  <2>8. CASE /\ Yearly!Behind(x.loaded[e], x.due)
             /\ balances' = [balances EXCEPT ![<<e, x.year>>] =
                   [x.loaded[e] EXCEPT !.lastReminderCheckpoint = x.due]]
             /\ mails' = [mails EXCEPT ![<<<<e, x.year>>, x.due>>] = @ + 1]
    <3>1. PICK a, old, row :
            /\ a = <<e, x.year>> /\ old = x.loaded[e]
            /\ row = [old EXCEPT !.lastReminderCheckpoint = x.due]
      OBVIOUS
    <3>2. /\ a \in Yearly!Accounts /\ old \in Yearly!Balance /\ old.exists /\ balances[a].exists
          /\ old.lastReminderCheckpoint = balances[a].lastReminderCheckpoint
          /\ old.lastReminderCheckpoint < x.due
      BY <2>2, <2>5, <2>8, <3>1
         DEF CallerFits, Yearly!CallerState, Yearly!Accounts, Yearly!Behind
    <3>3. row \in Yearly!Balance /\ row.exists /\ row.lastReminderCheckpoint = x.due
      BY <2>2, <3>1, <3>2 DEF Yearly!Balance
    <3>4. balances' = [balances EXCEPT ![a] = row] /\ mails' = [mails EXCEPT ![<<a, x.due>>] = @ + 1]
      BY <2>8, <3>1
    <3>5. /\ balances' \in [Yearly!Accounts -> Yearly!Balance]
          /\ \A b \in Yearly!Accounts : balances'[b] = IF b = a THEN row ELSE balances[b]
      BY <3>2, <3>3, <3>4, YearFacts
    <3>6. /\ mails \in [Yearly!Accounts \X Tiers -> Nat] /\ mails' \in [Yearly!Accounts \X Tiers -> Nat]
          /\ \A m \in Yearly!Accounts \X Tiers :
               mails'[m] = IF m = <<a, x.due>> THEN mails[m] + 1 ELSE mails[m]
      BY <2>2, <3>2, <3>4 DEF YearInv, Yearly!TypeOK
    <3>7. /\ served' \in [Callers -> Yearly!CallerState]
          /\ \A d \in Callers : served'[d] = IF d = c THEN k ELSE served[d]
      BY <2>5, <2>6, CallerSet
    <3>8. RunsAlone'
      BY <2>1, <2>2, <2>5, <3>7 DEF YearInv, RunsAlone
    <3>9. ASSUME NEW b \in Yearly!Accounts, NEW t \in Tiers PROVE MailFits(b, t)'
      <4>1. MailFits(b, t) /\ <<b, t>> \in Yearly!Accounts \X Tiers /\ mails[<<b, t>>] \in Nat
        BY <3>6 DEF YearInv
      <4>2. CASE b # a
        BY <3>5, <3>6, <4>1, <4>2 DEF MailFits
      <4>3. CASE b = a /\ t # x.due
        <5>1. mails'[<<b, t>>] = mails[<<b, t>>]
          BY <3>6, <4>1, <4>3
        <5>2. mails[<<b, t>>] # 0 => x.due >= t
          BY <2>2, <3>2, <4>1, <4>3, TierNumbers, YearFacts DEF MailFits
        <5> QED BY <3>3, <3>5, <4>1, <4>3, <5>1, <5>2 DEF MailFits
      <4>4. CASE b = a /\ t = x.due
        <5>1. mails[<<b, t>>] = 0
          BY <2>2, <3>2, <4>1, <4>4, TierNumbers, YearFacts DEF MailFits
        <5>2. mails'[<<b, t>>] = 1
          BY <3>6, <4>1, <4>4, <5>1
        <5> QED BY <2>2, <3>3, <3>5, <4>4, <5>2, TierNumbers DEF MailFits
      <4> QED BY <4>2, <4>3, <4>4
    <3>10. ASSUME NEW d \in Callers PROVE CallerFits(served[d])'
      <4>1. CASE d = c
        <5>1. \A o \in k.todo :
                /\ balances'[<<o, k.year>>].exists /\ k.loaded[o].exists
                /\ k.loaded[o].lastReminderCheckpoint
                     = balances'[<<o, k.year>>].lastReminderCheckpoint
          <6> SUFFICES ASSUME NEW o \in k.todo
                       PROVE  /\ balances'[<<o, k.year>>].exists /\ k.loaded[o].exists
                              /\ k.loaded[o].lastReminderCheckpoint
                                   = balances'[<<o, k.year>>].lastReminderCheckpoint
            OBVIOUS
          <6>1. o \in x.todo /\ o # e /\ <<o, x.year>> \in Yearly!Accounts /\ <<o, x.year>> # a
            BY <2>2, <2>5, <3>1 DEF Yearly!CallerState, Yearly!Accounts
          <6> QED BY <2>2, <2>5, <3>5, <6>1 DEF CallerFits
        <5>2. served'[d] = k
          BY <3>7, <4>1
        <5> QED BY <2>2, <2>5, <5>1, <5>2 DEF CallerFits, BalanceOf
      <4>2. CASE d # c
        <5>1. PICK z : z = served[d]
          OBVIOUS
        <5>2. /\ z \in Yearly!CallerState /\ CallerFits(z) /\ z.op \notin {"remind", "boost"}
              /\ served'[d] = z
          BY <2>1, <2>2, <3>7, <4>2, <5>1, YearFacts DEF YearInv, RunsAlone
        <5>3. z.op = "initialise" =>
                \A o \in Employees \ z.todo :
                  balances'[<<o, z.year>>].exists \/ (z.task = "insert" /\ z.of = o)
          BY <3>3, <3>5, <5>2, YearFacts DEF CallerFits, Yearly!CallerState
        <5> QED BY <5>2, <5>3 DEF CallerFits, BalanceOf
      <4> QED BY <4>1, <4>2
    <3>11. Yearly!TypeOK'
      BY <2>6, <3>5, <3>6, <3>7
         DEF YearInv, Yearly!TypeOK, Yearly!Accounts, Yearly!Balance, Yearly!CallerState
    <3> QED BY <3>8, <3>9, <3>10, <3>11 DEF YearInv, Yearly!Accounts
  <2> QED BY <2>3, <2>7, <2>8
<1> QED BY <1>1, <1>2

LEMMA TomorrowFits ==
  ASSUME YearInv, Yearly!Tomorrow \/ UNCHANGED Yearly!vars
  PROVE  YearInv'
<1>1. UNCHANGED <<balances, served, mails>> /\ today' \in [year : Years, tier : Tiers \cup {0}]
  BY DEF Yearly!Tomorrow, Yearly!vars, YearInv, Yearly!TypeOK
<1>2. Yearly!TypeOK'
  BY <1>1 DEF YearInv, Yearly!TypeOK, Yearly!Accounts, Yearly!Balance, Yearly!CallerState
<1>3. RunsAlone' /\ \A c \in Callers : CallerFits(served[c])'
  BY <1>1 DEF YearInv, RunsAlone, CallerFits, BalanceOf
<1>4. ASSUME NEW a \in Yearly!Accounts, NEW t \in Tiers PROVE MailFits(a, t)'
  BY <1>1 DEF YearInv, MailFits
<1> QED BY <1>2, <1>3, <1>4 DEF YearInv, Yearly!Accounts

LEMMA YearStep ==
  ASSUME YearInv, RemindersApart, [Yearly!Next]_(Yearly!vars)
  PROVE  YearInv'
  BY GetOrCreateFits, UpdateBoostFits, InsertFits, BoostSaveFits, InitializeFits, RunReminderFits,
     RemindOneFits, TomorrowFits
     DEF Yearly!Next

\* Only its own steps move a handler.
LEMMA CallerMoves ==
  ASSUME YearInv, [Yearly!Next]_(Yearly!vars), NEW c \in Callers, served'[c] # served[c]
  PROVE  \/ Yearly!GetOrCreate(c) \/ Yearly!UpdateBoost(c) \/ Yearly!Insert(c) \/ Yearly!Save(c)
         \/ Yearly!InitializeYear(c) \/ Yearly!InitializeOne(c) \/ Yearly!Initialized(c)
         \/ Yearly!RunReminder(c) \/ Yearly!RemindOne(c) \/ Yearly!Reminded(c)
<1>1. served' # served
  OBVIOUS
<1>2. PICK d \in Callers :
         \/ Yearly!GetOrCreate(d) \/ Yearly!UpdateBoost(d) \/ Yearly!Insert(d) \/ Yearly!Save(d)
         \/ Yearly!InitializeYear(d) \/ Yearly!InitializeOne(d) \/ Yearly!Initialized(d)
         \/ Yearly!RunReminder(d) \/ Yearly!RemindOne(d) \/ Yearly!Reminded(d)
  BY <1>1 DEF Yearly!Next, Yearly!vars, Yearly!Tomorrow
<1>3. PICK k : served' = [served EXCEPT ![d] = k]
  <2>1. CASE Yearly!GetOrCreate(d) \/ Yearly!UpdateBoost(d)
    BY <2>1 DEF Yearly!GetOrCreate, Yearly!UpdateBoost, Yearly!Go, Yearly!Return
  <2>2. CASE Yearly!Insert(d)
    BY <2>2 DEF Yearly!Insert, Yearly!Go, Yearly!Return
  <2>3. CASE Yearly!Save(d) \/ Yearly!Initialized(d) \/ Yearly!Reminded(d)
    BY <2>3 DEF Yearly!Save, Yearly!Initialized, Yearly!Reminded, Yearly!Go, Yearly!Return
  <2>4. CASE Yearly!InitializeYear(d) \/ Yearly!InitializeOne(d)
    BY <2>4 DEF Yearly!InitializeYear, Yearly!InitializeOne, Yearly!Go
  <2>5. CASE Yearly!RunReminder(d) \/ Yearly!RemindOne(d)
    BY <2>5 DEF Yearly!RunReminder, Yearly!RemindOne, Yearly!Go
  <2> QED BY <1>2, <2>1, <2>2, <2>3, <2>4, <2>5
<1>4. d = c
  BY <1>3 DEF YearInv, Yearly!TypeOK
<1> QED BY <1>2, <1>4

LEMMA YearReturns ==
  ASSUME YearInv, [Yearly!Next]_(Yearly!vars), NEW c \in Callers,
         served[c].task = "init", served'[c] = Yearly!AtRest
  PROVE  \A e \in Employees : balances[<<e, served[c].year>>].exists
<1>1. PICK x : x = served[c]
  OBVIOUS
<1>2. x \in Yearly!CallerState /\ CallerFits(x) /\ x.task = "init" /\ x.op = "initialise"
  BY <1>1, YearFacts DEF CallerFits
<1>3. served'[c] # served[c]
  BY AtRestFits
<1>4. Yearly!Initialized(c) \/ Yearly!InitializeOne(c)
  BY <1>3, CallerMoves
     DEF Yearly!GetOrCreate, Yearly!UpdateBoost, Yearly!Insert, Yearly!Save, Yearly!InitializeYear,
         Yearly!RunReminder, Yearly!RemindOne, Yearly!Reminded, Yearly!MayStart
<1>5. ~Yearly!InitializeOne(c)
  <2> SUFFICES ASSUME Yearly!InitializeOne(c) PROVE FALSE
    OBVIOUS
  <2>1. PICK e, k : /\ k = [x EXCEPT !.todo = Yearly!Skipped(x.todo, e)]
                       \/ k = [x EXCEPT !.task = "insert", !.of = e, !.todo = x.todo \ {e}]
                    /\ Yearly!Go(c, k)
    BY <1>1 DEF Yearly!InitializeOne
  <2>2. k.task # "none"
    BY <1>2, <2>1 DEF Yearly!CallerState
  <2>3. served'[c] = k
    BY <2>1 DEF Yearly!Go, YearInv, Yearly!TypeOK
  <2> QED BY <2>2, <2>3, AtRestFits
<1>6. x.todo = {}
  BY <1>1, <1>4, <1>5 DEF Yearly!Initialized
<1> QED BY <1>1, <1>2, <1>6 DEF CallerFits

LEMMA YearCreates ==
  ASSUME YearInv, [Yearly!Next]_(Yearly!vars), NEW c \in Callers,
         served[c].task = "insert", served'[c] # served[c], balances' # balances
  PROVE  ~balances[<<served[c].of, served[c].year>>].exists
<1>1. Yearly!Insert(c)
  BY CallerMoves
     DEF Yearly!GetOrCreate, Yearly!UpdateBoost, Yearly!Save, Yearly!InitializeYear,
         Yearly!InitializeOne, Yearly!Initialized, Yearly!RunReminder, Yearly!RemindOne,
         Yearly!Reminded, Yearly!MayStart
<1> QED BY <1>1 DEF Yearly!Insert, Yearly!Inserts

\* Runs of the reminder that overlap neither each other nor a change of a boost mail
\* nobody one tier twice; an initialisation that returns left nobody out, and no
\* balance is replaced by the creation of one.
THEOREM RemindedOnce ==
  RemindersApart /\ Yearly!Spec => [](Yearly!TypeOK /\ OneReminderPerTier) /\ BalancesStand
<1> SUFFICES ASSUME RemindersApart
             PROVE  Yearly!Spec => [](Yearly!TypeOK /\ OneReminderPerTier) /\ BalancesStand
  OBVIOUS
<1>1. Yearly!Init => YearInv
  <2> SUFFICES ASSUME Yearly!Init PROVE YearInv
    OBVIOUS
  <2>1. today.year \in Years /\ today = [year |-> today.year, tier |-> 0]
    BY CommunityAssumption DEF Yearly!Init
  <2>2. Yearly!Missing \in Yearly!Balance
    BY DEF Yearly!Missing, Yearly!Balance
  <2>3. Yearly!TypeOK
    BY <2>1, <2>2, AtRestFits DEF Yearly!Init, Yearly!TypeOK
  <2>4. \A c \in Callers : served[c] = Yearly!AtRest
    BY DEF Yearly!Init
  <2>5. RunsAlone /\ \A c \in Callers : CallerFits(served[c])
    BY <2>4, AtRestFits DEF RunsAlone
  <2>6. \A a \in Yearly!Accounts, t \in Tiers : MailFits(a, t)
    BY DEF Yearly!Init, MailFits
  <2> QED BY <2>3, <2>5, <2>6 DEF YearInv
<1>2. YearInv /\ [Yearly!Next]_(Yearly!vars) => YearInv'
  BY YearStep
<1>3. YearInv => Yearly!TypeOK /\ OneReminderPerTier
  <2> SUFFICES ASSUME YearInv, NEW m \in DOMAIN mails PROVE mails[m] <= 1
    BY DEF YearInv, OneReminderPerTier, Yearly!OneReminderPerTier
  <2>1. m \in Yearly!Accounts \X Tiers
    BY DEF YearInv, Yearly!TypeOK
  <2>2. PICK a \in Yearly!Accounts, t \in Tiers : m = <<a, t>>
    BY <2>1
  <2> QED BY <2>2 DEF YearInv, MailFits
<1>4. YearInv /\ [Yearly!Next]_(Yearly!vars) =>
        [\A c \in Callers :
           (served[c].task = "init" /\ served'[c] = Yearly!AtRest)
             => \A e \in Employees : balances[<<e, served[c].year>>].exists]_(Yearly!vars)
  BY YearReturns
<1>5. YearInv /\ [Yearly!Next]_(Yearly!vars) =>
        [\A c \in Callers :
           (served[c].task = "insert" /\ served'[c] # served[c] /\ balances' # balances)
             => ~balances[<<served[c].of, served[c].year>>].exists]_(Yearly!vars)
  BY YearCreates
<1> QED
  BY <1>1, <1>2, <1>3, <1>4, <1>5, PTL
     DEF Yearly!Spec, BalancesStand, Yearly!YearIsComplete, Yearly!CreationKeepsBalances

-----------------------------------------------------------------------------
(* The Video Guide *)

GuideCall ==
  [task : {"none", "publish", "save"}, ids : SUBSET Videos, row : Guide!Tutorial, was : BOOLEAN]

\* What a handler will make public without a mail was announced when it was loaded.
GuideCallFits(k) ==
  /\ k.task # "none" => k.row.there
  /\ k.task = "publish" /\ k.was => k.ids \subseteq announced \cup seeded
  /\ k.task = "save" /\ Guide!IsPubliclyVisible(k.row) => k.ids \subseteq announced \cup seeded

GuideInv ==
  /\ tutorials \in [Videos -> Guide!Tutorial] /\ announced \cup seeded \subseteq Videos
  /\ guideCall \in [Callers -> GuideCall]
  /\ \A c \in Callers : GuideCallFits(guideCall[c])
  /\ PublicWasAnnounced

LEMMA GuideIdle ==
  /\ Guide!Idle \in GuideCall /\ Guide!Idle.task = "none" /\ Guide!Idle.ids = {}
  BY DEF Guide!Idle, GuideCall, Guide!Tutorial, Guide!None, Guide!Titles

\* A new row of the table, without a handler on it.
LEMMA GuideRowFits ==
  ASSUME GuideInv, NEW i \in Videos, NEW row \in Guide!Tutorial,
         \A c \in Callers : i \notin guideCall[c].ids,
         tutorials' = [tutorials EXCEPT ![i] = row],
         announced' \cup seeded' \subseteq Videos,
         \A j \in Videos : j # i => (j \in announced' \cup seeded' <=> j \in announced \cup seeded),
         row.there /\ Guide!IsPubliclyVisible(row) => i \in announced' \cup seeded',
         UNCHANGED guideCall
  PROVE  GuideInv'
<1>1. tutorials' \in [Videos -> Guide!Tutorial]
  BY DEF GuideInv
<1>2. ASSUME NEW c \in Callers PROVE GuideCallFits(guideCall[c])'
  BY DEF GuideInv, GuideCallFits, GuideCall, Guide!IsPubliclyVisible
<1>3. PublicWasAnnounced'
  <2> SUFFICES ASSUME NEW j \in Videos, tutorials'[j].there, Guide!IsPubliclyVisible(tutorials'[j])
               PROVE  j \in announced' \cup seeded'
    BY DEF PublicWasAnnounced, Guide!PublicWasAnnounced, Guide!IsPubliclyVisible
  <2>1. CASE j = i
    BY <2>1 DEF GuideInv
  <2>2. CASE j # i
    BY <2>2 DEF GuideInv, PublicWasAnnounced, Guide!PublicWasAnnounced
  <2> QED BY <2>1, <2>2
<1> QED BY <1>1, <1>2, <1>3 DEF GuideInv

LEMMA GuideLoadFits ==
  ASSUME GuideInv, NEW c \in Callers, NEW i \in Videos, NEW task \in {"publish", "save"},
         NEW row \in Guide!Tutorial, row.there = tutorials[i].there,
         task = "save" => row = tutorials[i],
         Guide!Load(c, i, task, row)
  PROVE  GuideInv'
<1>1. PICK k : k = [task |-> task, ids |-> {i}, row |-> row,
                    was |-> Guide!WasVisible(tutorials[i], row)]
  OBVIOUS
<1>2. /\ tutorials[i].there /\ guideCall' = [guideCall EXCEPT ![c] = k]
      /\ UNCHANGED <<tutorials, announced, seeded>>
  BY <1>1 DEF Guide!Load
<1>3. k \in GuideCall
  <2>1. Guide!WasVisible(tutorials[i], row) \in BOOLEAN
    BY DEF Guide!WasVisible, Guide!IsPubliclyVisible, GuideInv, Guide!Tutorial
  <2> QED BY <1>1, <2>1 DEF GuideCall
<1>4. GuideCallFits(k)
  <2>1. Guide!IsPubliclyVisible(tutorials[i]) => i \in announced \cup seeded
    BY <1>2 DEF GuideInv, PublicWasAnnounced, Guide!PublicWasAnnounced
  <2> QED BY <1>1, <1>2, <2>1 DEF GuideCallFits, Guide!WasVisible
<1>5. GuideCallFits(k)'
  BY <1>2, <1>4 DEF GuideCallFits, Guide!IsPubliclyVisible
<1>6. \A d \in Callers : guideCall'[d] = IF d = c THEN k ELSE guideCall[d]
  BY <1>2 DEF GuideInv
<1>7. ASSUME NEW d \in Callers PROVE GuideCallFits(guideCall[d])'
  <2>1. CASE d = c
    BY <1>5, <1>6, <2>1 DEF GuideCallFits
  <2>2. CASE d # c
    BY <1>2, <1>6, <2>2 DEF GuideInv, GuideCallFits, Guide!IsPubliclyVisible
  <2> QED BY <2>1, <2>2
<1>8. guideCall' \in [Callers -> GuideCall]
  BY <1>2, <1>3 DEF GuideInv
<1>9. PublicWasAnnounced'
  BY <1>2 DEF GuideInv, PublicWasAnnounced, Guide!PublicWasAnnounced, Guide!IsPubliclyVisible
<1> QED BY <1>2, <1>7, <1>8, <1>9 DEF GuideInv

LEMMA GuideSaveFits ==
  ASSUME GuideInv, NEW c \in Callers, Guide!Save(c)
  PROVE  GuideInv'
<1>1. PICK f : f = guideCall[c]
  OBVIOUS
<1>2. f \in GuideCall /\ GuideCallFits(f) /\ f.task \in {"publish", "save"}
  BY <1>1 DEF GuideInv, Guide!Save
<1>3. PICK i \in f.ids :
        /\ tutorials' = [tutorials EXCEPT ![i] = f.row]
        /\ announced' = IF f.task = "publish" /\ ~f.was /\ Guide!IsPubliclyVisible(f.row)
                        THEN announced \cup {i} ELSE announced
  BY <1>1 DEF Guide!Save
<1>4. guideCall' = [guideCall EXCEPT ![c] = Guide!Idle] /\ UNCHANGED seeded
  BY DEF Guide!Save
<1>5. i \in Videos /\ f.row \in Guide!Tutorial /\ f.was \in BOOLEAN
  BY <1>2, <1>3 DEF GuideCall
<1>6. Guide!IsPubliclyVisible(f.row) => i \in announced' \cup seeded'
  BY <1>2, <1>3, <1>4, <1>5 DEF GuideCallFits
<1>7. \A d \in Callers : guideCall'[d] = IF d = c THEN Guide!Idle ELSE guideCall[d]
  BY <1>4 DEF GuideInv
<1>8. ASSUME NEW d \in Callers PROVE GuideCallFits(guideCall[d])'
  <2>1. CASE d = c
    BY <1>7, <2>1, GuideIdle DEF GuideCallFits
  <2>2. CASE d # c
    BY <1>3, <1>4, <1>7, <2>2 DEF GuideInv, GuideCallFits, Guide!IsPubliclyVisible
  <2> QED BY <2>1, <2>2
<1>9. PublicWasAnnounced'
  <2> SUFFICES ASSUME NEW j \in Videos, tutorials'[j].there, Guide!IsPubliclyVisible(tutorials'[j])
               PROVE  j \in announced' \cup seeded'
    BY DEF PublicWasAnnounced, Guide!PublicWasAnnounced, Guide!IsPubliclyVisible
  <2>1. CASE j = i
    BY <1>3, <1>5, <1>6, <2>1 DEF GuideInv
  <2>2. CASE j # i
    BY <1>3, <1>4, <1>5, <2>2 DEF GuideInv, PublicWasAnnounced, Guide!PublicWasAnnounced
  <2> QED BY <2>1, <2>2
<1>10. /\ tutorials' \in [Videos -> Guide!Tutorial] /\ announced' \cup seeded' \subseteq Videos
       /\ guideCall' \in [Callers -> GuideCall]
  BY <1>3, <1>4, <1>5, GuideIdle DEF GuideInv
<1> QED BY <1>8, <1>9, <1>10 DEF GuideInv

LEMMA GuideStep ==
  ASSUME GuideInv, [Guide!Next]_(Guide!vars)
  PROVE  GuideInv'
<1>1. ASSUME NEW i \in Videos, Guide!Create(i) PROVE GuideInv'
  <2>1. PICK active \in BOOLEAN, title \in Guide!Titles :
          tutorials' = [tutorials EXCEPT ![i] =
            [there |-> TRUE, title |-> title, active |-> active, video |-> FALSE]]
    BY <1>1 DEF Guide!Create
  <2>2. PICK row : row = [there |-> TRUE, title |-> title, active |-> active, video |-> FALSE]
    OBVIOUS
  <2>3. row \in Guide!Tutorial /\ ~Guide!IsPubliclyVisible(row)
    BY <2>2 DEF Guide!Tutorial, Guide!IsPubliclyVisible
  <2>4. /\ \A c \in Callers : i \notin guideCall[c].ids
        /\ announced' = announced \ {i} /\ seeded' = seeded \ {i} /\ UNCHANGED guideCall
    BY <1>1 DEF Guide!Create, Guide!New
  <2>5. tutorials' = [tutorials EXCEPT ![i] = row]
    BY <2>1, <2>2
  <2>6. announced' \cup seeded' \subseteq Videos
    BY <2>4 DEF GuideInv
  <2> QED BY <2>3, <2>4, <2>5, <2>6, GuideRowFits
<1>2. ASSUME NEW i \in Videos, Guide!Seed(i) PROVE GuideInv'
  <2>1. PICK s \in Seeds :
          tutorials' = [tutorials EXCEPT ![i] =
            [there |-> TRUE, title |-> s, active |-> TRUE, video |-> TRUE]]
    BY <1>2 DEF Guide!Seed
  <2>2. PICK row : row = [there |-> TRUE, title |-> s, active |-> TRUE, video |-> TRUE]
    OBVIOUS
  <2>3. row \in Guide!Tutorial
    BY <2>2 DEF Guide!Tutorial, Guide!Titles
  <2>4. /\ \A c \in Callers : i \notin guideCall[c].ids
        /\ announced' = announced \ {i} /\ seeded' = seeded \cup {i} /\ UNCHANGED guideCall
    BY <1>2 DEF Guide!Seed, Guide!New
  <2>5. tutorials' = [tutorials EXCEPT ![i] = row]
    BY <2>1, <2>2
  <2>6. announced' \cup seeded' \subseteq Videos
    BY <2>4 DEF GuideInv
  <2> QED BY <2>3, <2>4, <2>5, <2>6, GuideRowFits
<1>3. ASSUME NEW i \in Videos, Guide!Remove(i) PROVE GuideInv'
  <2>1. tutorials' = [tutorials EXCEPT ![i] = Guide!None] /\ UNCHANGED <<announced, seeded, guideCall>>
    BY <1>3 DEF Guide!Remove
  <2>2. Guide!None \in Guide!Tutorial /\ ~Guide!None.there
    BY DEF Guide!None, Guide!Tutorial, Guide!Titles
  <2>3. PublicWasAnnounced'
    BY <2>1, <2>2 DEF GuideInv, PublicWasAnnounced, Guide!PublicWasAnnounced, Guide!IsPubliclyVisible
  <2>4. \A c \in Callers : GuideCallFits(guideCall[c])'
    BY <2>1 DEF GuideInv, GuideCallFits, Guide!IsPubliclyVisible
  <2> QED BY <2>1, <2>2, <2>3, <2>4 DEF GuideInv
<1>4. ASSUME NEW c \in Callers, NEW i \in Videos,
             Guide!Update(c, i) \/ Guide!SaveVideo(c, i) \/ Guide!SaveThumbnail(c, i)
      PROVE  GuideInv'
  <2>1. tutorials[i] \in Guide!Tutorial
    BY DEF GuideInv
  <2>2. CASE Guide!Update(c, i)
    <3>1. PICK active \in BOOLEAN, title \in Guide!Titles :
            Guide!Load(c, i, "publish", [tutorials[i] EXCEPT !.active = active, !.title = title])
      BY <2>2 DEF Guide!Update
    <3>2. PICK row : row = [tutorials[i] EXCEPT !.active = active, !.title = title]
      OBVIOUS
    <3>3. row \in Guide!Tutorial /\ row.there = tutorials[i].there
      BY <2>1, <3>2 DEF Guide!Tutorial
    <3> QED BY <3>1, <3>2, <3>3, GuideLoadFits
  <2>3. CASE Guide!SaveVideo(c, i)
    <3>1. Guide!Load(c, i, "publish", [tutorials[i] EXCEPT !.video = TRUE])
      BY <2>3 DEF Guide!SaveVideo
    <3>2. PICK row : row = [tutorials[i] EXCEPT !.video = TRUE]
      OBVIOUS
    <3>3. row \in Guide!Tutorial /\ row.there = tutorials[i].there
      BY <2>1, <3>2 DEF Guide!Tutorial
    <3> QED BY <3>1, <3>2, <3>3, GuideLoadFits
  <2>4. CASE Guide!SaveThumbnail(c, i)
    <3>1. Guide!Load(c, i, "save", tutorials[i])
      BY <2>4 DEF Guide!SaveThumbnail
    <3>2. PICK row : row = tutorials[i]
      OBVIOUS
    <3> QED BY <2>1, <3>1, <3>2, GuideLoadFits
  <2> QED BY <1>4, <2>2, <2>3, <2>4
<1>5. CASE UNCHANGED Guide!vars
  BY <1>5 DEF Guide!vars, GuideInv, GuideCallFits, PublicWasAnnounced, Guide!PublicWasAnnounced,
              Guide!IsPubliclyVisible
<1> QED BY <1>1, <1>2, <1>3, <1>4, <1>5, GuideSaveFits DEF Guide!Next

\* However handlers interleave, what employees can see they were mailed about, unless
\* it came with the seed.
THEOREM AlwaysAnnounced == Guide!Spec => [](Guide!TypeOK /\ PublicWasAnnounced)
<1>1. Guide!Init => GuideInv
  BY GuideIdle
     DEF Guide!Init, GuideInv, GuideCallFits, PublicWasAnnounced, Guide!PublicWasAnnounced, Guide!None,
         Guide!Tutorial, Guide!Titles
<1>2. GuideInv /\ [Guide!Next]_(Guide!vars) => GuideInv'
  BY GuideStep
<1>3. GuideInv => Guide!TypeOK /\ PublicWasAnnounced
  BY DEF GuideInv, Guide!TypeOK, GuideCall
<1> QED BY <1>1, <1>2, <1>3, PTL DEF Guide!Spec

-----------------------------------------------------------------------------
(* The five side by side *)

\* A behaviour of the whole is, seen through the variables of a part, one of that part.
LEMMA PartsRun ==
  CommunitySpec => Spec /\ Posted!Spec /\ Board!Spec /\ Yearly!Spec /\ Guide!Spec
<1> DEFINE all == <<pageVars, feedVars, boardVars, balanceVars, guideVars>>
<1>1. CommunityInit => Init /\ Posted!Init /\ Board!Init /\ Yearly!Init /\ Guide!Init
  BY DEF CommunityInit
<1>2. [CommunityNext]_all => [Next]_vars
  BY DEF CommunityNext, pageVars
<1>3. [CommunityNext]_all => [Posted!Next]_(Posted!vars)
  BY DEF CommunityNext, feedVars, Posted!vars
<1>4. [CommunityNext]_all => [Board!Next]_(Board!vars)
  BY DEF CommunityNext, boardVars, Board!vars
<1>5. [CommunityNext]_all => [Yearly!Next]_(Yearly!vars)
  BY DEF CommunityNext, balanceVars, Yearly!vars
<1>6. [CommunityNext]_all => [Guide!Next]_(Guide!vars)
  BY DEF CommunityNext, guideVars, Guide!vars
<1> QED
  BY <1>1, <1>2, <1>3, <1>4, <1>5, <1>6, PTL
     DEF CommunitySpec, Spec, Posted!Spec, Board!Spec, Yearly!Spec, Guide!Spec

\* When edits and pins of a post do not overlap its deletion, nor runs of the reminder
\* each other or a change of a boost, everything Community promises holds.
THEOREM CommunityAlwaysStands ==
  /\ DeletionsApart /\ RemindersApart
  /\ CommunitySpec
  => /\ []TablesStand /\ []SteadyPostsOnce /\ []OneReminderPerTier /\ []PublicWasAnnounced
     /\ PostsStand /\ BalancesStand
<1> SUFFICES ASSUME DeletionsApart, RemindersApart
             PROVE  CommunitySpec =>
                      /\ []TablesStand /\ []SteadyPostsOnce /\ []OneReminderPerTier
                      /\ []PublicWasAnnounced /\ PostsStand /\ BalancesStand
  OBVIOUS
<1>1. /\ TypeOK /\ Posted!TypeOK /\ Posted!NoOrphans /\ Board!TypeOK /\ Board!AcknowledgedIsRead
      /\ Yearly!TypeOK /\ Guide!TypeOK
      => TablesStand
  BY DEF TablesStand
<1>2. Spec => []TypeOK /\ []SteadyPostsOnce
  BY FeedPagesType, SteadyPostsReadOnce
<1>3. Posted!Spec => [](Posted!TypeOK /\ Posted!NoOrphans) /\ PostsStand
  BY PostsAlwaysStand
<1>4. Yearly!Spec => [](Yearly!TypeOK /\ OneReminderPerTier) /\ BalancesStand
  BY RemindedOnce
<1> QED
  BY <1>1, <1>2, <1>3, <1>4, AcknowledgedAlwaysRead, AlwaysAnnounced, PartsRun, PTL

=============================================================================
