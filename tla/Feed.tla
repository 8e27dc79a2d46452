-------------------------------- MODULE Feed --------------------------------
(***************************************************************************)
(* The posts of the communities and what people do with them:              *)
(* community.service.ts over posts and the tables that hang on a post.     *)
(*                                                                         *)
(* A handler loads the post with its relations, checks, and then writes,   *)
(* one awaited statement at a time (call[c].todo). Editing and pinning     *)
(* save the whole loaded post, inserting it again when its row is gone.    *)
(* Texts are abstracted to whether there is one; markup can hold a text,   *)
(* be blank, or be nothing the sanitizer keeps.                            *)
(***************************************************************************)
EXTENDS Naturals, Sequences

CONSTANTS
  Posts,
  Types,        \* types of post in use
  Drafts,       \* what a request to create a post carries
  Edits,        \* what a request to edit one carries
  People,
  Members,      \* people who belong to the community
  Readers,      \* people who may see its posts
  Moderators,   \* its admins and the platform admins
  Values,       \* values of a reaction
  Options,      \* options of a poll
  Calls,        \* slots for handlers in flight
  Apart         \* pairs of operations that never run at the same time

VARIABLES
  posts,      \* the table posts, and whether its children are stored
  reactions,  \* the tables reactions, poll_votes and post_views, keyed by (post, user)
  votes,
  views,
  comments,   \* who has commented, and the reactions to those comments
  call        \* the handlers in flight

vars == <<posts, reactions, votes, views, comments, call>>
rows == <<posts, reactions, votes, views, comments>>

-----------------------------------------------------------------------------
(* Tables and the handlers' local state *)

Markup == {"none", "text", "blank"}

Post ==
  [exists : BOOLEAN, type : Types \cup {"none"}, author : People \cup {"none"},
   title : BOOLEAN, html : Markup, body : BOOLEAN, badge : BOOLEAN, pinned : BOOLEAN,
   praised : BOOLEAN, options : SUBSET Options]

NoPost ==
  [exists |-> FALSE, type |-> "none", author |-> "none", title |-> FALSE,
   html |-> "none", body |-> FALSE, badge |-> FALSE, pinned |-> FALSE,
   praised |-> FALSE, options |-> {}]

Keys == Posts \X People
NoRow == "none"

Ops == {"create", "update", "delete", "pin", "react", "vote", "comment", "reply", "seen"}

Idle == [op |-> "none", id |-> CHOOSE p \in Posts : TRUE, who |-> "none", post |-> NoPost,
         key |-> <<>>, value |-> NoRow, todo |-> <<>>]

Free(c) == call[c].op = "none"

MayStart(c, op) ==
  /\ Free(c)
  /\ \A d \in Calls : ~Free(d) => {op, call[d].op} \notin Apart

Start(c, op, p, u, todo) ==
  call' = [call EXCEPT ![c] = [Idle EXCEPT !.op = op, !.id = p, !.who = u, !.todo = todo]]

StartSaving(c, op, p, u, post, todo) ==
  call' = [call EXCEPT ![c] = [Idle EXCEPT !.op = op, !.id = p, !.who = u, !.post = post,
                                           !.todo = todo]]

StartToggle(c, op, p, key, value) ==
  call' = [call EXCEPT ![c] = [Idle EXCEPT !.op = op, !.id = p, !.key = key,
                                           !.value = value, !.todo = <<"row">>]]

Init ==
  /\ posts = [p \in Posts |-> NoPost]
  /\ reactions = [k \in Keys |-> NoRow]
  /\ votes = [k \in Keys |-> NoRow]
  /\ views = {}
  /\ comments = [written |-> {}, reactions |-> [k \in Keys \X People |-> NoRow]]
  /\ call = [c \in Calls |-> Idle]

-----------------------------------------------------------------------------
(* What a post must have *)

\* Faulty: markup is stored as it was sent.
AsSent(html) == html

\* sanitize and toPlainText
Sanitized(html) == IF html = "unsafe" THEN "none" ELSE html
PlainText(html) == html = "text"

HasBody(row) == row.html # "none" \/ row.body

\* validateEditedPost, on the merged row
ValidEdit(row) ==
  /\ row.type \in {"discussion", "praise"} => HasBody(row)
  /\ row.type \in {"question", "poll"} => row.title
  /\ row.type = "praise" => row.badge

Draft ==
  [title : BOOLEAN, html : Markup \cup {"unsafe"}, body : BOOLEAN, badge : BOOLEAN,
   praised : BOOLEAN, options : SUBSET Options]

\* validatePostByType, on the request as it came
ValidDraft(type, d) ==
  CASE type = "discussion" -> HasBody(d)
    [] type = "question" -> d.title
    [] type = "praise" -> d.praised /\ HasBody(d) /\ d.badge
    [] type = "poll" -> d.title /\ \E a, b \in d.options : a # b

NewPost(type, u, d) ==
  [NoPost EXCEPT !.exists = TRUE, !.type = type, !.author = u, !.title = d.title,
                 !.html = Sanitized(d.html), !.body = d.body \/ PlainText(Sanitized(d.html)),
                 !.badge = type = "praise" /\ d.badge]

\* A column of an edit is omitted or sent, empty or not.
Sent == {"omitted", "empty", "some"}
Edit == [title : Sent, html : Markup \cup {"unsafe", "omitted"}, body : Sent, badge : Sent]

Merged(row, e) ==
  [row EXCEPT
     !.title = IF e.title = "omitted" THEN @ ELSE e.title = "some",
     !.html = IF e.html = "omitted" THEN @ ELSE Sanitized(e.html),
     !.body = IF e.html # "omitted" THEN e.body = "some" \/ PlainText(Sanitized(e.html))
              ELSE IF e.body # "omitted" THEN e.body = "some" ELSE @,
     !.badge = IF row.type = "praise" /\ e.badge # "omitted" THEN e.badge = "some" ELSE @]

-----------------------------------------------------------------------------
(* Writing posts *)

\* createPost, with the children persistPostChildren stores after the post.
CreatePost(c, p, u) ==
  /\ MayStart(c, "create") /\ u \in Members
  /\ ~posts[p].exists /\ \A d \in Calls : call[d].id # p \/ Free(d)
  /\ \E type \in Types, d \in Drafts :
       /\ ValidDraft(type, d)
       /\ StartSaving(c, "create", p, u,
            [NewPost(type, u, d) EXCEPT !.praised = type = "praise",
                                        !.options = IF type = "poll" THEN d.options ELSE {}],
            <<"insert", "praised", "options">>)
  /\ UNCHANGED rows

\* Faulty: what the request carries is checked, not what will be stored.
MayStoreSent(row, e) ==
  /\ row.type \in {"discussion", "praise"} => e.html # "none" \/ e.body # "empty"
  /\ e.title # "empty" /\ e.badge # "empty"

MayStore(row, e) == ValidEdit(Merged(row, e))

\* updatePost; the people praised are replaced when the request names some.
UpdatePost(c, p, u) ==
  /\ MayStart(c, "update") /\ posts[p].exists /\ posts[p].author = u
  /\ \E e \in Edits :
       /\ MayStore(posts[p], e)
       /\ \/ StartSaving(c, "update", p, u, Merged(posts[p], e), <<"save">>)
          \/ /\ posts[p].type = "praise"
             /\ StartSaving(c, "update", p, u, [Merged(posts[p], e) EXCEPT !.praised = TRUE],
                            <<"save", "unpraise", "praised">>)
  /\ UNCHANGED rows

TogglePin(c, p, u) ==
  /\ MayStart(c, "pin") /\ posts[p].exists /\ u \in Moderators
  /\ StartSaving(c, "pin", p, u, [posts[p] EXCEPT !.pinned = ~@], <<"save">>)
  /\ UNCHANGED rows

DeletePost(c, p, u) ==
  /\ MayStart(c, "delete") /\ posts[p].exists
  /\ u = posts[p].author \/ u \in Moderators
  /\ Start(c, "delete", p, u, <<"delete">>)
  /\ UNCHANGED rows

-----------------------------------------------------------------------------
(* Interactions. What the toggle will write is decided from the row it finds. *)

Visible(p, u) == posts[p].exists /\ u \in Readers

Toggled(existing, value) == IF existing = value THEN NoRow ELSE value

React(c, p, u) ==
  /\ MayStart(c, "react") /\ Visible(p, u)
  /\ \E value \in Values :
       StartToggle(c, "react", p, <<p, u>>, Toggled(reactions[<<p, u>>], value))
  /\ UNCHANGED rows

Vote(c, p, u) ==
  /\ MayStart(c, "vote") /\ Visible(p, u) /\ posts[p].type = "poll"
  /\ \E option \in posts[p].options :
       StartToggle(c, "vote", p, <<p, u>>, Toggled(votes[<<p, u>>], option))
  /\ UNCHANGED rows

\* One comment of a person on a post stands for all of them.
AddComment(c, p, u) ==
  /\ MayStart(c, "comment") /\ Visible(p, u)
  /\ StartToggle(c, "comment", p, <<p, u>>, NoRow)
  /\ UNCHANGED rows

MarkSeen(c, p, u) ==
  /\ MayStart(c, "seen") /\ Visible(p, u)
  /\ StartToggle(c, "seen", p, <<p, u>>, NoRow)
  /\ UNCHANGED rows

ReactToComment(c, p, u) ==
  /\ MayStart(c, "reply") /\ Visible(p, u)
  /\ \E a \in People, value \in Values :
       /\ <<p, a>> \in comments.written
       /\ StartToggle(c, "reply", p, <<<<p, a>>, u>>,
                      Toggled(comments.reactions[<<<<p, a>>, u>>], value))
  /\ UNCHANGED rows

-----------------------------------------------------------------------------
(* The writes *)

Store(p, row) == [posts EXCEPT ![p] = row]

\* The rows that hang on a post go with it.
Cascade(p) ==
  /\ reactions' = [k \in Keys |-> IF k[1] = p THEN NoRow ELSE reactions[k]]
  /\ votes' = [k \in Keys |-> IF k[1] = p THEN NoRow ELSE votes[k]]
  /\ views' = {k \in views : k[1] # p}
  /\ comments' = [written |-> {k \in comments.written : k[1] # p},
                  reactions |-> [k \in Keys \X People |->
                                   IF k[1][1] = p THEN NoRow ELSE comments.reactions[k]]]

\* Faulty: a new reaction is counted in the post, which is saved.
TouchAndSave(c) == Store(call[c].id, [call[c].post EXCEPT !.exists = TRUE])

\* What storing a row that hangs on a post does to the posts.
Touch(c) == posts

\* Faulty: the tables have no foreign keys.
NoForeignKeys(c) == TRUE

\* The foreign key is checked when the row is stored.
ParentExists(c) ==
  /\ posts[call[c].id].exists
  /\ call[c].op = "reply" => call[c].key[1] \in comments.written

\* Clearing a reaction or a vote is a delete; everything else stores a row.
Clears(c) == call[c].op \in {"react", "vote", "reply"} /\ call[c].value = NoRow

WriteRow(c) ==
  LET k == call[c].key  value == call[c].value IN
  /\ posts' = Touch(c)
  /\ IF ~Clears(c) => ParentExists(c)
     THEN /\ reactions' = IF call[c].op = "react" THEN [reactions EXCEPT ![k] = value] ELSE reactions
          /\ votes' = IF call[c].op = "vote" THEN [votes EXCEPT ![k] = value] ELSE votes
          /\ views' = IF call[c].op = "seen" THEN views \cup {k} ELSE views
          /\ comments' = CASE call[c].op = "comment" -> [comments EXCEPT !.written = @ \cup {k}]
                           [] call[c].op = "reply" -> [comments EXCEPT !.reactions[k] = value]
                           [] OTHER -> comments
     ELSE UNCHANGED <<reactions, votes, views, comments>>

\* The post itself comes first, its children in statements of their own.
WritePost(c) ==
  LET p == call[c].id  post == call[c].post IN
  /\ UNCHANGED <<reactions, votes, views, comments>>
  /\ posts' = CASE Head(call[c].todo) = "insert" ->
                     Store(p, [post EXCEPT !.praised = FALSE, !.options = {}])
                [] Head(call[c].todo) = "save" ->
                     Store(p, [post EXCEPT !.praised = posts[p].praised,
                                           !.options = posts[p].options])
                [] posts[p].exists /\ Head(call[c].todo) = "unpraise" ->
                     [posts EXCEPT ![p].praised = FALSE]
                [] posts[p].exists /\ Head(call[c].todo) = "praised" ->
                     [posts EXCEPT ![p].praised = post.praised]
                [] posts[p].exists /\ Head(call[c].todo) = "options" ->
                     [posts EXCEPT ![p].options = post.options]
                [] OTHER -> posts

\* A row whose post is gone ends the handler; so does its last write.
Write(c) ==
  LET do == Head(call[c].todo)  rest == Tail(call[c].todo)
      refused == do \in {"praised", "options"} /\ ~posts[call[c].id].exists
  IN
  /\ ~Free(c)
  /\ \/ do = "row" /\ WriteRow(c)
     \/ do = "delete" /\ posts' = Store(call[c].id, NoPost) /\ Cascade(call[c].id)
     \/ do \notin {"row", "delete"} /\ WritePost(c)
  /\ call' = [call EXCEPT ![c] = IF refused \/ rest = <<>> THEN Idle
                                 ELSE [@ EXCEPT !.todo = rest]]

Restart == (\E c \in Calls : ~Free(c)) /\ call' = [c \in Calls |-> Idle] /\ UNCHANGED rows

Next ==
  \/ \E c \in Calls, p \in Posts, u \in People :
       \/ CreatePost(c, p, u) \/ UpdatePost(c, p, u) \/ TogglePin(c, p, u)
       \/ DeletePost(c, p, u) \/ React(c, p, u) \/ Vote(c, p, u)
       \/ AddComment(c, p, u) \/ ReactToComment(c, p, u) \/ MarkSeen(c, p, u)
  \/ \E c \in Calls : Write(c)
  \/ Restart

Spec == Init /\ [][Next]_vars

-----------------------------------------------------------------------------
(* Properties *)

\* Every table and every handler in flight has its type.
TypeOK ==
  /\ posts \in [Posts -> Post]
  /\ reactions \in [Keys -> Values \cup {NoRow}] /\ votes \in [Keys -> Options \cup {NoRow}]
  /\ comments.written \subseteq Keys /\ views \subseteq Keys
  /\ \A c \in Calls : call[c].op \in Ops \cup {"none"} /\ call[c].post \in Post

\* Edits that race, each of part of the columns, never take from a post what its
\* type requires: every edit saves a whole row that was checked as merged. (A post
\* created of markup the sanitizer drops may lack it, and a pin that loaded such a
\* post may write that back.)
EditsKeepRequirements ==
  [][\A p \in Posts :
       /\ posts[p].exists /\ posts'[p].exists /\ ValidEdit(posts[p])
       /\ \A c \in Calls : call[c].op = "pin" => ValidEdit(call[c].post)
       => ValidEdit(posts'[p])]_vars

\* Reacting, voting and commenting, racing with the deletion of the post, never
\* bring it back.
DeletedPostsStayDeleted ==
  [][\A p \in Posts : ~posts[p].exists /\ posts'[p].exists =>
       \E c \in Calls : call[c].op = "create" /\ call[c].id = p]_vars

\* Nor do they leave a row behind that hangs on no post.
NoOrphans ==
  \A k \in Keys :
    /\ reactions[k] # NoRow \/ votes[k] # NoRow \/ k \in comments.written \cup views => posts[k[1]].exists
    /\ \A u \in People : comments.reactions[<<k, u>>] # NoRow => k \in comments.written

=============================================================================
