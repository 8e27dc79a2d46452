--------------------------- MODULE CommunityNotifier ---------------------------
(***************************************************************************)
(* Who hears of a post, a comment, a reaction or a decision on a request   *)
(* to join: community-notifier.service.ts. A handler that changed a        *)
(* community starts a notice and does not wait for it; the notice stores   *)
(* bell entries, then sends mails, then a live update, and what fails is   *)
(* only logged.                                                            *)
(***************************************************************************)
EXTENDS Integers, FiniteSets

CONSTANTS
  Persons,     \* users
  Gone,        \* of them, accounts a client may still name though deleted
  Notices,     \* slots for notices, each used once
  Insiders     \* members of the community at the start

VARIABLES
  notice,    \* the notices
  members,   \* community_members of the one community
  active,    \* accounts that are active
  bells,     \* bell entries stored: notice, person and reason, and how often
  mailed,    \* mails sent: notice and person
  live       \* live updates: notice and person

vars == <<notice, members, active, bells, mailed, live>>

Reasons == {"reply", "mention", "praise", "request", "decision", "added"}

Events == {"post", "comment", "reaction", "joinRequested", "decision", "added"}

NoNotice == [stage |-> "none", event |-> "post", actor |-> {}, first |-> {}, second |-> {},
             mails |-> {}]

Init ==
  /\ notice = [n \in Notices |-> NoNotice]
  /\ members = Insiders /\ active = Persons \ Gone
  /\ bells = [b \in Notices \X Persons \X Reasons |-> 0]
  /\ mailed = {} /\ live = {}

\* A notice: who did it, the bells of its first and second batch, and whom it mails.
Begin(n, event, actor, first, second, mails) ==
  /\ notice[n].stage = "none"
  /\ notice' = [notice EXCEPT ![n] =
       [stage |-> "first", event |-> event, actor |-> {actor},
        first |-> first, second |-> second, mails |-> mails]]
  /\ UNCHANGED <<members, active, bells, mailed, live>>

Bells(people, reason) == {[to |-> p, reason |-> reason] : p \in people}

-----------------------------------------------------------------------------
(* The events. Mentioned and praised people are as the client names them. *)

PostCreated(n, author) ==
  \E mentions, praises \in SUBSET Persons :
    LET mentioned == mentions \ {author}  praised == praises \ {author} IN
    Begin(n, "post", author, {}, Bells(mentioned, "mention") \cup Bells(praised, "praise"),
          mentioned \cup praised)

\* Faulty: the author of the post is told of the mention as well.
MentionedAnyway(mentions, commenter, author) == mentions \ {commenter}

\* The author has the reply notification already.
Mentioned(mentions, commenter, author) == mentions \ {commenter, author}

CommentAdded(n, commenter) ==
  \E author \in Persons, mentions \in SUBSET Persons :
    Begin(n, "comment", commenter, Bells({author} \ {commenter}, "reply"),
          Bells(Mentioned(mentions, commenter, author), "mention"), {})

ReactionChanged(n, actor) == Begin(n, "reaction", actor, {}, {}, {})

\* The admins of the community are any of its members here.
JoinRequested(n, requester) ==
  /\ requester \notin members
  /\ \E admins \in SUBSET members \ {{}} :
       Begin(n, "joinRequested", requester, {}, Bells(admins, "request"), {})

RequestDecided(n, admin) ==
  \E target \in Persons \ {admin} :
    Begin(n, "decision", admin, {}, Bells({target}, "decision"), {target})

AddedToCommunity(n, admin) ==
  \E added \in SUBSET (Persons \ {admin}) :
    added # {} /\ Begin(n, "added", admin, {}, Bells(added, "added"), added)

-----------------------------------------------------------------------------
(* Working a notice off *)

\* The bells that are being stored, and the notice once one of them is through.
Batch(n) == IF notice[n].stage = "first" THEN notice[n].first ELSE notice[n].second

Without(n, b) ==
  IF notice[n].stage = "first" THEN [notice[n] EXCEPT !.first = @ \ {b}]
  ELSE [notice[n] EXCEPT !.second = @ \ {b}]

\* A bell that is stored; one for an account that is gone, or at any bad moment, is
\* refused, and with it whatever was to follow. Its batch goes on: the stores of a
\* batch were all started together.
StoreBell(n) ==
  /\ notice[n].stage \in {"first", "second", "failed"}
  /\ \E b \in Batch(n) :
       \/ /\ b.to \notin Gone
          /\ bells' = [bells EXCEPT ![<<n, b.to, b.reason>>] = @ + 1]
          /\ notice' = [notice EXCEPT ![n] = Without(n, b)]
       \/ /\ notice' = [notice EXCEPT ![n] =
               [Without(n, b) EXCEPT !.stage = "failed",
                                     !.second = IF notice[n].stage = "first" THEN {} ELSE @]]
          /\ UNCHANGED bells
  /\ UNCHANGED <<members, active, mailed, live>>

NextBatch(n) ==
  /\ notice[n].stage = "first" /\ notice[n].first = {}
  /\ notice' = [notice EXCEPT ![n].stage = "second"]
  /\ UNCHANGED <<members, active, bells, mailed, live>>

\* Faulty: the mails do not wait for the bells.
ReadyToMailAlways(n) == notice[n].stage \in {"second", "failed"}

ReadyToMail(n) == notice[n].stage = "second" /\ notice[n].second = {}

\* Mails go to the accounts active by now.
SendMails(n) ==
  /\ ReadyToMail(n)
  /\ mailed' = mailed \cup {[notice |-> n, to |-> p] : p \in notice[n].mails \cap active}
  /\ notice' = [notice EXCEPT ![n].stage = "push"]
  /\ UNCHANGED <<members, active, bells, live>>

\* The live update goes to the members by now, for the events of the feed.
Push(n) ==
  /\ notice[n].stage = "push"
  /\ live' = live \cup
       (IF notice[n].event \in {"post", "comment", "reaction"}
        THEN {[notice |-> n, to |-> p] : p \in members \ notice[n].actor} ELSE {})
  /\ notice' = [notice EXCEPT ![n].stage = "over"]
  /\ UNCHANGED <<members, active, bells, mailed>>

\* The lookups before the mails and the live update may fail too.
LookupFails(n) ==
  /\ \/ ReadyToMail(n) \/ notice[n].stage = "push"
  /\ notice' = [notice EXCEPT ![n].stage = "over"]
  /\ UNCHANGED <<members, active, bells, mailed, live>>

-----------------------------------------------------------------------------
(* The community and the accounts change meanwhile *)

JoinOrLeave ==
  /\ \E p \in Persons \ Gone : members' = (members \ {p}) \cup ({p} \ members)
  /\ UNCHANGED <<notice, active, bells, mailed, live>>

ToggleActive ==
  /\ \E p \in Persons \ Gone : active' = (active \ {p}) \cup ({p} \ active)
  /\ UNCHANGED <<notice, members, bells, mailed, live>>

Next ==
  \/ \E n \in Notices, p \in Persons \ Gone :
       \/ PostCreated(n, p) \/ CommentAdded(n, p) \/ ReactionChanged(n, p)
       \/ JoinRequested(n, p) \/ RequestDecided(n, p) \/ AddedToCommunity(n, p)
  \/ \E n \in Notices :
       \/ StoreBell(n) \/ NextBatch(n) \/ SendMails(n) \/ Push(n) \/ LookupFails(n)
  \/ JoinOrLeave \/ ToggleActive

Spec == Init /\ [][Next]_vars

-----------------------------------------------------------------------------
(* Properties *)

\* The notices, the accounts and what was stored of them have their types.
TypeOK ==
  /\ \A n \in Notices : notice[n].stage \in {"none", "first", "second", "failed", "push", "over"}
  /\ members \cup active \subseteq Persons
  /\ bells \in [Notices \X Persons \X Reasons -> Nat]

BellsOf(n, p) == {r \in Reasons : bells[<<n, p, r>>] > 0}

\* A comment rings for nobody twice, however its author, its mentions and the author
\* of the post coincide, and whatever of the notice fails; and nobody's own doing
\* rings for them.
ToldOnce ==
  \A n \in Notices, p \in Persons :
    /\ \A r \in Reasons : bells[<<n, p, r>>] <= 1
    /\ notice[n].event = "comment" => Cardinality(BellsOf(n, p)) <= 1
    /\ p \in notice[n].actor => BellsOf(n, p) = {}

\* Whoever is mailed of an event has its bell entry as well: a notice whose bells
\* failed, in part or as a whole, sends no mail.
MailedHaveBells == \A m \in mailed : BellsOf(m.notice, m.to) # {}

=============================================================================
