------------------------------ MODULE Community ------------------------------
(***************************************************************************)
(* What employees read and write, side by side: the feed and its pages,    *)
(* the announcement board, the Video Guide, and the yearly balances with   *)
(* their reminders. The parts share no state, so a step of the whole is a  *)
(* step of one of them; the pages are those of the module this one extends.*)
(***************************************************************************)
EXTENDS FeedPages

CONSTANTS
  People, Callers,
  Stories, StoryTypes, Drafts, Edits, Members, Readers, Moderators, Values, Options, Alone,
  Notices, Authors, Emojis,
  Employees, Years, Boosts, Tiers, RemindedAlone, NoOne,
  Videos, Seeds

VARIABLES
  posts, reactions, votes, views, comments, feedCall,
  board, reads, acks, emojis, bells, boardCall, cut,
  balances, served, mails, today,
  tutorials, announced, seeded, guideCall

pageVars == vars
feedVars == <<posts, reactions, votes, views, comments, feedCall>>
boardVars == <<board, reads, acks, emojis, bells, boardCall, cut>>
balanceVars == <<balances, served, mails, today>>
guideVars == <<tutorials, announced, seeded, guideCall>>

Posted == INSTANCE Feed WITH
  Posts <- Stories, Types <- StoryTypes, Calls <- Callers, Apart <- Alone, call <- feedCall

Board == INSTANCE Announcements WITH
  Ids <- Notices, Calls <- Callers, reactions <- emojis, call <- boardCall

Yearly == INSTANCE YearlyBalances WITH Staff <- Employees, Apart <- RemindedAlone

Guide == INSTANCE Tutorials WITH Ids <- Videos, Calls <- Callers, call <- guideCall

\* What requests may carry, who may send them, and the calendar the reminders follow.
ASSUME CommunityAssumption ==
  /\ StoryTypes \subseteq {"discussion", "question", "praise", "poll"}
  /\ Drafts \subseteq Posted!Draft /\ Edits \subseteq Posted!Edit
  /\ \A d \in Drafts : d.options \subseteq Options
  /\ Members \subseteq People /\ "none" \notin People \cup Values \cup Options
  /\ Tiers \subseteq Nat \ {0}
  /\ Years \subseteq Nat /\ \E first \in Years : \A y \in Years : first <= y

CommunityInit == Init /\ Posted!Init /\ Board!Init /\ Yearly!Init /\ Guide!Init

CommunityNext ==
  \/ Next /\ UNCHANGED <<feedVars, boardVars, balanceVars, guideVars>>
  \/ Posted!Next /\ UNCHANGED <<pageVars, boardVars, balanceVars, guideVars>>
  \/ Board!Next /\ UNCHANGED <<pageVars, feedVars, balanceVars, guideVars>>
  \/ Yearly!Next /\ UNCHANGED <<pageVars, feedVars, boardVars, guideVars>>
  \/ Guide!Next /\ UNCHANGED <<pageVars, feedVars, boardVars, balanceVars>>

CommunitySpec ==
  CommunityInit
  /\ [][CommunityNext]_<<pageVars, feedVars, boardVars, balanceVars, guideVars>>

-----------------------------------------------------------------------------
(* What the parts promise, from the properties their modules state. That a   *)
(* post which stays is read once, SteadyPostsOnce, is a property of FeedPages *)
(* itself.                                                                   *)

\* The tables of every part have their types, and rows rest on what they are about:
\* no comment, reaction or vote without its post (Feed), no acknowledgement without
\* a reading, unless the process died (Announcements).
TablesStand ==
  /\ TypeOK
  /\ Posted!TypeOK /\ Posted!NoOrphans
  /\ Board!TypeOK /\ Board!AcknowledgedIsRead
  /\ Yearly!TypeOK
  /\ Guide!TypeOK

\* Edits that race never take from a post what its type requires, and reactions and
\* comments never bring a deleted post back (Feed).
PostsStand == Posted!EditsKeepRequirements /\ Posted!DeletedPostsStayDeleted

\* Initialising a year leaves nobody out, and creating a balance never replaces one
\* (YearlyBalances).
BalancesStand == Yearly!YearIsComplete /\ Yearly!CreationKeepsBalances

\* What employees see they were mailed about (Tutorials).
PublicWasAnnounced == Guide!PublicWasAnnounced

\* One reminder of a tier and a year (YearlyBalances).
OneReminderPerTier == Yearly!OneReminderPerTier

=============================================================================
