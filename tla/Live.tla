---------------------------------- MODULE Live ----------------------------------
(***************************************************************************)
(* What the server does on its own, side by side: live notifications, the  *)
(* sweep of overdue approvals, the notices of a community and of           *)
(* decisions, and the generation of course recommendations. The parts      *)
(* share no state, so a step of the whole is a step of one of them; the    *)
(* notifications are those of the module this one extends.                 *)
(***************************************************************************)
EXTENDS Notifications, Sequences

CONSTANTS
  SlaDays, EscalationDays, MaxDay,
  Persons, Gone, Insiders, Notices,
  JobDescriptions, Urls, Provided, Replies, CoursesPerRole, Generating, Overlaps,
  Approvers, Employee

VARIABLES
  request, today, mails,
  notice, members, active, bells, mailed, live,
  courses, run,
  decided, hrUsers, entries, undoing, uncleared

streamVars == vars
clockVars == <<request, today, mails>>
noticeVars == <<notice, members, active, bells, mailed, live>>
courseVars == <<courses, run>>
decisionVars == <<decided, hrUsers, entries, undoing, uncleared>>

Clock == INSTANCE ApprovalClock

Notified == INSTANCE CommunityNotifier

Courses == INSTANCE CourseRecommendations WITH Requests <- Generating, Overlap <- Overlaps

Decisions == INSTANCE DecisionBells WITH request <- decided, bells <- entries

\* The deadlines are some days off; the model answers with a list of courses.
ASSUME LiveAssumption ==
  /\ SlaDays \in Nat \ {0} /\ EscalationDays \in Nat \ {0} /\ MaxDay \in Nat
  /\ Insiders \subseteq Persons
  /\ Replies \subseteq Seq(Courses!Raw) /\ CoursesPerRole \in Nat

LiveInit == Init /\ Clock!Init /\ Notified!Init /\ Courses!Init /\ Decisions!Init

LiveNext ==
  \/ Next /\ UNCHANGED <<clockVars, noticeVars, courseVars, decisionVars>>
  \/ Clock!Next /\ UNCHANGED <<streamVars, noticeVars, courseVars, decisionVars>>
  \/ Notified!Next /\ UNCHANGED <<streamVars, clockVars, courseVars, decisionVars>>
  \/ Courses!Next /\ UNCHANGED <<streamVars, clockVars, noticeVars, decisionVars>>
  \/ Decisions!Next /\ UNCHANGED <<streamVars, clockVars, noticeVars, courseVars>>

\* The fairness is that of Notifications and of ApprovalClock.
LiveSpec ==
  /\ LiveInit
  /\ [][LiveNext]_<<streamVars, clockVars, noticeVars, courseVars, decisionVars>>
  /\ Fairness /\ Clock!Fairness

-----------------------------------------------------------------------------
(* What the parts promise, from the properties their modules state. What the *)
(* streams promise is stated by Notifications itself.                        *)

\* The state of every part has its type; a stay in a stage is reminded of once and
\* escalated once (ApprovalClock); a comment rings for nobody twice, and whoever is
\* mailed has the bell entry as well (CommunityNotifier).
NoticesStand ==
  /\ TypeOK
  /\ Clock!TypeOK /\ Clock!OneMailOfAKind
  /\ Notified!TypeOK /\ Notified!ToldOnce /\ Notified!MailedHaveBells
  /\ Courses!TypeOK
  /\ Decisions!TypeOK

\* The queue of HR starts with a fresh clock (ApprovalClock), and a role that has
\* suggestions keeps some (CourseRecommendations).
StepsStand == Clock!HrStageStartsFresh /\ Courses!NeverEmptied

\* A request nobody decides is escalated (ApprovalClock).
StalledIsEscalated == Clock!StalledIsEscalated

\* What a role shows is one answer of the model, and a batch cannot fail on the
\* unique index for repeating itself (CourseRecommendations).
SuggestionsAgree == Courses!OneAnswerPerRole /\ Courses!BatchFitsIndex

\* An employee's entries tell of decisions that stand (DecisionBells).
EmployeeBellsStand == Decisions!EmployeeBellsStand

=============================================================================
