------------------------------ MODULE Directory ------------------------------
(***************************************************************************)
(* People and what is kept of them, side by side: accounts, the time they  *)
(* are signed in, their communities, and edits through the assistant. The  *)
(* four share no state, so a step of the whole is a step of one of them;   *)
(* the accounts are those of the module this one extends.                  *)
(***************************************************************************)
EXTENDS Accounts

CONSTANTS
  Logins, LoginTabs, LastMinute, IdleThreshold,
  Communities, People, PlatformAdmins, MemberCalls,
  Staff, FieldValues, FirstRecords, AskedEdits, Turns, ChatTabs, Tools, EditsRace

VARIABLES
  events, beat, clock,
  present, privacy, members, requests, memberCall,
  record, pending, turn, shown, tool

accountVars == vars
loginVars == <<events, beat, clock>>
memberVars == <<present, privacy, members, requests, memberCall>>
chatVars == <<record, pending, turn, shown, tool>>

Logged == INSTANCE LoginEvents WITH Tabs <- LoginTabs, MaxNow <- LastMinute, now <- clock

Joined == INSTANCE Memberships WITH Calls <- MemberCalls, call <- memberCall

Chat == INSTANCE ChatEdits WITH
  People <- Staff, NoPerson <- NoUser, Values <- FieldValues, Records <- FirstRecords,
  Asked <- AskedEdits, Tabs <- ChatTabs

\* What the model may propose, and the records it starts from.
ASSUME ChatAssumption ==
  /\ NoUser \notin Staff /\ 0 \notin Turns
  /\ FirstRecords \in [Staff -> Chat!Rows]
  /\ \A asked \in AskedEdits :
       /\ asked.of \in Staff /\ DOMAIN asked.changes \subseteq Chat!Fields
       /\ \A f \in DOMAIN asked.changes : asked.changes[f] \in FieldValues[f]

DirectoryInit == Init /\ Logged!Init /\ Joined!Init /\ Chat!Init

DirectoryNext ==
  \/ Next /\ UNCHANGED <<loginVars, memberVars, chatVars>>
  \/ Logged!Next /\ UNCHANGED <<accountVars, memberVars, chatVars>>
  \/ Joined!Next /\ UNCHANGED <<accountVars, loginVars, chatVars>>
  \/ Chat!Next /\ UNCHANGED <<accountVars, loginVars, memberVars>>

DirectorySpec ==
  DirectoryInit /\ [][DirectoryNext]_<<accountVars, loginVars, memberVars, chatVars>>

-----------------------------------------------------------------------------
(* What the parts promise, from the properties their modules state *)

\* The state of every part has its type; a reset link is good for one reset, and a
\* number derived from the table is free (Accounts).
DirectoryStands ==
  /\ TypeOK /\ ResetLinkUsedOnce /\ NumberFitsAtOnce
  /\ Joined!TypeOK /\ Chat!TypeOK

\* Signing in, however it interleaves, brings back no password, no deleted account
\* and no decided registration (Accounts).
SignInUndoesNothing == PasswordsNeverRevert /\ DeletedStaysDeleted /\ DecidedOnce

\* Heartbeats of several tabs never count more time than passed (LoginEvents).
CountedWithinElapsed == Logged!CountedWithinElapsed

\* An admin of a community is demoted by a change of role only, and such a change
\* never leaves it without an admin (Memberships).
RolesAreKept == Joined!OnlyRoleChangesDemote /\ Joined!RoleChangesKeepAnAdmin

\* The assistant saves only what the admin was shown before, and overwrites only
\* the values that were shown (ChatEdits).
ConfirmedWasShown == Chat!AppliedWasShown /\ Chat!OverwritesWhatWasShown

=============================================================================
