------------------------------ MODULE Accounts ------------------------------
(***************************************************************************)
(* The user directory: registration and its decision, roles, activation,   *)
(* deletion, passwords, reset links and sign-in, as users.service.ts and   *)
(* auth.service.ts handle them over the table users.                       *)
(*                                                                         *)
(* A handler loads a user, checks it, awaits something (a password hash, a *)
(* second query, a photo download) and saves the whole loaded entity; each *)
(* of the two is a step. An id stands for a person and for their address.  *)
(***************************************************************************)
EXTENDS Integers, FiniteSets, FiniteSetsExt

CONSTANTS
  Users,          \* people, each with one e-mail address
  NoUser,
  Founders,       \* accounts the directory starts with, all admins
  Managers,       \* accounts it starts with that are approvers
  Imported,       \* the number in the employee ids of the accounts it starts with
  RoleSets,       \* what an admin may set the roles of an account to
  Calls,          \* slots for handlers in flight
  Overlapping,    \* operations that may run while another one does
  Ops,            \* operations that clients invoke
  MaxSecret,      \* bound: passwords and reset tokens handed out
  MaxNumber,      \* bound: the numbers of employee ids
  MaxNow,         \* bound: the clock
  ResetLife       \* how long a reset link is good for

Operations ==
  {"register", "approve", "reject", "update", "roles", "toggle", "delete", "change",
   "forgot", "reset", "profile", "login", "oauth", "restart"}

ASSUME AccountsAssumption ==
  /\ Overlapping \subseteq Operations /\ Ops \subseteq Operations
  /\ NoUser \notin Users
  /\ Founders \cup Managers \subseteq Users
  /\ Imported \in [Founders \cup Managers -> 0..MaxNumber]
  /\ RoleSets \subseteq SUBSET {"employee", "approver", "hr_approver", "admin"}
  /\ {MaxSecret, MaxNumber, MaxNow, ResetLife} \subseteq Nat
  /\ MaxSecret > 0

VARIABLES
  users,      \* the table users
  welcome,    \* who has a balance of the year, who is in the home community
  call,       \* the handlers in flight
  secrets,    \* passwords and tokens handed out so far
  resets,     \* for each token, the resets it was good for (history)
  now

vars == <<users, welcome, call, secrets, resets, now>>

-----------------------------------------------------------------------------
(* Tables and the handlers' local state *)

Secrets == 0..MaxSecret      \* 0: none

User ==
  [exists : BOOLEAN, roles : SUBSET {"employee", "approver", "hr_approver", "admin"},
   isActive : BOOLEAN, isPendingApproval : BOOLEAN,
   password : Secrets, resetToken : Secrets, resetExpiry : 0..(MaxNow + ResetLife),
   supervisor : Users \cup {NoUser}, number : 0..MaxNumber]

Nobody ==
  [exists |-> FALSE, roles |-> {}, isActive |-> FALSE, isPendingApproval |-> FALSE,
   password |-> 0, resetToken |-> 0, resetExpiry |-> 0, supervisor |-> NoUser,
   number |-> 0]

Tasks == {"none", "save", "saveApproval", "saveReset", "insert", "retry",
          "allocate", "join", "delete", "link", "photo", "track"}

CallState ==
  [task : Tasks, op : Operations \cup {"none"}, id : Users \cup {NoUser}, row : User,
   secret : Secrets]

Idle == [task |-> "none", op |-> "none", id |-> NoUser, row |-> Nobody,
         secret |-> 0]

Free(c) == call[c].task = "none"

\* Operation `op` may start in slot c beside whatever is in flight.
MayStart(c, op) ==
  /\ op \in Ops /\ Free(c)
  /\ \A d \in Calls : ~Free(d) => {op, call[d].op} \cap Overlapping # {}

Start(c, op, task, u, row) ==
  call' = [call EXCEPT ![c] = [Idle EXCEPT !.task = task, !.op = op, !.id = u, !.row = row]]

Then(c, task) == call' = [call EXCEPT ![c].task = task]

Return(c) == call' = [call EXCEPT ![c] = Idle]

Founder(u) ==
  [Nobody EXCEPT !.exists = TRUE, !.isActive = TRUE, !.password = 1,
                 !.number = Imported[u],
                 !.roles = (IF u \in Founders THEN {"admin"} ELSE {})
                           \cup (IF u \in Managers THEN {"approver"} ELSE {})]

Init ==
  /\ users = [u \in Users |-> IF u \in Founders \cup Managers THEN Founder(u) ELSE Nobody]
  /\ welcome = [balance |-> Founders \cup Managers, member |-> Founders \cup Managers]
  /\ call = [c \in Calls |-> Idle]
  /\ secrets = 1
  /\ resets = [t \in Secrets |-> 0]
  /\ now = 0

NewSecret(s) == s = secrets + 1 /\ s \in Secrets /\ secrets' = s

-----------------------------------------------------------------------------
(* Who may call *)

\* JwtStrategy loads the account for every request.
Authenticated(u) == users[u].exists /\ users[u].isActive

\* RolesGuard: a request of somebody else with one of the roles.
AskedBy(roles, u) ==
  \E a \in Users \ {u} : Authenticated(a) /\ users[a].roles \cap roles # {}

-----------------------------------------------------------------------------
(* Registration and its decision *)

HighestNumber == Max({0} \cup {users[u].number : u \in Users})

\* Faulty: the next number is the number of accounts plus one.
CountedNumber == Cardinality({u \in Users : users[u].exists}) + 1

NextNumber == HighestNumber + 1

Applicant(u, supervisor, password) ==
  [Nobody EXCEPT !.exists = TRUE, !.roles = {"employee"}, !.isPendingApproval = TRUE,
                 !.password = password, !.supervisor = supervisor,
                 !.number = NextNumber]

Register(c, u) ==
  /\ MayStart(c, "register") /\ ~users[u].exists
  /\ NextNumber <= MaxNumber
  /\ \E supervisor \in {m \in Users : users[m].exists}, s \in Secrets :
       /\ NewSecret(s)
       /\ Start(c, "register", "insert", u, Applicant(u, supervisor, s))
  /\ UNCHANGED <<users, welcome, resets, now>>

\* The unique indexes on address and employee id, the foreign key on the manager.
Duplicate(u, row) == users[u].exists \/ \E o \in Users : users[o].number = row.number

Insertable(u, row) == ~Duplicate(u, row) /\ users[row.supervisor].exists

\* The save of a registration; a duplicate is tried again once, with a number
\* read anew, and refused the second time.
Insert(c) ==
  LET u == call[c].id  row == call[c].row IN
  /\ call[c].task \in {"insert", "retry"}
  /\ \/ /\ Insertable(u, row)
        /\ users' = [users EXCEPT ![u] = row]
        /\ Return(c)
     \/ /\ Duplicate(u, row) /\ call[c].task = "insert" /\ NextNumber <= MaxNumber
        /\ call' = [call EXCEPT ![c].task = "retry", ![c].row.number = NextNumber]
        /\ UNCHANGED users
     \/ /\ ~Insertable(u, row) /\ ~(Duplicate(u, row) /\ call[c].task = "insert")
        /\ Return(c)
        /\ UNCHANGED users
  /\ UNCHANGED <<welcome, secrets, resets, now>>

Reviewers == {"hr_approver", "admin"}

\* Faulty: a decision may be taken again.
CanDecideAgain(u) == users[u].exists

CanDecide(u) == users[u].exists /\ users[u].isPendingApproval

ApprovePending(c, u) ==
  /\ MayStart(c, "approve") /\ AskedBy(Reviewers, u) /\ CanDecide(u)
  /\ Start(c, "approve", "saveApproval", u,
           [users[u] EXCEPT !.isPendingApproval = FALSE, !.isActive = TRUE])
  /\ UNCHANGED <<users, welcome, secrets, resets, now>>

RejectPending(c, u) ==
  /\ MayStart(c, "reject") /\ AskedBy(Reviewers, u) /\ CanDecide(u)
  /\ Start(c, "reject", "save", u,
           [users[u] EXCEPT !.isPendingApproval = FALSE, !.isActive = FALSE])
  /\ UNCHANGED <<users, welcome, secrets, resets, now>>

SaveApproval(c) ==
  /\ call[c].task = "saveApproval"
  /\ users' = [users EXCEPT ![call[c].id] = call[c].row]
  /\ Then(c, "allocate")
  /\ UNCHANGED <<welcome, secrets, resets, now>>

\* The balance of the year; the account may have been deleted meanwhile.
Allocate(c) ==
  /\ call[c].task = "allocate"
  /\ \/ /\ users[call[c].id].exists
        /\ welcome' = [welcome EXCEPT !.balance = @ \cup {call[c].id}]
        /\ Then(c, "join")
     \/ ~users[call[c].id].exists /\ Return(c) /\ UNCHANGED welcome
  /\ UNCHANGED <<users, secrets, resets, now>>

\* joinDefaultCommunity swallows every error.
JoinDefaultCommunity(c) ==
  /\ call[c].task = "join"
  /\ \/ /\ users[call[c].id].exists
        /\ welcome' = [welcome EXCEPT !.member = @ \cup {call[c].id}]
     \/ UNCHANGED welcome
  /\ Return(c)
  /\ UNCHANGED <<users, secrets, resets, now>>

-----------------------------------------------------------------------------
(* Administration *)

\* assertValidSupervisor
ValidSupervisor(u, m) ==
  m # NoUser => m # u /\ Authenticated(m) /\ "approver" \in users[m].roles

UpdateUser(c, u) ==
  /\ MayStart(c, "update") /\ users[u].exists
  /\ \E a \in Users : Authenticated(a) /\ users[a].roles \cap Reviewers # {}
  /\ \E m \in Users \cup {NoUser} :
       /\ ValidSupervisor(u, m)
       /\ Start(c, "update", "save", u, [users[u] EXCEPT !.supervisor = m])
  /\ UNCHANGED <<users, welcome, secrets, resets, now>>

UpdateRoles(c, u) ==
  /\ MayStart(c, "roles") /\ users[u].exists
  /\ \E a \in Users : Authenticated(a) /\ "admin" \in users[a].roles
  /\ \E roles \in RoleSets :
       Start(c, "roles", "save", u, [users[u] EXCEPT !.roles = roles])
  /\ UNCHANGED <<users, welcome, secrets, resets, now>>

ToggleActive(c, u) ==
  /\ MayStart(c, "toggle") /\ users[u].exists
  /\ \E a \in Users : Authenticated(a) /\ "admin" \in users[a].roles
  /\ Start(c, "toggle", "save", u, [users[u] EXCEPT !.isActive = ~@])
  /\ UNCHANGED <<users, welcome, secrets, resets, now>>

Admins == {u \in Users : users[u].exists /\ "admin" \in users[u].roles}

\* findDeletionBlockers: of the relations it counts, the one this module has.
Subordinates(u) == {o \in Users : users[o].supervisor = u}

\* assertNotLastAdmin and findDeletionBlockers, each a query or more before the
\* delete. Relations kept elsewhere only refuse the call.
DeleteUser(c, u) ==
  /\ MayStart(c, "delete") /\ AskedBy({"admin"}, u) /\ users[u].exists
  /\ u \in Admins => Admins # {u}
  /\ Subordinates(u) = {}
  /\ Start(c, "delete", "delete", u, users[u])
  /\ UNCHANGED <<users, welcome, secrets, resets, now>>

\* The delete, with what the database cascades; NO ACTION on the manager.
Delete(c) ==
  LET u == call[c].id IN
  /\ call[c].task = "delete"
  /\ \/ /\ Subordinates(u) = {}
        /\ users' = [users EXCEPT ![u] = Nobody]
        /\ welcome' = [balance |-> welcome.balance \ {u}, member |-> welcome.member \ {u}]
     \/ Subordinates(u) # {} /\ UNCHANGED <<users, welcome>>
  /\ Return(c)
  /\ UNCHANGED <<secrets, resets, now>>

-----------------------------------------------------------------------------
(* Passwords, links and profiles *)

ChangePassword(c, u) ==
  /\ MayStart(c, "change") /\ Authenticated(u)
  /\ \E s \in Secrets :
       NewSecret(s) /\ Start(c, "change", "save", u, [users[u] EXCEPT !.password = s])
  /\ UNCHANGED <<users, welcome, resets, now>>

ForgotPassword(c, u) ==
  /\ MayStart(c, "forgot") /\ users[u].exists /\ users[u].isActive
  /\ \E t \in Secrets :
       /\ NewSecret(t)
       /\ Start(c, "forgot", "save", u,
                [users[u] EXCEPT !.resetToken = t, !.resetExpiry = now + ResetLife])
  /\ UNCHANGED <<users, welcome, resets, now>>

CanReset(row) == row.exists /\ row.resetToken # 0 /\ now <= row.resetExpiry

\* Faulty: the token stays in the row.
ResetKeepingToken(row, password) == [row EXCEPT !.password = password]

Reset(row, password) ==
  [row EXCEPT !.password = password, !.resetToken = 0, !.resetExpiry = 0]

\* The holder of the link that was mailed last asks for a new password.
ResetPassword(c, u) ==
  /\ MayStart(c, "reset") /\ CanReset(users[u])
  /\ \E s \in Secrets :
       /\ NewSecret(s)
       /\ call' = [call EXCEPT ![c] = [Idle EXCEPT !.task = "saveReset", !.op = "reset",
                     !.id = u, !.row = users[u], !.secret = s]]
  /\ UNCHANGED <<users, welcome, resets, now>>

SaveReset(c) ==
  /\ call[c].task = "saveReset"
  /\ users' = [users EXCEPT ![call[c].id] = Reset(call[c].row, call[c].secret)]
  /\ resets' = [resets EXCEPT ![call[c].row.resetToken] = @ + 1]
  /\ Return(c)
  /\ UNCHANGED <<welcome, secrets, now>>

UpdateProfile(c, u) ==
  /\ MayStart(c, "profile") /\ Authenticated(u)
  /\ Start(c, "profile", "save", u, users[u])
  /\ UNCHANGED <<users, welcome, secrets, resets, now>>

\* repository.save: the whole entity, inserted again when its row is gone. The
\* foreign key on the manager can refuse it.
Storable(row) == row.supervisor # NoUser => users[row.supervisor].exists

SaveRow(c) ==
  users' = IF Storable(call[c].row) THEN [users EXCEPT ![call[c].id] = call[c].row]
           ELSE users

Save(c) ==
  /\ call[c].task = "save" /\ SaveRow(c) /\ Return(c)
  /\ UNCHANGED <<welcome, secrets, resets, now>>

-----------------------------------------------------------------------------
(* Signing in *)

\* validateUser: whoever knows the password of an account that may sign in.
Login(c, u) ==
  /\ MayStart(c, "login")
  /\ users[u].exists /\ ~users[u].isPendingApproval /\ users[u].isActive
  /\ Start(c, "login", "track", u, users[u])
  /\ UNCHANGED <<users, welcome, secrets, resets, now>>

\* validateOAuthUser looks at the address only; the first time it links the
\* account. After it the photo is fetched, and stored when there is one.
SignInWithOAuth(c, u) ==
  /\ MayStart(c, "oauth") /\ users[u].exists
  /\ \E task \in {"link", "photo"} : Start(c, "oauth", task, u, users[u])
  /\ UNCHANGED <<users, welcome, secrets, resets, now>>

Link(c) ==
  /\ call[c].task = "link" /\ SaveRow(c) /\ Then(c, "photo")
  /\ UNCHANGED <<welcome, secrets, resets, now>>

SyncPhoto(c) ==
  /\ call[c].task = "photo" /\ (SaveRow(c) \/ UNCHANGED users) /\ Then(c, "track")
  /\ UNCHANGED <<welcome, secrets, resets, now>>

\* Faulty: login saves the account it was given.
SavedWhole(u, row) == row

\* What login writes of the account: lastLoginAt alone.
Touched(u, row) == users[u]

\* login: the time of the login; LoginEvents has the event it inserts.
Track(c) ==
  /\ call[c].task = "track"
  /\ users' = [users EXCEPT ![call[c].id] = Touched(call[c].id, call[c].row)]
  /\ Return(c)
  /\ UNCHANGED <<welcome, secrets, resets, now>>

-----------------------------------------------------------------------------
(* The system *)

Tick == now < MaxNow /\ now' = now + 1
        /\ UNCHANGED <<users, welcome, call, secrets, resets>>

Restart ==
  /\ "restart" \in Ops
  /\ call' = [c \in Calls |-> Idle]
  /\ UNCHANGED <<users, welcome, secrets, resets, now>>

Request(c) ==
  \E u \in Users :
    \/ Register(c, u) \/ ApprovePending(c, u) \/ RejectPending(c, u)
    \/ UpdateUser(c, u) \/ UpdateRoles(c, u) \/ ToggleActive(c, u) \/ DeleteUser(c, u)
    \/ ChangePassword(c, u) \/ ForgotPassword(c, u) \/ ResetPassword(c, u)
    \/ UpdateProfile(c, u) \/ Login(c, u) \/ SignInWithOAuth(c, u)

Continue(c) ==
  \/ Insert(c) \/ SaveApproval(c) \/ Allocate(c) \/ JoinDefaultCommunity(c)
  \/ Delete(c) \/ SaveReset(c) \/ Save(c) \/ Link(c) \/ SyncPhoto(c) \/ Track(c)

Next ==
  \/ \E c \in Calls : Request(c) \/ Continue(c)
  \/ Tick \/ Restart

Spec == Init /\ [][Next]_vars

-----------------------------------------------------------------------------
(* Properties *)

\* Every row and every entity in memory has the columns of its table.
TypeOK ==
  /\ users \in [Users -> User]
  /\ welcome.balance \cup welcome.member \subseteq Users
  /\ call \in [Calls -> CallState]
  /\ secrets \in Secrets /\ resets \in [Secrets -> Nat] /\ now \in 0..MaxNow

\* A reset link is good for one reset: the row that consumes the token also loses
\* it, and nothing brings it back.
ResetLinkUsedOnce == \A t \in Secrets : resets[t] <= 1

\* Signing in, however it interleaves, never brings an older password back.
PasswordsNeverRevert ==
  [][\A u \in Users : users[u].exists /\ users'[u].exists
                        => users'[u].password >= users[u].password]_vars

\* A deleted account comes back only by a new registration, and not because some
\* handler still held it.
DeletedStaysDeleted ==
  [][\A u \in Users : ~users[u].exists /\ users'[u].exists
                        => users'[u].isPendingApproval]_vars

\* A registration is decided once: the save of a decision finds it undecided.
DecidedOnce ==
  [][\A c \in Calls :
       /\ call[c].op \in {"approve", "reject"} /\ call[c].task \in {"save", "saveApproval"}
       /\ call'[c] # call[c] /\ users' # users
       => users[call[c].id].isPendingApproval]_vars

\* Registrations that do not race are never tried twice: the number derived from
\* the table is free whatever was imported and deleted.
NumberFitsAtOnce == \A c \in Calls : call[c].task # "retry"

=============================================================================
