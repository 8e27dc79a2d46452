---------------------------- MODULE DirectoryProofs ----------------------------
(***************************************************************************)
(* What Directory promises, for every number of people, calls and tabs:    *)
(* an inductive invariant for each of its parts, and the whole, a step of  *)
(* which is a step of one part that leaves the others as they are.         *)
(***************************************************************************)
EXTENDS Directory, FiniteSetTheorems, SequenceTheorems, WellFoundedInduction, TLAPS

-----------------------------------------------------------------------------
(* Accounts *)

\* The operations each step of a handler belongs to.
OpsOf(task) ==
  CASE task = "save" -> {"reject", "update", "roles", "toggle", "change", "forgot", "profile"}
    [] task \in {"saveApproval", "allocate", "join"} -> {"approve"}
    [] task = "saveReset" -> {"reset"}
    [] task \in {"insert", "retry"} -> {"register"}
    [] task = "delete" -> {"delete"}
    [] task \in {"link", "photo"} -> {"oauth"}
    [] task = "track" -> {"login", "oauth"}
    [] OTHER -> {"none"}

\* A handler between its load and its save of the account: what it holds is the
\* stored row, but for the columns its operation sets.
Holding(k) == k.task \in {"save", "saveApproval", "saveReset", "link", "photo"}

HeldFits(k) ==
  /\ k.row.exists /\ users[k.id].exists
  /\ k.row.password >= users[k.id].password
  /\ k.op \in {"approve", "reject"} => users[k.id].isPendingApproval
  /\ k.task = "saveReset" =>
       k.row = users[k.id] /\ k.row.resetToken # 0 /\ k.secret >= k.row.password
  /\ k.op # "forgot" => k.row.resetToken = users[k.id].resetToken
  /\ k.op = "forgot" =>
       /\ k.row.resetToken # 0 /\ resets[k.row.resetToken] = 0
       /\ \A o \in Users : users[o].resetToken # k.row.resetToken

\* A registration in flight: the address and the number it was given are free.
NewcomerFits(k) ==
  /\ ~users[k.id].exists
  /\ k.row.exists /\ k.row.isPendingApproval /\ k.row.resetToken = 0
  /\ \A o \in Users : users[o].number # k.row.number

\* Of two handlers in flight one is a sign-in with a password.
SignInsAside ==
  \A c, d \in Calls : c # d /\ ~Free(c) /\ ~Free(d) => "login" \in {call[c].op, call[d].op}

WellFormed ==
  /\ TypeOK
  /\ welcome \in [balance : SUBSET Users, member : SUBSET Users]
  /\ \A c \in Calls :
       /\ call[c].op \in OpsOf(call[c].task)
       /\ ~Free(c) => call[c].id \in Users

\* Passwords and tokens are handed out in order, no two accounts have one token, and
\* a token that an account has was not used.
SecretsFit ==
  /\ \A u \in Users : users[u].password <= secrets /\ users[u].resetToken <= secrets
  /\ \A c \in Calls : /\ call[c].row.password <= secrets /\ call[c].row.resetToken <= secrets
                      /\ call[c].secret <= secrets
  /\ \A t \in Secrets : resets[t] <= 1 /\ (t > secrets => resets[t] = 0)
  /\ \A u \in Users : users[u].resetToken # 0 => resets[users[u].resetToken] = 0
  /\ \A u, o \in Users : u # o /\ users[u].resetToken # 0
                           => users[u].resetToken # users[o].resetToken

HandlersFit ==
  \A c \in Calls :
    /\ Holding(call[c]) => HeldFits(call[c])
    /\ call[c].task = "insert" => NewcomerFits(call[c])
    /\ call[c].task # "retry"

AccountsInv == WellFormed /\ SignInsAside /\ SecretsFit /\ HandlersFit



LEMMA Largest ==
  ASSUME NEW n \in Nat, NEW T, T \subseteq 0..n, T # {}
  PROVE  Max(T) \in T /\ \A y \in T : Max(T) >= y
<1> DEFINE Above(x) == x..n
           Bad == {Above(x) : x \in T}
<1>1. IsFiniteSet(0..n)
  BY FS_Interval
<1>2. IsWellFoundedOn(StrictSubsetOrdering(0..n), SUBSET (0..n))
  BY <1>1, FS_StrictSubsetOrderingWellFounded, FS_FiniteSubsetsOfFinite
<1>3. Bad \subseteq SUBSET (0..n) /\ Bad # {}
  <2>1. \A x \in T : Above(x) \subseteq 0..n
    OBVIOUS
  <2>2. \A x \in T : Above(x) \in Bad
    OBVIOUS
  <2> HIDE DEF Above
  <2> QED BY <2>1, <2>2
<1>4. PICK s \in Bad : \A t \in Bad : ~(<<t, s>> \in StrictSubsetOrdering(0..n))
  <2> HIDE DEF Bad
  <2> QED BY <1>2, <1>3, WFMin
<1>5. PICK x \in T : s = Above(x)
  BY <1>4
<1>6. \A y \in T : x >= y
  <2> SUFFICES ASSUME NEW y \in T, ~(x >= y) PROVE FALSE
    OBVIOUS
  <2>1. x \in 0..n /\ y \in 0..n /\ x < y
    OBVIOUS
  <2>2. Above(y) \subseteq Above(x) /\ x \in Above(x) /\ x \notin Above(y)
    BY <2>1
  <2>3. Above(y) \in Bad
    OBVIOUS
  <2>4. <<Above(y), Above(x)>> \in StrictSubsetOrdering(0..n)
    BY <2>2, <2>1 DEF StrictSubsetOrdering
  <2> QED BY <2>3, <2>4, <1>4, <1>5
<1>7. \E m \in T : \A y \in T : m >= y
  BY <1>6
<1> HIDE DEF Bad, Above
<1> QED BY <1>7 DEF Max

LEMMA NextNumberIsFree ==
  ASSUME TypeOK
  PROVE  HighestNumber \in 0..MaxNumber /\ \A o \in Users : users[o].number < NextNumber
<1> DEFINE T == {0} \cup {users[u].number : u \in Users}
<1>1. MaxNumber \in Nat
  BY AccountsAssumption
<1>2. \A o \in Users : users[o].number \in 0..MaxNumber
  BY DEF TypeOK, User
<1>3. T \subseteq 0..MaxNumber /\ T # {}
  BY <1>1, <1>2
<1>4. HighestNumber = Max(T)
  BY DEF HighestNumber
<1>5. \A o \in Users : users[o].number \in T
  OBVIOUS
<1> HIDE DEF T
<1>6. HighestNumber \in 0..MaxNumber /\ \A o \in Users : HighestNumber >= users[o].number
  BY <1>1, <1>3, <1>4, <1>5, Largest
<1> QED BY <1>6, <1>2 DEF NextNumber

LEMMA IdleIsFit ==
  /\ Nobody \in User /\ Idle \in CallState /\ ~Holding(Idle)
  /\ Idle.task = "none" /\ Idle.op = "none" /\ Idle.id = NoUser /\ Idle.row = Nobody
  /\ Idle.secret = 0 /\ Nobody.password = 0 /\ Nobody.resetToken = 0 /\ ~Nobody.exists
  BY AccountsAssumption DEF Nobody, User, Idle, CallState, Tasks, Secrets, Holding

LEMMA TypeIsOK == AccountsInv => TypeOK
  BY DEF AccountsInv, WellFormed

LEMMA SecretsAreNumbers ==
  ASSUME TypeOK
  PROVE  /\ Secrets \subseteq Nat /\ secrets \in Nat
         /\ \A u \in Users : users[u].password \in Secrets /\ users[u].resetToken \in Secrets
         /\ \A c \in Calls : /\ call[c].row.password \in Secrets
                             /\ call[c].row.resetToken \in Secrets
                             /\ call[c].secret \in Secrets
  BY AccountsAssumption DEF TypeOK, User, CallState, Secrets

\* A handler that starts while those in flight are fit for it.
LEMMA StartFits ==
  ASSUME AccountsInv, Overlapping \subseteq {"login"},
         NEW c \in Calls, NEW k \in CallState, MayStart(c, k.op),
         call' = [call EXCEPT ![c] = k], UNCHANGED <<users, welcome, resets, now>>,
         k.task # "none", k.task # "retry", k.op \in OpsOf(k.task), k.id \in Users,
         secrets' \in Secrets, secrets' >= secrets,
         k.row.password <= secrets', k.row.resetToken <= secrets', k.secret <= secrets',
         Holding(k) => HeldFits(k), k.task = "insert" => NewcomerFits(k)
  PROVE  AccountsInv'
<1>1. WellFormed'
  BY DEF AccountsInv, WellFormed, TypeOK, Free
<1>2. SignInsAside'
  <2> SUFFICES ASSUME NEW d \in Calls, NEW e \in Calls, d # e, ~Free(d)', ~Free(e)'
               PROVE  "login" \in {call'[d].op, call'[e].op}
    BY DEF SignInsAside
  <2>1. call \in [Calls -> CallState]
    BY DEF AccountsInv, WellFormed, TypeOK
  <2>2. CASE d # c /\ e # c
    BY <2>1, <2>2 DEF AccountsInv, SignInsAside, Free
  <2>3. \A f \in Calls : f # c /\ ~Free(f) => "login" \in {k.op, call[f].op}
    BY DEF MayStart
  <2> QED BY <2>1, <2>2, <2>3 DEF Free
<1>3. SecretsFit'
  <2>1. \A u \in Users : users[u].password <= secrets' /\ users[u].resetToken <= secrets'
    BY TypeIsOK, SecretsAreNumbers DEF AccountsInv, SecretsFit
  <2>2. \A d \in Calls : /\ call'[d].row.password <= secrets' /\ call'[d].row.resetToken <= secrets'
                        /\ call'[d].secret <= secrets'
    <3> TAKE d \in Calls
    <3>1. CASE d = c
      BY <3>1, TypeIsOK DEF TypeOK
    <3>2. CASE d # c
      <4>1. call'[d] = call[d]
        BY <3>2, TypeIsOK DEF TypeOK
      <4>2. /\ call[d].row.password <= secrets /\ call[d].row.resetToken <= secrets
            /\ call[d].secret <= secrets
        BY DEF AccountsInv, SecretsFit
      <4> QED BY <4>1, <4>2, TypeIsOK, SecretsAreNumbers
    <3> QED BY <3>1, <3>2
  <2>3. \A t \in Secrets : t > secrets' => t > secrets
    BY TypeIsOK, SecretsAreNumbers
  <2> QED BY <2>1, <2>2, <2>3 DEF AccountsInv, SecretsFit
<1>4. HandlersFit'
  <2> SUFFICES ASSUME NEW d \in Calls
               PROVE  /\ Holding(call'[d]) => HeldFits(call[d])'
                      /\ call'[d].task = "insert" => NewcomerFits(call[d])'
                      /\ call'[d].task # "retry"
    BY DEF HandlersFit, Holding
  <2>1. call'[d] = IF d = c THEN k ELSE call[d]
    BY TypeIsOK DEF TypeOK
  <2>2. /\ Holding(call'[d]) => HeldFits(call'[d])
        /\ call'[d].task = "insert" => NewcomerFits(call'[d])
        /\ call'[d].task # "retry"
    BY <2>1 DEF AccountsInv, HandlersFit
  <2> QED BY <2>2 DEF HeldFits, NewcomerFits
<1> QED BY <1>1, <1>2, <1>3, <1>4 DEF AccountsInv

Entered(op, task, u, row) ==
  [Idle EXCEPT !.task = task, !.op = op, !.id = u, !.row = row]

LEMMA EnteredIs ==
  ASSUME NEW op \in Operations, NEW task \in Tasks, NEW u \in Users, NEW row \in User
  PROVE  /\ Entered(op, task, u, row) \in CallState
         /\ Entered(op, task, u, row).task = task /\ Entered(op, task, u, row).op = op
         /\ Entered(op, task, u, row).id = u /\ Entered(op, task, u, row).row = row
         /\ Entered(op, task, u, row).secret = 0
  BY IdleIsFit DEF Entered, Idle, CallState

\* The same for a handler that holds one row: what Start writes.
LEMMA StartedFits ==
  ASSUME AccountsInv, Overlapping \subseteq {"login"},
         NEW c \in Calls, NEW op \in Operations, NEW task \in Tasks, NEW u \in Users,
         NEW row \in User, MayStart(c, op), Start(c, op, task, u, row),
         UNCHANGED <<users, welcome, resets, now>>,
         task # "none", task # "retry", task # "saveReset", op \in OpsOf(task),
         secrets' \in Secrets, secrets' >= secrets,
         row.password <= secrets', row.resetToken <= secrets',
         task \in {"save", "saveApproval", "link", "photo"} =>
           /\ row.exists /\ users[u].exists /\ row.password >= users[u].password
           /\ op \in {"approve", "reject"} => users[u].isPendingApproval
           /\ op # "forgot" => row.resetToken = users[u].resetToken
           /\ op = "forgot" => /\ row.resetToken # 0 /\ resets[row.resetToken] = 0
                               /\ \A o \in Users : users[o].resetToken # row.resetToken,
         task = "insert" =>
           /\ ~users[u].exists
           /\ row.exists /\ row.isPendingApproval /\ row.resetToken = 0
           /\ \A o \in Users : users[o].number # row.number
  PROVE  AccountsInv'
<1> DEFINE k == Entered(op, task, u, row)
<1>1. /\ k \in CallState /\ k.task = task /\ k.op = op /\ k.id = u /\ k.row = row
      /\ k.secret = 0
  BY EnteredIs
<1>2. call' = [call EXCEPT ![c] = k]
  BY DEF Start, Entered
<1> HIDE DEF k
<1>3. Holding(k) => HeldFits(k)
  BY <1>1 DEF Holding, HeldFits
<1>4. k.task = "insert" => NewcomerFits(k)
  BY <1>1 DEF NewcomerFits
<1>5. k.secret <= secrets'
  BY <1>1, AccountsAssumption DEF Secrets
<1> QED BY <1>1, <1>2, <1>3, <1>4, <1>5, StartFits

\* What a handler finds that has loaded an account.
LEMMA Loaded ==
  ASSUME AccountsInv, NEW u \in Users
  PROVE  /\ users[u] \in User /\ users[u].password <= secrets /\ users[u].resetToken <= secrets
         /\ users[u].password \in Nat /\ users[u].resetToken \in Nat
         /\ secrets \in Secrets /\ secrets \in Nat
  BY TypeIsOK, SecretsAreNumbers DEF AccountsInv, SecretsFit, TypeOK

LEMMA RegisterFits ==
  ASSUME AccountsInv, Overlapping \subseteq {"login"}, NEW c \in Calls, NEW u \in Users,
         Register(c, u)
  PROVE  AccountsInv'
<1>1. PICK supervisor \in {m \in Users : users[m].exists}, s \in Secrets :
        NewSecret(s) /\ Start(c, "register", "insert", u, Applicant(u, supervisor, s))
  BY DEF Register
<1> DEFINE row == Applicant(u, supervisor, s)
<1>2. /\ HighestNumber \in 0..MaxNumber /\ \A o \in Users : users[o].number < NextNumber
      /\ \A o \in Users : users[o].number \in Nat
  BY TypeIsOK, NextNumberIsFree, AccountsAssumption DEF TypeOK, User
<1>3. NextNumber \in 0..MaxNumber
  BY <1>2, AccountsAssumption DEF Register, NextNumber
<1>4. /\ row \in User /\ row.exists /\ row.isPendingApproval /\ row.resetToken = 0
      /\ row.password = s /\ row.number = NextNumber
  BY <1>3, <1>1, IdleIsFit DEF Applicant, User
<1>5. s = secrets + 1 /\ secrets' = s /\ secrets \in Nat /\ s \in Secrets
  BY <1>1, TypeIsOK, SecretsAreNumbers DEF NewSecret
<1>6. \A o \in Users : users[o].number # row.number
  BY <1>2, <1>4, <1>3, AccountsAssumption
<1> HIDE DEF row
<1>7. Start(c, "register", "insert", u, row)
  BY <1>1 DEF row
<1>8. ~users[u].exists /\ MayStart(c, "register") /\ UNCHANGED <<users, welcome, resets, now>>
  BY DEF Register
<1>9. "register" \in Operations /\ "insert" \in Tasks /\ "register" \in OpsOf("insert")
  BY DEF Operations, Tasks, OpsOf
<1> QED BY <1>4, <1>5, <1>6, <1>7, <1>8, <1>9, StartedFits

\* Handlers that save what they loaded, but for columns nothing here depends on.
LEMMA SaverFits ==
  ASSUME AccountsInv, Overlapping \subseteq {"login"}, NEW c \in Calls, NEW u \in Users,
         NEW op \in Operations \ {"forgot"}, NEW task \in {"save", "saveApproval", "link", "photo"},
         op \in OpsOf(task), MayStart(c, op), users[u].exists,
         op \in {"approve", "reject"} => users[u].isPendingApproval,
         NEW row \in User, row.exists, row.password = users[u].password,
         row.resetToken = users[u].resetToken,
         Start(c, op, task, u, row), UNCHANGED <<users, welcome, secrets, resets, now>>
  PROVE  AccountsInv'
<1>1. task \in Tasks \ {"none", "retry", "saveReset", "insert"}
  BY DEF Tasks
<1>2. /\ secrets' \in Secrets /\ secrets' >= secrets /\ row.password <= secrets'
      /\ row.resetToken <= secrets' /\ row.password >= users[u].password
  BY Loaded
<1> QED BY <1>1, <1>2, StartedFits

LEMMA SaversFit ==
  ASSUME AccountsInv, Overlapping \subseteq {"login"}, NEW c \in Calls, NEW u \in Users,
         \/ ApprovePending(c, u) \/ RejectPending(c, u) \/ UpdateUser(c, u) \/ UpdateRoles(c, u)
         \/ ToggleActive(c, u) \/ UpdateProfile(c, u) \/ SignInWithOAuth(c, u)
  PROVE  AccountsInv'
<1> USE DEF Operations, OpsOf
<1>1. users[u] \in User
  BY Loaded
<1>2. CASE ApprovePending(c, u)
  <2>1. PICK row : row = [users[u] EXCEPT !.isPendingApproval = FALSE, !.isActive = TRUE]
    OBVIOUS
  <2>2. /\ row \in User /\ row.exists = users[u].exists /\ row.password = users[u].password
        /\ row.resetToken = users[u].resetToken
    BY <1>1, <2>1 DEF User
  <2> QED BY <1>2, <2>1, <2>2, SaverFits DEF ApprovePending, CanDecide
<1>3. CASE RejectPending(c, u)
  <2>1. PICK row : row = [users[u] EXCEPT !.isPendingApproval = FALSE, !.isActive = FALSE]
    OBVIOUS
  <2>2. /\ row \in User /\ row.exists = users[u].exists /\ row.password = users[u].password
        /\ row.resetToken = users[u].resetToken
    BY <1>1, <2>1 DEF User
  <2> QED BY <1>3, <2>1, <2>2, SaverFits DEF RejectPending, CanDecide
<1>4. CASE UpdateUser(c, u)
  <2>1. PICK m \in Users \cup {NoUser} :
          Start(c, "update", "save", u, [users[u] EXCEPT !.supervisor = m])
    BY <1>4 DEF UpdateUser
  <2>2. PICK row : row = [users[u] EXCEPT !.supervisor = m]
    OBVIOUS
  <2>3. /\ row \in User /\ row.exists = users[u].exists /\ row.password = users[u].password
        /\ row.resetToken = users[u].resetToken
    BY <1>1, <2>2 DEF User
  <2> QED BY <1>4, <2>1, <2>2, <2>3, SaverFits DEF UpdateUser
<1>5. CASE UpdateRoles(c, u)
  <2>1. PICK roles \in RoleSets :
          Start(c, "roles", "save", u, [users[u] EXCEPT !.roles = roles])
    BY <1>5 DEF UpdateRoles
  <2>2. PICK row : row = [users[u] EXCEPT !.roles = roles]
    OBVIOUS
  <2>3. /\ row \in User /\ row.exists = users[u].exists /\ row.password = users[u].password
        /\ row.resetToken = users[u].resetToken
    BY <1>1, <2>2, AccountsAssumption DEF User
  <2> QED BY <1>5, <2>1, <2>2, <2>3, SaverFits DEF UpdateRoles
<1>6. CASE ToggleActive(c, u)
  <2>1. PICK row : row = [users[u] EXCEPT !.isActive = ~@]
    OBVIOUS
  <2>2. /\ row \in User /\ row.exists = users[u].exists /\ row.password = users[u].password
        /\ row.resetToken = users[u].resetToken
    BY <1>1, <2>1 DEF User
  <2> QED BY <1>6, <2>1, <2>2, SaverFits DEF ToggleActive
<1>7. CASE UpdateProfile(c, u)
  BY <1>1, <1>7, SaverFits DEF UpdateProfile, Authenticated
<1>8. CASE SignInWithOAuth(c, u)
  <2>1. PICK task \in {"link", "photo"} : Start(c, "oauth", task, u, users[u])
    BY <1>8 DEF SignInWithOAuth
  <2> QED BY <1>1, <1>8, <2>1, SaverFits DEF SignInWithOAuth
<1> QED BY <1>2, <1>3, <1>4, <1>5, <1>6, <1>7, <1>8

LEMMA DeleteOrLoginFits ==
  ASSUME AccountsInv, Overlapping \subseteq {"login"}, NEW c \in Calls, NEW u \in Users,
         DeleteUser(c, u) \/ Login(c, u)
  PROVE  AccountsInv'
<1>1. /\ users[u] \in User /\ secrets' = secrets /\ secrets \in Secrets /\ secrets \in Nat
      /\ users[u].password <= secrets /\ users[u].resetToken <= secrets
  BY Loaded DEF DeleteUser, Login
<1>2. CASE DeleteUser(c, u)
  BY <1>1, <1>2, StartedFits DEF DeleteUser, Operations, Tasks, OpsOf
<1>3. CASE Login(c, u)
  BY <1>1, <1>3, StartedFits DEF Login, Operations, Tasks, OpsOf
<1> QED BY <1>2, <1>3

LEMMA PasswordFits ==
  ASSUME AccountsInv, Overlapping \subseteq {"login"}, NEW c \in Calls, NEW u \in Users,
         ChangePassword(c, u)
  PROVE  AccountsInv'
<1>1. PICK s \in Secrets :
        NewSecret(s) /\ Start(c, "change", "save", u, [users[u] EXCEPT !.password = s])
  BY DEF ChangePassword
<1>2. PICK row : row = [users[u] EXCEPT !.password = s]
  OBVIOUS
<1>3. /\ row \in User /\ row.exists = users[u].exists /\ row.password = s
      /\ row.resetToken = users[u].resetToken
  BY <1>1, <1>2, Loaded DEF User
<1>4. /\ s = secrets + 1 /\ secrets' = s /\ secrets \in Nat /\ users[u].password <= secrets
      /\ users[u].password \in Nat /\ users[u].resetToken \in Nat /\ users[u].resetToken <= secrets
  BY <1>1, Loaded DEF NewSecret
<1>5. row.password >= users[u].password /\ row.password <= secrets' /\ row.resetToken <= secrets'
      /\ secrets' >= secrets
  BY <1>3, <1>4
<1>6. "change" \in Operations /\ "save" \in Tasks /\ "change" \in OpsOf("save")
  BY DEF Operations, Tasks, OpsOf
<1> QED BY <1>1, <1>2, <1>3, <1>4, <1>5, <1>6, StartedFits DEF ChangePassword, Authenticated

LEMMA ForgotFits ==
  ASSUME AccountsInv, Overlapping \subseteq {"login"}, NEW c \in Calls, NEW u \in Users,
         ForgotPassword(c, u)
  PROVE  AccountsInv'
<1>1. PICK t \in Secrets :
        /\ NewSecret(t)
        /\ Start(c, "forgot", "save", u,
                 [users[u] EXCEPT !.resetToken = t, !.resetExpiry = now + ResetLife])
  BY DEF ForgotPassword
<1>2. PICK row : row = [users[u] EXCEPT !.resetToken = t, !.resetExpiry = now + ResetLife]
  OBVIOUS
<1>3. now + ResetLife \in 0..(MaxNow + ResetLife)
  BY TypeIsOK, AccountsAssumption DEF TypeOK
<1>4. /\ row \in User /\ row.exists = users[u].exists /\ row.password = users[u].password
      /\ row.resetToken = t
  BY <1>1, <1>2, <1>3, Loaded DEF User
<1>5. /\ t = secrets + 1 /\ secrets' = t /\ secrets \in Nat /\ users[u].password <= secrets
      /\ users[u].password \in Nat
  BY <1>1, Loaded DEF NewSecret
<1>6. /\ row.password >= users[u].password /\ row.password <= secrets' /\ row.resetToken <= secrets'
      /\ secrets' >= secrets /\ t # 0
  BY <1>4, <1>5
<1>7. resets[t] = 0
  BY <1>5 DEF AccountsInv, SecretsFit
<1>8. \A o \in Users : users[o].resetToken # t
  BY <1>5, Loaded
<1>9. "forgot" \in Operations /\ "save" \in Tasks /\ "forgot" \in OpsOf("save")
  BY DEF Operations, Tasks, OpsOf
<1> QED BY <1>1, <1>2, <1>4, <1>5, <1>6, <1>7, <1>8, <1>9, StartedFits DEF ForgotPassword

LEMMA ResetFits ==
  ASSUME AccountsInv, Overlapping \subseteq {"login"}, NEW c \in Calls, NEW u \in Users,
         ResetPassword(c, u)
  PROVE  AccountsInv'
<1>1. PICK s \in Secrets :
        /\ NewSecret(s)
        /\ call' = [call EXCEPT ![c] = [Idle EXCEPT !.task = "saveReset", !.op = "reset",
                      !.id = u, !.row = users[u], !.secret = s]]
  BY DEF ResetPassword
<1>2. PICK k : k = [Idle EXCEPT !.task = "saveReset", !.op = "reset",
                      !.id = u, !.row = users[u], !.secret = s]
  OBVIOUS
<1>3. /\ k \in CallState /\ k.task = "saveReset" /\ k.op = "reset" /\ k.id = u
      /\ k.row = users[u] /\ k.secret = s
  BY <1>1, <1>2, Loaded, IdleIsFit DEF Idle, CallState, Tasks, Operations
<1>4. /\ s = secrets + 1 /\ secrets' = s /\ secrets \in Nat /\ users[u].password <= secrets
      /\ users[u].password \in Nat /\ users[u].resetToken \in Nat /\ users[u].resetToken <= secrets
  BY <1>1, Loaded DEF NewSecret
<1>5. HeldFits(k)
  BY <1>3, <1>4 DEF HeldFits, ResetPassword, CanReset
<1>6. /\ k.row.password <= secrets' /\ k.row.resetToken <= secrets' /\ k.secret <= secrets'
      /\ secrets' >= secrets
  BY <1>3, <1>4
<1>7. k.op \in OpsOf(k.task)
  BY <1>3 DEF OpsOf
<1>8. MayStart(c, k.op) /\ UNCHANGED <<users, welcome, resets, now>>
  BY <1>3 DEF ResetPassword
<1> QED BY <1>1, <1>2, <1>3, <1>4, <1>5, <1>6, <1>7, <1>8, StartFits

LEMMA RequestFits ==
  ASSUME AccountsInv, Overlapping \subseteq {"login"}, NEW c \in Calls, Request(c)
  PROVE  AccountsInv'
<1>1. PICK u \in Users :
        \/ Register(c, u) \/ ApprovePending(c, u) \/ RejectPending(c, u)
        \/ UpdateUser(c, u) \/ UpdateRoles(c, u) \/ ToggleActive(c, u) \/ DeleteUser(c, u)
        \/ ChangePassword(c, u) \/ ForgotPassword(c, u) \/ ResetPassword(c, u)
        \/ UpdateProfile(c, u) \/ Login(c, u) \/ SignInWithOAuth(c, u)
  BY DEF Request
<1> QED
  BY <1>1, RegisterFits, SaversFit, DeleteOrLoginFits, PasswordFits, ForgotFits, ResetFits

\* Beside a handler that is no sign-in, only sign-ins that track themselves run.
LEMMA OthersSignIn ==
  ASSUME AccountsInv, NEW c \in Calls, NEW d \in Calls, c # d, ~Free(c),
         call[c].op # "login"
  PROVE  call[d].task \in {"none", "track"}
<1>1. call[c].task # "none" /\ (call[d].task # "none" => call[d].op = "login")
  BY DEF AccountsInv, SignInsAside, Free
<1>2. call[d].op \in OpsOf(call[d].task) /\ call[d].task \in Tasks
  BY TypeIsOK DEF AccountsInv, WellFormed, TypeOK, CallState
<1> QED BY <1>1, <1>2 DEF OpsOf, Tasks

\* The step of a handler that is no sign-in, or the only one to hold a row: what has
\* to be shown of the state it leaves.
LEMMA StepFits ==
  ASSUME AccountsInv, NEW c \in Calls, ~Free(c), call[c].op # "login",
         NEW k \in CallState, call' = [call EXCEPT ![c] = k],
         k.task # "retry", k.op \in OpsOf(k.task),
         k.task # "none" => k.op = call[c].op /\ k.id = call[c].id,
         k.row.password <= secrets, k.row.resetToken <= secrets, k.secret <= secrets,
         users' \in [Users -> User], resets' \in [Secrets -> Nat],
         welcome' \in [balance : SUBSET Users, member : SUBSET Users],
         UNCHANGED <<secrets, now>>,
         \A u \in Users : users'[u].password <= secrets /\ users'[u].resetToken <= secrets,
         \A t \in Secrets : resets'[t] <= 1 /\ (t > secrets => resets'[t] = 0),
         \A u \in Users : users'[u].resetToken # 0 => resets'[users'[u].resetToken] = 0,
         \A u, o \in Users :
           u # o /\ users'[u].resetToken # 0 => users'[u].resetToken # users'[o].resetToken,
         Holding(k) => HeldFits(k)', k.task = "insert" => NewcomerFits(k)'
  PROVE  AccountsInv'
<1>1. \A d \in Calls : call'[d] = IF d = c THEN k ELSE call[d]
  BY TypeIsOK DEF TypeOK
<1>2. \A d \in Calls : d # c => call[d].task \in {"none", "track"}
  BY OthersSignIn
<1>3. WellFormed'
  <2>1. TypeOK'
    BY TypeIsOK DEF TypeOK
  <2>2. \A d \in Calls : /\ call'[d].op \in OpsOf(call'[d].task)
                         /\ call'[d].task # "none" => call'[d].id \in Users
    BY <1>1 DEF AccountsInv, WellFormed, Free
  <2> QED BY <2>1, <2>2 DEF WellFormed, Free
<1>4. SignInsAside'
  BY <1>1 DEF AccountsInv, SignInsAside, Free
<1>5. SecretsFit'
  <2>1. \A d \in Calls : /\ call'[d].row.password <= secrets /\ call'[d].row.resetToken <= secrets
                         /\ call'[d].secret <= secrets
    BY <1>1 DEF AccountsInv, SecretsFit
  <2> QED BY <2>1 DEF SecretsFit
<1>6. HandlersFit'
  <2> SUFFICES ASSUME NEW d \in Calls
               PROVE  /\ Holding(call'[d]) => HeldFits(call[d])'
                      /\ call'[d].task = "insert" => NewcomerFits(call[d])'
                      /\ call'[d].task # "retry"
    BY DEF HandlersFit, Holding
  <2>1. CASE d = c
    <3>1. call'[d] = k
      BY <1>1, <2>1
    <3> QED BY <3>1 DEF HeldFits, NewcomerFits
  <2>2. CASE d # c
    BY <1>1, <1>2, <2>2 DEF Holding
  <2> QED BY <2>1, <2>2
<1> QED BY <1>3, <1>4, <1>5, <1>6 DEF AccountsInv

\* A slot whose handler is in flight.
LEMMA InFlight ==
  ASSUME AccountsInv, NEW c \in Calls, ~Free(c)
  PROVE  /\ call[c] \in CallState /\ call[c].id \in Users /\ call[c].row \in User
         /\ call[c].op \in OpsOf(call[c].task) /\ call[c].task \in Tasks \ {"none", "retry"}
         /\ Holding(call[c]) => HeldFits(call[c])
         /\ call[c].task = "insert" => NewcomerFits(call[c])
         /\ call[c].row.password <= secrets /\ call[c].row.resetToken <= secrets
         /\ call[c].secret <= secrets
         /\ users \in [Users -> User] /\ resets \in [Secrets -> Nat]
         /\ secrets \in Nat /\ secrets \in Secrets
  BY TypeIsOK, SecretsAreNumbers
     DEF AccountsInv, WellFormed, TypeOK, CallState, Free, HandlersFit, SecretsFit

\* What the entity a handler holds leaves in the table.
LEMMA StoredFits ==
  ASSUME AccountsInv, NEW c \in Calls, Holding(call[c]), call[c].task # "saveReset",
         \/ users' = users
         \/ users' = [users EXCEPT ![call[c].id] = call[c].row]
  PROVE  /\ users' \in [Users -> User]
         /\ \A u \in Users : users'[u].password <= secrets /\ users'[u].resetToken <= secrets
         /\ \A u \in Users : users'[u].resetToken # 0 => resets[users'[u].resetToken] = 0
         /\ \A u, o \in Users :
              u # o /\ users'[u].resetToken # 0 => users'[u].resetToken # users'[o].resetToken
         /\ call[c].op = "oauth" =>
              /\ call[c].row.exists /\ users'[call[c].id].exists
              /\ call[c].row.password >= users'[call[c].id].password
              /\ call[c].row.resetToken = users'[call[c].id].resetToken
<1> DEFINE id == call[c].id
           row == call[c].row
<1>1. ~Free(c)
  BY DEF Holding, Free
<1>2. /\ id \in Users /\ row \in User /\ HeldFits(call[c])
      /\ row.password <= secrets /\ row.resetToken <= secrets /\ users \in [Users -> User]
  BY <1>1, InFlight
<1>3. /\ \A u \in Users : users[u].password <= secrets /\ users[u].resetToken <= secrets
      /\ \A u \in Users : users[u].resetToken # 0 => resets[users[u].resetToken] = 0
      /\ \A u, o \in Users :
           u # o /\ users[u].resetToken # 0 => users[u].resetToken # users[o].resetToken
  BY DEF AccountsInv, SecretsFit
<1>4. /\ call[c].op # "forgot" => row.resetToken = users[id].resetToken
      /\ call[c].op = "forgot" =>
           /\ row.resetToken # 0 /\ resets[row.resetToken] = 0
           /\ \A o \in Users : users[o].resetToken # row.resetToken
      /\ row.exists /\ users[id].exists /\ row.password >= users[id].password
  BY <1>2 DEF HeldFits
<1>5. CASE users' = users
  BY <1>2, <1>3, <1>4, <1>5
<1>6. CASE users' = [users EXCEPT ![id] = row]
  <2> HIDE DEF id, row
  <2>1. \A u \in Users : users'[u] = IF u = id THEN row ELSE users[u]
    BY <1>2, <1>6
  <2>2. users' \in [Users -> User]
    BY <1>2, <1>6
  <2>3. \A u \in Users : users'[u].password <= secrets /\ users'[u].resetToken <= secrets
    BY <1>2, <1>3, <2>1
  <2>4. \A u \in Users : users'[u].resetToken # 0 => resets[users'[u].resetToken] = 0
    BY <1>2, <1>3, <1>4, <2>1
  <2>5. ASSUME NEW u \in Users, NEW o \in Users, u # o, users'[u].resetToken # 0
        PROVE  users'[u].resetToken # users'[o].resetToken
    <3>1. CASE call[c].op = "forgot"
      BY <1>2, <1>3, <1>4, <2>1, <2>5, <3>1
    <3>2. CASE call[c].op # "forgot"
      BY <1>2, <1>3, <1>4, <2>1, <2>5, <3>2
    <3> QED BY <3>1, <3>2
  <2>6. row.password \in Nat
    BY <1>2, AccountsAssumption DEF User, Secrets
  <2> QED BY <1>2, <1>4, <2>1, <2>2, <2>3, <2>4, <2>5, <2>6 DEF id, row
<1> QED BY <1>5, <1>6

\* A handler that goes on with another step holds what it held.
LEMMA GoesOn ==
  ASSUME NEW k0 \in CallState, NEW k, NEW task \in Tasks, k = [k0 EXCEPT !.task = task]
  PROVE  /\ k \in CallState /\ k.task = task /\ k.op = k0.op /\ k.id = k0.id
         /\ k.row = k0.row /\ k.secret = k0.secret
  BY DEF CallState

LEMMA ThenIs ==
  ASSUME AccountsInv, NEW c \in Calls, NEW task \in Tasks, Then(c, task)
  PROVE  call' = [call EXCEPT ![c] = [call[c] EXCEPT !.task = task]]
  BY DEF Then

\* A handler that saves what it holds, and returns or goes on.
LEMMA SaveFits ==
  ASSUME AccountsInv, NEW c \in Calls, Save(c)
  PROVE  AccountsInv'
<1>1. Holding(call[c]) /\ ~Free(c) /\ call[c].task = "save"
  BY DEF Save, Holding, Free
<1>2. \/ users' = users
      \/ users' = [users EXCEPT ![call[c].id] = call[c].row]
  BY DEF Save, SaveRow
<1>3. call[c].op # "login"
  BY <1>1, InFlight DEF OpsOf
<1>4. /\ UNCHANGED <<welcome, secrets, resets, now>>
      /\ call' = [call EXCEPT ![c] = Idle]
  BY DEF Save, Return
<1>5. Idle.row.password <= secrets /\ Idle.row.resetToken <= secrets /\ Idle.secret <= secrets
  BY <1>1, InFlight, IdleIsFit
<1>6. Idle.op \in OpsOf(Idle.task)
  BY IdleIsFit DEF OpsOf
<1>7. /\ resets \in [Secrets -> Nat] /\ welcome \in [balance : SUBSET Users, member : SUBSET Users]
      /\ \A t \in Secrets : resets[t] <= 1 /\ (t > secrets => resets[t] = 0)
  BY InFlight, <1>1 DEF AccountsInv, SecretsFit, WellFormed
<1> QED BY <1>1, <1>2, <1>3, <1>4, <1>5, <1>6, <1>7, StoredFits, StepFits, IdleIsFit

LEMMA GoingOnFits ==
  ASSUME AccountsInv, NEW c \in Calls,
         SaveApproval(c) \/ Link(c) \/ (SyncPhoto(c) /\ call[c].op # "login")
  PROVE  AccountsInv'
<1>1. Holding(call[c]) /\ ~Free(c) /\ call[c].task \in {"saveApproval", "link", "photo"}
  BY DEF SaveApproval, Link, SyncPhoto, Holding, Free
<1>2. \/ users' = users
      \/ users' = [users EXCEPT ![call[c].id] = call[c].row]
  BY DEF SaveApproval, Link, SyncPhoto, SaveRow
<1>3. PICK task \in Tasks :
        /\ Then(c, task)
        /\ task = IF call[c].task = "saveApproval" THEN "allocate"
                  ELSE IF call[c].task = "link" THEN "photo" ELSE "track"
  BY <1>1 DEF SaveApproval, Link, SyncPhoto, Tasks
<1>4. PICK k : k = [call[c] EXCEPT !.task = task]
  OBVIOUS
<1>5. /\ k \in CallState /\ k.task = task /\ k.op = call[c].op /\ k.id = call[c].id
      /\ k.row = call[c].row /\ k.secret = call[c].secret
  BY <1>1, <1>4, InFlight, GoesOn
<1>6. call' = [call EXCEPT ![c] = k] /\ UNCHANGED <<welcome, secrets, resets, now>>
  BY <1>3, <1>4 DEF Then, SaveApproval, Link, SyncPhoto
<1>7. /\ call[c].op # "login" /\ k.op \in OpsOf(k.task)
      /\ task = "photo" => k.op = "oauth"
  BY <1>1, <1>3, <1>5, InFlight DEF OpsOf
<1>8. /\ k.row.password <= secrets /\ k.row.resetToken <= secrets /\ k.secret <= secrets
      /\ resets \in [Secrets -> Nat] /\ welcome \in [balance : SUBSET Users, member : SUBSET Users]
      /\ \A t \in Secrets : resets[t] <= 1 /\ (t > secrets => resets[t] = 0)
  BY InFlight, <1>1, <1>5 DEF AccountsInv, SecretsFit, WellFormed
<1>9. Holding(k) => HeldFits(k)'
  <2> SUFFICES ASSUME Holding(k) PROVE HeldFits(k)'
    OBVIOUS
  <2>1. task = "photo" /\ k.op = "oauth"
    BY <1>1, <1>3, <1>5, <1>7 DEF Holding
  <2>2. /\ call[c].row.exists /\ users'[call[c].id].exists
        /\ call[c].row.password >= users'[call[c].id].password
        /\ call[c].row.resetToken = users'[call[c].id].resetToken
    BY <1>1, <1>2, <1>5, <2>1, StoredFits
  <2> QED BY <1>5, <2>1, <2>2 DEF HeldFits
<1>10. task # "insert" /\ task # "retry" /\ k.task # "none"
  BY <1>1, <1>3, <1>5
<1> QED
  BY <1>1, <1>2, <1>5, <1>6, <1>7, <1>8, <1>9, <1>10, StoredFits, StepFits

\* The rows a step leaves alone.
LEMMA SameRowsFit ==
  ASSUME AccountsInv, users' = users, UNCHANGED <<secrets, resets>>
  PROVE  /\ users' \in [Users -> User] /\ resets' \in [Secrets -> Nat]
         /\ \A u \in Users : users'[u].password <= secrets /\ users'[u].resetToken <= secrets
         /\ \A t \in Secrets : resets'[t] <= 1 /\ (t > secrets => resets'[t] = 0)
         /\ \A u \in Users : users'[u].resetToken # 0 => resets'[users'[u].resetToken] = 0
         /\ \A u, o \in Users :
              u # o /\ users'[u].resetToken # 0 => users'[u].resetToken # users'[o].resetToken
  BY TypeIsOK DEF AccountsInv, SecretsFit, TypeOK

LEMMA IdleFits ==
  ASSUME AccountsInv
  PROVE  /\ Idle \in CallState /\ Idle.task = "none" /\ Idle.op \in OpsOf(Idle.task)
         /\ Idle.row.password <= secrets /\ Idle.row.resetToken <= secrets
         /\ Idle.secret <= secrets /\ ~Holding(Idle)
  BY TypeIsOK, SecretsAreNumbers, IdleIsFit DEF OpsOf

LEMMA WelcomeFits ==
  ASSUME AccountsInv, NEW c \in Calls, Allocate(c) \/ JoinDefaultCommunity(c)
  PROVE  AccountsInv'
<1>1. ~Free(c) /\ call[c].task \in {"allocate", "join"}
  BY DEF Allocate, JoinDefaultCommunity, Free
<1>2. /\ call[c].op = "approve" /\ call[c].id \in Users /\ users' = users
      /\ UNCHANGED <<secrets, resets, now>>
  BY <1>1, InFlight DEF OpsOf, Allocate, JoinDefaultCommunity
<1>3. welcome' \in [balance : SUBSET Users, member : SUBSET Users]
  BY <1>2 DEF AccountsInv, WellFormed, Allocate, JoinDefaultCommunity
<1>4. CASE Return(c)
  BY <1>1, <1>2, <1>3, <1>4, SameRowsFit, IdleFits, StepFits DEF Return
<1>5. CASE Then(c, "join")
  <2>1. PICK k : k = [call[c] EXCEPT !.task = "join"]
    OBVIOUS
  <2>2. /\ k \in CallState /\ k.task = "join" /\ k.op = call[c].op /\ k.id = call[c].id
        /\ k.row = call[c].row /\ k.secret = call[c].secret
    BY <1>1, <2>1, InFlight, GoesOn DEF Tasks
  <2>3. /\ call' = [call EXCEPT ![c] = k] /\ k.op \in OpsOf(k.task) /\ ~Holding(k)
        /\ k.row.password <= secrets /\ k.row.resetToken <= secrets /\ k.secret <= secrets
    BY <1>1, <1>2, <1>5, <2>1, <2>2, InFlight DEF Then, OpsOf, Holding
  <2> QED BY <1>1, <1>2, <1>3, <2>2, <2>3, SameRowsFit, StepFits
<1> QED BY <1>4, <1>5 DEF Allocate, JoinDefaultCommunity

LEMMA DeletedFits ==
  ASSUME AccountsInv, NEW c \in Calls, Delete(c)
  PROVE  AccountsInv'
<1>1. ~Free(c) /\ call[c].task = "delete"
  BY DEF Delete, Free
<1>2. /\ call[c].op = "delete" /\ call[c].id \in Users
      /\ UNCHANGED <<secrets, resets, now>> /\ call' = [call EXCEPT ![c] = Idle]
  BY <1>1, InFlight DEF OpsOf, Delete, Return
<1>3. welcome' \in [balance : SUBSET Users, member : SUBSET Users]
  BY <1>2 DEF AccountsInv, WellFormed, Delete
<1>4. CASE users' = users
  BY <1>1, <1>2, <1>3, <1>4, SameRowsFit, IdleFits, StepFits
<1>5. CASE users' = [users EXCEPT ![call[c].id] = Nobody]
  <2>1. PICK id : id = call[c].id
    OBVIOUS
  <2>2. /\ users \in [Users -> User] /\ resets \in [Secrets -> Nat] /\ secrets \in Nat
    BY <1>1, InFlight
  <2>3. \A u \in Users : users'[u] = IF u = id THEN Nobody ELSE users[u]
    BY <1>5, <2>1, <2>2
  <2>4. users' \in [Users -> User]
    BY <1>5, <2>2, IdleIsFit
  <2>5. /\ \A u \in Users : users[u].password <= secrets /\ users[u].resetToken <= secrets
        /\ \A t \in Secrets : resets[t] <= 1 /\ (t > secrets => resets[t] = 0)
        /\ \A u \in Users : users[u].resetToken # 0 => resets[users[u].resetToken] = 0
        /\ \A u, o \in Users :
             u # o /\ users[u].resetToken # 0 => users[u].resetToken # users[o].resetToken
    BY DEF AccountsInv, SecretsFit
  <2>6. \A u \in Users : users'[u].password <= secrets /\ users'[u].resetToken <= secrets
    BY <2>2, <2>3, <2>5, IdleIsFit
  <2>7. \A u \in Users : users'[u].resetToken # 0 => resets[users'[u].resetToken] = 0
    BY <2>3, <2>5, IdleIsFit
  <2>8. \A u, o \in Users :
          u # o /\ users'[u].resetToken # 0 => users'[u].resetToken # users'[o].resetToken
    BY <2>3, <2>5, IdleIsFit
  <2> QED BY <1>1, <1>2, <1>3, <2>2, <2>4, <2>5, <2>6, <2>7, <2>8, IdleFits, StepFits
<1> QED BY <1>4, <1>5 DEF Delete

LEMMA InsertedFits ==
  ASSUME AccountsInv, NEW c \in Calls, Insert(c)
  PROVE  AccountsInv' /\ (users' # users => call[c].row.isPendingApproval /\ call[c].task = "insert"
                            /\ users' = [users EXCEPT ![call[c].id] = call[c].row])
<1> DEFINE id == call[c].id
           row == call[c].row
<1>1. ~Free(c) /\ call[c].task = "insert"
  BY InFlight DEF Insert, Free
<1>2. /\ call[c].op = "register" /\ id \in Users /\ row \in User /\ NewcomerFits(call[c])
      /\ UNCHANGED <<welcome, secrets, resets, now>>
      /\ row.password <= secrets /\ row.resetToken <= secrets
      /\ users \in [Users -> User] /\ resets \in [Secrets -> Nat] /\ secrets \in Nat
  BY <1>1, InFlight DEF OpsOf, Insert
<1>3. /\ ~users[id].exists /\ row.isPendingApproval /\ row.resetToken = 0
      /\ \A o \in Users : users[o].number # row.number
  BY <1>2 DEF NewcomerFits
<1>4. ~Duplicate(id, row)
  BY <1>3 DEF Duplicate
<1>5. /\ call' = [call EXCEPT ![c] = Idle]
      /\ users' = users \/ users' = [users EXCEPT ![id] = row]
  BY <1>4 DEF Insert, Return
<1>6. welcome' \in [balance : SUBSET Users, member : SUBSET Users]
  BY <1>2 DEF AccountsInv, WellFormed
<1>7. CASE users' = users
  BY <1>1, <1>2, <1>5, <1>6, <1>7, SameRowsFit, IdleFits, StepFits
<1>8. CASE users' = [users EXCEPT ![id] = row]
  <2>1. PICK u0, row0 : u0 = id /\ row0 = row
    OBVIOUS
  <2>3. \A u \in Users : users'[u] = IF u = u0 THEN row0 ELSE users[u]
    BY <1>2, <1>8, <2>1
  <2>4. users' \in [Users -> User]
    BY <1>2, <1>8
  <2>5. /\ \A u \in Users : users[u].password <= secrets /\ users[u].resetToken <= secrets
        /\ \A t \in Secrets : resets[t] <= 1 /\ (t > secrets => resets[t] = 0)
        /\ \A u \in Users : users[u].resetToken # 0 => resets[users[u].resetToken] = 0
        /\ \A u, o \in Users :
             u # o /\ users[u].resetToken # 0 => users[u].resetToken # users[o].resetToken
    BY DEF AccountsInv, SecretsFit
  <2>6. \A u \in Users : users'[u].password <= secrets /\ users'[u].resetToken <= secrets
    BY <1>2, <2>1, <2>3, <2>5
  <2>7. \A u \in Users : users'[u].resetToken # 0 => resets[users'[u].resetToken] = 0
    BY <1>3, <2>1, <2>3, <2>5
  <2>8. \A u, o \in Users :
          u # o /\ users'[u].resetToken # 0 => users'[u].resetToken # users'[o].resetToken
    BY <1>3, <2>1, <2>3, <2>5
  <2> HIDE DEF id, row
  <2>9. AccountsInv'
    BY <1>1, <1>2, <1>5, <1>6, <2>4, <2>5, <2>6, <2>7, <2>8, IdleFits, StepFits
  <2> QED BY <1>1, <1>3, <1>8, <2>9 DEF id, row
<1> QED BY <1>5, <1>7, <1>8

LEMMA ResetSavedFits ==
  ASSUME AccountsInv, NEW c \in Calls, SaveReset(c)
  PROVE  AccountsInv'
<1>1. ~Free(c) /\ call[c].task = "saveReset" /\ Holding(call[c])
  BY DEF SaveReset, Free, Holding
<1>2. PICK id, row, s, t :
        id = call[c].id /\ row = call[c].row /\ s = call[c].secret /\ t = row.resetToken
  OBVIOUS
<1>3. /\ call[c].op = "reset" /\ id \in Users /\ HeldFits(call[c]) /\ row \in User
      /\ UNCHANGED <<welcome, secrets, now>> /\ call' = [call EXCEPT ![c] = Idle]
      /\ users' = [users EXCEPT ![id] = Reset(row, s)]
      /\ resets' = [resets EXCEPT ![t] = @ + 1]
      /\ s <= secrets /\ s \in Secrets
      /\ users \in [Users -> User] /\ resets \in [Secrets -> Nat] /\ secrets \in Nat
  BY <1>1, <1>2, InFlight DEF OpsOf, SaveReset, Return, CallState
<1>4. row = users[id] /\ t # 0 /\ t = users[id].resetToken
  BY <1>1, <1>2, <1>3 DEF HeldFits
<1>5. /\ \A u \in Users : users[u].password <= secrets /\ users[u].resetToken <= secrets
      /\ \A n \in Secrets : resets[n] <= 1 /\ (n > secrets => resets[n] = 0)
      /\ \A u \in Users : users[u].resetToken # 0 => resets[users[u].resetToken] = 0
      /\ \A u, o \in Users :
           u # o /\ users[u].resetToken # 0 => users[u].resetToken # users[o].resetToken
  BY DEF AccountsInv, SecretsFit
<1>6. PICK new : new = Reset(row, s)
  OBVIOUS
<1>7. new \in User /\ new.password = s /\ new.resetToken = 0
  <2>1. 0 \in Secrets /\ 0 \in 0..(MaxNow + ResetLife)
    BY AccountsAssumption DEF Secrets
  <2> QED BY <1>3, <1>6, <2>1 DEF Reset, User
<1>8. \A u \in Users : users'[u] = IF u = id THEN new ELSE users[u]
  BY <1>3, <1>6
<1>9. users' \in [Users -> User]
  BY <1>3, <1>6, <1>7
<1>10. t \in Secrets /\ resets[t] = 0 /\ t <= secrets
  BY <1>3, <1>4, <1>5 DEF User
<1>11. \A n \in Secrets : resets'[n] = IF n = t THEN 1 ELSE resets[n]
  BY <1>3, <1>10
<1>12. resets' \in [Secrets -> Nat]
  BY <1>3, <1>10
<1>13. \A u \in Users : users'[u].password <= secrets /\ users'[u].resetToken <= secrets
  BY <1>3, <1>5, <1>7, <1>8
<1>14. \A n \in Secrets : resets'[n] <= 1 /\ (n > secrets => resets'[n] = 0)
  <2>1. \A n \in Secrets : n \in Nat
    BY AccountsAssumption DEF Secrets
  <2> QED BY <2>1, <1>3, <1>5, <1>10, <1>11
<1>15. \A u \in Users : users'[u].resetToken # 0 => resets'[users'[u].resetToken] = 0
  <2>1. \A u \in Users : users[u].resetToken \in Secrets
    BY <1>3 DEF User
  <2>2. ASSUME NEW u \in Users, u # id, users[u].resetToken # 0
        PROVE  resets'[users[u].resetToken] = 0
    <3>1. users[u].resetToken # t
      BY <1>3, <1>4, <1>5, <2>2
    <3>2. resets[users[u].resetToken] = 0
      BY <1>5, <2>2
    <3> QED BY <2>1, <2>2, <3>1, <3>2, <1>11
  <2> QED BY <2>2, <1>7, <1>8
<1>16. \A u, o \in Users :
         u # o /\ users'[u].resetToken # 0 => users'[u].resetToken # users'[o].resetToken
  BY <1>5, <1>7, <1>8
<1>17. welcome' \in [balance : SUBSET Users, member : SUBSET Users]
  BY <1>3 DEF AccountsInv, WellFormed
<1> QED
  BY <1>1, <1>3, <1>9, <1>12, <1>13, <1>14, <1>15, <1>16, <1>17, IdleFits, StepFits

\* What login writes leaves every account as it is; so do the clock and a restart.
LEMMA AsideFits ==
  ASSUME AccountsInv, users' = users,
         \/ \E c \in Calls : call' = [call EXCEPT ![c] = Idle]
         \/ call' = [c \in Calls |-> Idle]
         \/ call' = call,
         UNCHANGED <<welcome, secrets, resets>>, now' \in 0..MaxNow
  PROVE  AccountsInv'
<1>1. \A c \in Calls : call'[c] = call[c] \/ call'[c] = Idle
  BY TypeIsOK DEF TypeOK
<1>2. call' \in [Calls -> CallState]
  BY TypeIsOK, IdleIsFit DEF TypeOK
<1>3. WellFormed'
  <2>1. \A c \in Calls : /\ call'[c].op \in OpsOf(call'[c].task)
                         /\ call'[c].task # "none" => call'[c].id \in Users
    BY <1>1, IdleFits DEF AccountsInv, WellFormed, Free
  <2> QED BY <1>2, <2>1, TypeIsOK DEF AccountsInv, WellFormed, TypeOK, Free
<1>4. SignInsAside'
  BY <1>1, IdleFits DEF AccountsInv, SignInsAside, Free
<1>5. SecretsFit'
  BY <1>1, IdleFits DEF AccountsInv, SecretsFit
<1>6. HandlersFit'
  <2> SUFFICES ASSUME NEW d \in Calls
               PROVE  /\ Holding(call'[d]) => HeldFits(call[d])'
                      /\ call'[d].task = "insert" => NewcomerFits(call[d])'
                      /\ call'[d].task # "retry"
    BY DEF HandlersFit, Holding
  <2>1. CASE call'[d] = Idle
    BY <2>1, IdleFits
  <2>2. CASE call'[d] = call[d]
    <3>1. /\ Holding(call[d]) => HeldFits(call[d])
          /\ call[d].task = "insert" => NewcomerFits(call[d])
          /\ call[d].task # "retry"
      BY DEF AccountsInv, HandlersFit
    <3> QED BY <2>2, <3>1 DEF HeldFits, NewcomerFits
  <2> QED BY <1>1, <2>1, <2>2
<1> QED BY <1>3, <1>4, <1>5, <1>6 DEF AccountsInv

LEMMA TrackedFits ==
  ASSUME AccountsInv, NEW c \in Calls, Track(c)
  PROVE  AccountsInv' /\ users' = users
<1>1. call[c].id \in Users /\ users \in [Users -> User]
  BY InFlight DEF Track, Free
<1>2. users' = users
  BY <1>1 DEF Track, Touched
<1>3. now' \in 0..MaxNow
  BY TypeIsOK DEF Track, TypeOK
<1> QED BY <1>2, <1>3, AsideFits DEF Track, Return

LEMMA ContinueFits ==
  ASSUME AccountsInv, NEW c \in Calls, Continue(c)
  PROVE  AccountsInv'
<1>1. SyncPhoto(c) => call[c].op # "login"
  BY InFlight DEF SyncPhoto, Free, OpsOf
<1> QED
  BY <1>1, InsertedFits, GoingOnFits, WelcomeFits, DeletedFits, ResetSavedFits, SaveFits,
     TrackedFits DEF Continue

LEMMA AccountsStep ==
  ASSUME AccountsInv, Overlapping \subseteq {"login"}, [Next]_vars
  PROVE  AccountsInv'
<1>1. ASSUME NEW c \in Calls, Request(c) PROVE AccountsInv'
  BY <1>1, RequestFits
<1>2. ASSUME NEW c \in Calls, Continue(c) PROVE AccountsInv'
  BY <1>2, ContinueFits
<1>3. CASE Tick
  <2>1. now' \in 0..MaxNow
    BY <1>3, TypeIsOK, AccountsAssumption DEF Tick, TypeOK
  <2> QED BY <1>3, <2>1, AsideFits DEF Tick
<1>4. CASE Restart
  <2>1. now' \in 0..MaxNow
    BY <1>4, TypeIsOK DEF Restart, TypeOK
  <2> QED BY <1>4, <2>1, AsideFits DEF Restart
<1>5. CASE UNCHANGED vars
  <2>1. now' \in 0..MaxNow
    BY <1>5, TypeIsOK DEF vars, TypeOK
  <2> QED BY <1>5, <2>1, AsideFits DEF vars
<1> QED BY <1>1, <1>2, <1>3, <1>4, <1>5 DEF Next

LEMMA AccountsStart ==
  ASSUME Init
  PROVE  AccountsInv
<1>1. \A u \in Users : /\ users[u] \in User /\ users[u].password \in {0, 1}
                       /\ users[u].resetToken = 0
  <2>1. \A u \in Founders \cup Managers :
          Founder(u) \in User /\ Founder(u).password = 1 /\ Founder(u).resetToken = 0
    <3> TAKE u \in Founders \cup Managers
    <3>1. PICK roles \in SUBSET {"employee", "approver", "hr_approver", "admin"} :
            roles = (IF u \in Founders THEN {"admin"} ELSE {})
                    \cup (IF u \in Managers THEN {"approver"} ELSE {})
      OBVIOUS
    <3>2. Imported[u] \in 0..MaxNumber
      BY AccountsAssumption
    <3>3. 1 \in Secrets
      BY AccountsAssumption DEF Secrets
    <3>4. Nobody.resetToken = 0 /\ Nobody \in User
      BY IdleIsFit
    <3>5. Founder(u) = [Nobody EXCEPT !.exists = TRUE, !.isActive = TRUE, !.password = 1,
                                      !.number = Imported[u], !.roles = roles]
      BY <3>1 DEF Founder
    <3> QED BY <3>2, <3>3, <3>4, <3>5 DEF User
  <2> QED BY <2>1, IdleIsFit DEF Init
<1>2. \A c \in Calls : call[c] = Idle
  BY DEF Init
<1>3. /\ users \in [Users -> User] /\ call \in [Calls -> CallState]
      /\ welcome \in [balance : SUBSET Users, member : SUBSET Users]
  BY <1>1, IdleIsFit, AccountsAssumption DEF Init
<1>4. /\ secrets = 1 /\ secrets \in Secrets /\ resets \in [Secrets -> Nat] /\ now \in 0..MaxNow
      /\ \A t \in Secrets : resets[t] = 0 /\ 0 \in Secrets
  BY AccountsAssumption DEF Init, Secrets
<1>5. WellFormed
  BY <1>2, <1>3, <1>4, IdleIsFit DEF WellFormed, TypeOK, OpsOf, Free
<1>6. SecretsFit
  BY <1>1, <1>2, <1>4, IdleIsFit DEF SecretsFit
<1> QED BY <1>2, <1>5, <1>6, IdleIsFit DEF AccountsInv, SignInsAside, HandlersFit, Free

-----------------------------------------------------------------------------
(* What no step undoes *)

LEMMA NothingUndone ==
  ASSUME AccountsInv, Overlapping \subseteq {"login"}, [Next]_vars
  PROVE  /\ \A u \in Users : users[u].exists /\ users'[u].exists
                               => users'[u].password >= users[u].password
         /\ \A u \in Users : ~users[u].exists /\ users'[u].exists
                               => users'[u].isPendingApproval
         /\ \A c \in Calls :
              /\ call[c].op \in {"approve", "reject"} /\ call[c].task \in {"save", "saveApproval"}
              /\ call'[c] # call[c] /\ users' # users
              => users[call[c].id].isPendingApproval
<1> DEFINE Kept == \A u \in Users :
             /\ users[u].exists /\ users'[u].exists => users'[u].password >= users[u].password
             /\ ~users[u].exists /\ users'[u].exists => users'[u].isPendingApproval
<1>1. users \in [Users -> User] /\ \A u \in Users : users[u].password \in Nat
  BY TypeIsOK, SecretsAreNumbers DEF TypeOK
<1>2. Kept
  <2>1. CASE users' = users
    BY <1>1, <2>1
  <2>2. ASSUME users' # users PROVE \E c \in Calls : Continue(c)
    <3>1. ASSUME NEW c \in Calls, NEW u \in Users,
                 \/ Register(c, u) \/ ApprovePending(c, u) \/ RejectPending(c, u)
                 \/ UpdateUser(c, u) \/ UpdateRoles(c, u) \/ ToggleActive(c, u) \/ DeleteUser(c, u)
          PROVE  users' = users
      BY <3>1 DEF Register, ApprovePending, RejectPending, UpdateUser, UpdateRoles,
         ToggleActive, DeleteUser
    <3>2. ASSUME NEW c \in Calls, NEW u \in Users,
                 \/ ChangePassword(c, u) \/ ForgotPassword(c, u) \/ ResetPassword(c, u)
                 \/ UpdateProfile(c, u) \/ Login(c, u) \/ SignInWithOAuth(c, u)
          PROVE  users' = users
      BY <3>2 DEF ChangePassword, ForgotPassword, ResetPassword, UpdateProfile, Login,
         SignInWithOAuth
    <3>3. Tick \/ Restart \/ UNCHANGED vars => users' = users
      BY DEF Tick, Restart, vars
    <3> QED BY <2>2, <3>1, <3>2, <3>3 DEF Next, Request
  <2>3. ASSUME NEW c \in Calls, Continue(c), users' # users PROVE Kept
    <3>1. CASE Insert(c)
      <4>1. /\ call[c].row.isPendingApproval /\ NewcomerFits(call[c]) /\ call[c].id \in Users
            /\ users' = [users EXCEPT ![call[c].id] = call[c].row]
        BY <2>3, <3>1, InsertedFits, InFlight DEF Free
      <4> QED BY <1>1, <4>1 DEF NewcomerFits
    <3>2. CASE Delete(c)
      <4>1. users' = [users EXCEPT ![call[c].id] = Nobody]
        BY <2>3, <3>2 DEF Delete
      <4> QED BY <1>1, <4>1, IdleIsFit
    <3>3. CASE SaveReset(c)
      <4>1. /\ users' = [users EXCEPT ![call[c].id] = Reset(call[c].row, call[c].secret)]
            /\ call[c].id \in Users /\ call[c].row = users[call[c].id]
            /\ call[c].secret >= call[c].row.password /\ call[c].row.exists
        BY <3>3, InFlight DEF SaveReset, Free, Holding, HeldFits
      <4>2. PICK id, s : id = call[c].id /\ s = call[c].secret
        OBVIOUS
      <4>3. PICK new : new = Reset(users[id], s)
        OBVIOUS
      <4>4. new.password = s /\ new.exists = users[id].exists
        BY <1>1, <4>1, <4>2, <4>3 DEF Reset, User
      <4> QED BY <1>1, <4>1, <4>2, <4>3, <4>4
    <3>4. CASE Save(c) \/ SaveApproval(c) \/ Link(c) \/ SyncPhoto(c)
      <4>1. /\ users' = [users EXCEPT ![call[c].id] = call[c].row]
            /\ Holding(call[c]) /\ ~Free(c)
        BY <2>3, <3>4 DEF Save, SaveApproval, Link, SyncPhoto, SaveRow, Holding, Free
      <4>2. /\ users[call[c].id].exists /\ call[c].row.password >= users[call[c].id].password
            /\ call[c].id \in Users
        BY <4>1, InFlight DEF HeldFits
      <4> QED BY <1>1, <4>1, <4>2
    <3>5. CASE Track(c)
      BY <2>3, <3>5, TrackedFits
    <3>6. CASE Allocate(c) \/ JoinDefaultCommunity(c)
      BY <2>3, <3>6 DEF Allocate, JoinDefaultCommunity
    <3> QED BY <2>3, <3>1, <3>2, <3>3, <3>4, <3>5, <3>6 DEF Continue
  <2> QED BY <2>1, <2>2, <2>3
<1>3. ASSUME NEW c \in Calls, call[c].op \in {"approve", "reject"},
             call[c].task \in {"save", "saveApproval"}
      PROVE  users[call[c].id].isPendingApproval
  BY <1>3 DEF AccountsInv, HandlersFit, Holding, HeldFits
<1> QED BY <1>2, <1>3

\* When only signing in overlaps other handlers, a reset link is good once, a number
\* fits its account, and no save of a stale row brings back a password, a deleted
\* account or a decided registration.
THEOREM SignInsUndoNothing ==
  Overlapping \subseteq {"login"} /\ Spec =>
    [](TypeOK /\ ResetLinkUsedOnce /\ NumberFitsAtOnce) /\ SignInUndoesNothing
<1> SUFFICES ASSUME Overlapping \subseteq {"login"}
             PROVE  Spec => /\ [](TypeOK /\ ResetLinkUsedOnce /\ NumberFitsAtOnce)
                            /\ SignInUndoesNothing
  OBVIOUS
<1>1. Init => AccountsInv
  BY AccountsStart
<1>2. AccountsInv /\ [Next]_vars => AccountsInv'
  BY AccountsStep
<1>3. AccountsInv => TypeOK /\ ResetLinkUsedOnce /\ NumberFitsAtOnce
  BY DEF AccountsInv, WellFormed, SecretsFit, HandlersFit, ResetLinkUsedOnce, NumberFitsAtOnce
<1>4. AccountsInv /\ [Next]_vars =>
        [\A u \in Users : users[u].exists /\ users'[u].exists
                               => users'[u].password >= users[u].password]_vars
  BY NothingUndone
<1>5. AccountsInv /\ [Next]_vars =>
        [\A u \in Users : ~users[u].exists /\ users'[u].exists
                               => users'[u].isPendingApproval]_vars
  BY NothingUndone
<1>6. AccountsInv /\ [Next]_vars =>
        [\A c \in Calls :
           /\ call[c].op \in {"approve", "reject"} /\ call[c].task \in {"save", "saveApproval"}
           /\ call'[c] # call[c] /\ users' # users
           => users[call[c].id].isPendingApproval]_vars
  BY NothingUndone
<1> QED
  BY <1>1, <1>2, <1>3, <1>4, <1>5, <1>6, PTL
     DEF Spec, SignInUndoesNothing, PasswordsNeverRevert, DeletedStaysDeleted, DecidedOnce

-----------------------------------------------------------------------------
(* LoginEvents *)

LoginRow ==
  [exists : BOOLEAN, createdAt : Nat, lastHeartbeatAt : Nat, duration : Nat]

\* A row counts no more than the time between the login and its last heartbeat.
CountsWithin(e) ==
  /\ e \in LoginRow
  /\ e.createdAt <= e.lastHeartbeatAt /\ e.lastHeartbeatAt <= clock
  /\ e.duration <= e.lastHeartbeatAt - e.createdAt

LoginInv ==
  /\ clock \in Nat
  /\ events \in [Logins -> LoginRow]
  /\ \A e \in Logins : CountsWithin(events[e])
  /\ DOMAIN beat = LoginTabs
  /\ \A t \in LoginTabs : beat[t] # <<>> => beat[t][1] \in Logins /\ CountsWithin(beat[t][2])

LEMMA ExtendedCounts ==
  ASSUME clock \in Nat, NEW e, CountsWithin(e)
  PROVE  CountsWithin(Logged!Extended(e))
<1>1. PICK d : d = IF clock - e.lastHeartbeatAt <= IdleThreshold
                   THEN e.duration + (clock - e.lastHeartbeatAt) ELSE e.duration
  OBVIOUS
<1>2. Logged!Extended(e) = [e EXCEPT !.lastHeartbeatAt = clock, !.duration = d]
  BY <1>1 DEF Logged!Extended, CountsWithin, LoginRow
<1>3. /\ e.createdAt \in Nat /\ e.lastHeartbeatAt \in Nat /\ e.duration \in Nat
      /\ e.createdAt <= e.lastHeartbeatAt /\ e.lastHeartbeatAt <= clock
      /\ e.duration <= e.lastHeartbeatAt - e.createdAt
  BY DEF CountsWithin, LoginRow
<1>4. d \in Nat /\ d <= clock - e.createdAt
  <2>1. CASE clock - e.lastHeartbeatAt <= IdleThreshold
    BY <1>1, <1>3, <2>1
  <2>2. CASE ~(clock - e.lastHeartbeatAt <= IdleThreshold)
    BY <1>1, <1>3, <2>2
  <2> QED BY <2>1, <2>2
<1>5. PICK n : n = Logged!Extended(e)
  OBVIOUS
<1>6. /\ n \in LoginRow /\ n.createdAt = e.createdAt /\ n.lastHeartbeatAt = clock
      /\ n.duration = d
  BY <1>2, <1>4, <1>5 DEF CountsWithin, LoginRow
<1> QED BY <1>3, <1>4, <1>5, <1>6 DEF CountsWithin

LEMMA LoginStep ==
  ASSUME LoginInv, [Logged!Next]_(Logged!vars)
  PROVE  LoginInv'
<1>1. ASSUME NEW e \in Logins, Logged!Login(e) PROVE LoginInv'
  BY <1>1 DEF Logged!Login, LoginInv, CountsWithin, LoginRow
<1>2. ASSUME NEW e \in Logins, NEW t \in LoginTabs, Logged!Heartbeat(t, e) PROVE LoginInv'
  <2>1. CountsWithin(Logged!Extended(events[e]))
    BY ExtendedCounts DEF LoginInv
  <2>2. PICK n : n = Logged!Extended(events[e])
    OBVIOUS
  <2>3. /\ beat' = [beat EXCEPT ![t] = <<e, n>>] /\ UNCHANGED <<events, clock>>
        /\ CountsWithin(n)
    BY <1>2, <2>1, <2>2 DEF Logged!Heartbeat
  <2>4. \A u \in LoginTabs : beat'[u] = IF u = t THEN <<e, n>> ELSE beat[u]
    BY <2>3 DEF LoginInv
  <2>5. \A u \in LoginTabs :
          beat'[u] # <<>> => beat'[u][1] \in Logins /\ CountsWithin(beat'[u][2])
    BY <2>3, <2>4 DEF LoginInv
  <2> QED BY <2>3, <2>5 DEF LoginInv, CountsWithin
<1>3. ASSUME NEW t \in LoginTabs, Logged!SaveHeartbeat(t) PROVE LoginInv'
  BY <1>3 DEF Logged!SaveHeartbeat, LoginInv, CountsWithin, LoginRow
<1>4. CASE Logged!Tick
  BY <1>4 DEF Logged!Tick, LoginInv, CountsWithin, LoginRow
<1>5. CASE UNCHANGED Logged!vars
  BY <1>5 DEF Logged!vars, LoginInv, CountsWithin, LoginRow
<1> QED BY <1>1, <1>2, <1>3, <1>4, <1>5 DEF Logged!Next

\* However the heartbeats of several tabs interleave, the last save counts no more
\* than the time between the login and that heartbeat.
THEOREM HeartbeatsCountOnce == Logged!Spec => []CountedWithinElapsed
<1>1. Logged!Init => LoginInv
  BY DEF Logged!Init, LoginInv, CountsWithin, LoginRow, Logged!NoLogin
<1>2. LoginInv /\ [Logged!Next]_(Logged!vars) => LoginInv'
  BY LoginStep
<1>3. LoginInv => CountedWithinElapsed
  BY DEF LoginInv, CountsWithin, CountedWithinElapsed, Logged!CountedWithinElapsed
<1> QED BY <1>1, <1>2, <1>3, PTL DEF Logged!Spec

-----------------------------------------------------------------------------
(* Memberships *)

OneMemberCall == \A c, d \in MemberCalls : c = d

RoleOf(p) == members[p].role

\* A write a handler has still to do takes no role away that it should not: it makes
\* an admin or a new member, keeps the role, or demotes beside another admin.
KeepsRoles(op, w) ==
  w.do = "member" =>
    \/ w.row.role = "admin"
    \/ RoleOf(w.pair) = "none"
    \/ w.row.role = RoleOf(w.pair)
    \/ /\ op = "role"
       /\ \E a \in People : a # w.pair[2] /\ RoleOf(<<w.pair[1], a>>) = "admin"

\* A handler writes one member, and what it writes besides leaves the members alone.
OneMemberWrite(todo) ==
  \A i, j \in DOMAIN todo :
    i # j /\ todo[j].do = "member" => todo[i].do \in {"community", "drop", "request"}

FitsMembers(k) == OneMemberWrite(k.todo) /\ \A i \in DOMAIN k.todo : KeepsRoles(k.op, k.todo[i])

MemberInv == Joined!TypeOK /\ \A c \in MemberCalls : FitsMembers(memberCall[c])

LEMMA WritesAreWrites ==
  ASSUME NEW do \in {"community", "member", "request", "leave", "drop", "remove"},
         NEW g \in Communities, NEW u \in People
  PROVE  /\ Joined!Writing(do, g, u) \in Joined!Write
         /\ Joined!Writing(do, g, u).do = do /\ Joined!Writing(do, g, u).pair = <<g, u>>
  BY DEF Joined!Writing, Joined!Write, Joined!Pairs, Joined!NotIn, Joined!Member

LEMMA SavesAreWrites ==
  ASSUME NEW g \in Communities, NEW u \in People, NEW row \in Joined!Member
  PROVE  /\ Joined!SavingMember(g, u, row) \in Joined!Write
         /\ Joined!SavingMember(g, u, row).do = "member"
         /\ Joined!SavingMember(g, u, row).pair = <<g, u>>
         /\ Joined!SavingMember(g, u, row).row = row
<1>1. PICK w : w = Joined!Writing("member", g, u)
  OBVIOUS
<1>2. w \in Joined!Write /\ w.do = "member" /\ w.pair = <<g, u>>
  BY <1>1, WritesAreWrites
<1> QED BY <1>1, <1>2 DEF Joined!SavingMember, Joined!Write

LEMMA CreationsAreWrites ==
  ASSUME NEW g \in Communities, NEW u \in People, NEW p \in {"public", "private"}
  PROVE  /\ [Joined!Writing("community", g, u) EXCEPT !.privacy = p] \in Joined!Write
         /\ [Joined!Writing("community", g, u) EXCEPT !.privacy = p].do = "community"
<1>1. PICK w : w = Joined!Writing("community", g, u)
  OBVIOUS
<1>2. w \in Joined!Write /\ w.do = "community"
  BY <1>1, WritesAreWrites
<1> QED BY <1>1, <1>2 DEF Joined!Write

LEMMA MemberRows ==
  /\ Joined!Plain \in Joined!Member /\ Joined!Plain.role = "member"
  /\ Joined!NotIn \in Joined!Member /\ Joined!NotIn.role = "none"
  /\ \A role \in {"member", "admin"} :
       /\ [Joined!Plain EXCEPT !.role = role] \in Joined!Member
       /\ [Joined!Plain EXCEPT !.role = role].role = role
  BY DEF Joined!Plain, Joined!NotIn, Joined!Member

\* A handler that starts on an idle slot.
LEMMA MemberStartFits ==
  ASSUME MemberInv, NEW c \in MemberCalls, NEW op \in Joined!Kinds, NEW todo \in Seq(Joined!Write),
         Joined!Start(c, op, todo), OneMemberWrite(todo),
         \A i \in DOMAIN todo : KeepsRoles(op, todo[i])
  PROVE  MemberInv'
<1>1. PICK k : k = [op |-> op, todo |-> todo]
  OBVIOUS
<1>2. /\ memberCall' = [memberCall EXCEPT ![c] = k] /\ k.op = op /\ k.todo = todo
      /\ k \in [op : Joined!Kinds \cup {"none"}, todo : Seq(Joined!Write)]
      /\ UNCHANGED <<present, privacy, members, requests>>
  BY <1>1 DEF Joined!Start, Joined!tables
<1>3. Joined!TypeOK'
  BY <1>2 DEF MemberInv, Joined!TypeOK
<1>4. \A d \in MemberCalls : memberCall'[d] = IF d = c THEN k ELSE memberCall[d]
  BY <1>2 DEF MemberInv, Joined!TypeOK
<1>5. FitsMembers(k)
  BY <1>2 DEF FitsMembers
<1>6. \A d \in MemberCalls : FitsMembers(memberCall'[d])
  BY <1>4, <1>5 DEF MemberInv
<1>7. \A d \in MemberCalls : FitsMembers(memberCall[d])'
  <2> TAKE d \in MemberCalls
  <2>1. FitsMembers(memberCall'[d]) /\ members' = members
    BY <1>2, <1>6
  <2>2. OneMemberWrite(memberCall'[d].todo)
    BY <2>1 DEF FitsMembers
  <2>3. ASSUME NEW i \in DOMAIN memberCall'[d].todo
        PROVE  KeepsRoles(memberCall[d].op, memberCall[d].todo[i])'
    <3>1. KeepsRoles(memberCall'[d].op, memberCall'[d].todo[i])
      BY <2>1, <2>3 DEF FitsMembers
    <3> QED BY <3>1, <2>1 DEF KeepsRoles, RoleOf
  <2> QED BY <2>2, <2>3 DEF FitsMembers, OneMemberWrite
<1> QED BY <1>3, <1>7 DEF MemberInv

LEMMA OneWriteFits ==
  ASSUME MemberInv, NEW c \in MemberCalls, NEW op \in Joined!Kinds, NEW w \in Joined!Write,
         Joined!Start(c, op, <<w>>), KeepsRoles(op, w)
  PROVE  MemberInv'
<1>1. /\ <<w>> \in Seq(Joined!Write) /\ OneMemberWrite(<<w>>)
      /\ \A i \in DOMAIN <<w>> : <<w>>[i] = w
  BY DEF OneMemberWrite
<1> QED BY <1>1, MemberStartFits

LEMMA Pair ==
  ASSUME NEW S, NEW v \in S, NEW w \in S
  PROVE  <<v>> \o <<w>> = <<v, w>>
<1>1. <<v>> \in Seq(S) /\ <<w>> \in Seq(S) /\ <<v, w>> \in Seq(S)
  OBVIOUS
<1>2. PICK s : s = <<v>> \o <<w>>
  OBVIOUS
<1>3. s \in Seq(S) /\ Len(s) = 2
  BY <1>1, <1>2, ConcatProperties
<1>4. s[1] = v /\ s[2] = w
  BY <1>1, <1>2, ConcatProperties
<1>5. PICK t : t = <<v, w>>
  OBVIOUS
<1>6. t \in Seq(S) /\ Len(t) = 2 /\ t[1] = v /\ t[2] = w
  BY <1>1, <1>5
<1>7. \A i \in 1..Len(s) : s[i] = t[i]
  <2>1. \A i \in 1..2 : i = 1 \/ i = 2
    OBVIOUS
  <2> QED BY <2>1, <1>3, <1>4, <1>6
<1>8. s = t
  BY <1>3, <1>6, <1>7, SeqEqual
<1> QED BY <1>2, <1>5, <1>8

LEMMA TwoWritesFit ==
  ASSUME MemberInv, NEW c \in MemberCalls, NEW op \in Joined!Kinds,
         NEW v \in Joined!Write, NEW w \in Joined!Write, Joined!Start(c, op, <<v, w>>),
         w.do = "member" => v.do \in {"community", "drop", "request"},
         v.do = "member" => w.do \in {"community", "drop", "request"},
         KeepsRoles(op, v), KeepsRoles(op, w)
  PROVE  MemberInv'
<1>1. /\ <<v, w>> \in Seq(Joined!Write)
      /\ \A i \in DOMAIN <<v, w>> : (i = 1 /\ <<v, w>>[i] = v) \/ (i = 2 /\ <<v, w>>[i] = w)
  OBVIOUS
<1>2. OneMemberWrite(<<v, w>>)
  BY <1>1 DEF OneMemberWrite
<1>3. \A i \in DOMAIN <<v, w>> : KeepsRoles(op, <<v, w>>[i])
  BY <1>1
<1> QED BY <1>1, <1>2, <1>3, MemberStartFits

LEMMA MembersCardinality == \A S : Joined!Cardinality(S) = Cardinality(S)
  BY DEF Joined!Cardinality, Cardinality

LEMMA ManagingFits ==
  ASSUME MemberInv, NEW c \in MemberCalls, NEW g \in Communities, NEW u \in present,
         \/ Joined!Create(c, g, u) \/ Joined!Update(c, g)
         \/ Joined!UpdateMemberRole(c, g, u) \/ Joined!ToggleMemberExpert(c, g, u)
  PROVE  MemberInv'
<1>1. u \in People /\ present \subseteq People /\ members \in [Joined!Pairs -> Joined!Member]
  BY DEF MemberInv, Joined!TypeOK
<1>2. <<g, u>> \in Joined!Pairs /\ members[<<g, u>>] \in Joined!Member
  BY <1>1 DEF Joined!Pairs
<1>3. CASE Joined!Create(c, g, u)
  <2>1. PICK p \in {"public", "private"} :
          Joined!Start(c, "create",
            <<[Joined!Writing("community", g, u) EXCEPT !.privacy = p],
              Joined!SavingMember(g, u, [Joined!Plain EXCEPT !.role = "admin"])>>)
    BY <1>3 DEF Joined!Create
  <2>2. PICK v, w : /\ v = [Joined!Writing("community", g, u) EXCEPT !.privacy = p]
                    /\ w = Joined!SavingMember(g, u, [Joined!Plain EXCEPT !.role = "admin"])
    OBVIOUS
  <2>3. /\ v \in Joined!Write /\ v.do = "community"
        /\ w \in Joined!Write /\ w.do = "member" /\ w.row.role = "admin"
    <3>1. v \in Joined!Write /\ v.do = "community"
      BY <1>1, <2>2, CreationsAreWrites
    <3>2. PICK row \in Joined!Member :
            row = [Joined!Plain EXCEPT !.role = "admin"] /\ row.role = "admin"
      BY MemberRows
    <3>3. w \in Joined!Write /\ w.do = "member" /\ w.row = row
      BY <1>1, <2>2, <3>2, SavesAreWrites
    <3> QED BY <3>1, <3>2, <3>3
  <2>4. KeepsRoles("create", v) /\ KeepsRoles("create", w)
    BY <2>3 DEF KeepsRoles
  <2> QED BY <2>1, <2>2, <2>3, <2>4, TwoWritesFit DEF Joined!Kinds
<1>4. CASE Joined!Update(c, g)
  <2>1. PICK a \in present, p \in {"public", "private"} :
          Joined!Start(c, "update", <<[Joined!Writing("community", g, a) EXCEPT !.privacy = p]>>)
    BY <1>4 DEF Joined!Update
  <2>2. PICK v : v = [Joined!Writing("community", g, a) EXCEPT !.privacy = p]
    OBVIOUS
  <2>3. v \in Joined!Write /\ v.do = "community"
    BY <1>1, <2>2, CreationsAreWrites
  <2>4. KeepsRoles("update", v)
    BY <2>3 DEF KeepsRoles
  <2> QED BY <2>1, <2>2, <2>3, <2>4, OneWriteFits DEF Joined!Kinds
<1>5. CASE Joined!UpdateMemberRole(c, g, u)
  <2>1. PICK role \in {"member", "admin"} :
          /\ Joined!Role(g, u) = "admin" /\ role # "admin" => ~Joined!OnlyAdmin(g)
          /\ Joined!Start(c, "role",
               <<Joined!SavingMember(g, u, [members[<<g, u>>] EXCEPT !.role = role])>>)
    BY <1>5 DEF Joined!UpdateMemberRole
  <2>2. PICK row, w : row = [members[<<g, u>>] EXCEPT !.role = role]
                      /\ w = Joined!SavingMember(g, u, row)
    OBVIOUS
  <2>3. row \in Joined!Member /\ row.role = role
    BY <1>2, <2>2 DEF Joined!Member
  <2>4. w \in Joined!Write /\ w.do = "member" /\ w.pair = <<g, u>> /\ w.row = row
    BY <1>1, <2>2, <2>3, SavesAreWrites
  <2>5. Joined!Role(g, u) = "admin" /\ role # "admin"
          => \E a \in People : a # u /\ RoleOf(<<g, a>>) = "admin"
    <3> SUFFICES ASSUME Joined!Role(g, u) = "admin", ~Joined!OnlyAdmin(g),
                        \A a \in People : a # u => RoleOf(<<g, a>>) # "admin"
                 PROVE  FALSE
      BY <2>1
    <3>1. Joined!Admins(g) = {u}
      BY <1>1 DEF Joined!Admins, Joined!Role, RoleOf
    <3>2. Joined!Cardinality({u}) = 1
      BY FS_Singleton, MembersCardinality
    <3>3. ~(Joined!Cardinality({u}) <= 1)
      BY <3>1 DEF Joined!OnlyAdmin
    <3> QED BY <3>2, <3>3
  <2>6. RoleOf(w.pair) = Joined!Role(g, u) /\ Joined!Role(g, u) \in {"none", "member", "admin"}
    BY <1>2, <2>4 DEF RoleOf, Joined!Role, Joined!Member
  <2>7. KeepsRoles("role", w)
    BY <2>1, <2>3, <2>4, <2>5, <2>6 DEF KeepsRoles
  <2> QED BY <2>1, <2>2, <2>4, <2>7, OneWriteFits DEF Joined!Kinds
<1>6. CASE Joined!ToggleMemberExpert(c, g, u)
  <2>1. PICK row, w : row = [members[<<g, u>>] EXCEPT !.expert = ~@]
                      /\ w = Joined!SavingMember(g, u, row)
    OBVIOUS
  <2>2. row \in Joined!Member /\ row.role = members[<<g, u>>].role
    BY <1>2, <2>1 DEF Joined!Member
  <2>3. w \in Joined!Write /\ w.do = "member" /\ w.pair = <<g, u>> /\ w.row = row
    BY <1>1, <2>1, <2>2, SavesAreWrites
  <2>4. KeepsRoles("expert", w)
    BY <2>2, <2>3 DEF KeepsRoles, RoleOf
  <2> QED BY <1>6, <2>1, <2>3, <2>4, OneWriteFits
          DEF Joined!Kinds, Joined!ToggleMemberExpert
<1> QED BY <1>3, <1>4, <1>5, <1>6

LEMMA JoiningFits ==
  ASSUME MemberInv, NEW c \in MemberCalls, NEW g \in Communities, NEW u \in present,
         \/ Joined!Join(c, g, u) \/ Joined!Leave(c, g, u) \/ Joined!CancelRequest(c, g, u)
         \/ Joined!ApproveRequest(c, g, u) \/ Joined!DeclineRequest(c, g, u)
         \/ Joined!AddMember(c, g, u)
  PROVE  MemberInv'
<1>1. u \in People
  BY DEF MemberInv, Joined!TypeOK
<1>2. PICK drop : drop = Joined!Writing("drop", g, u)
  OBVIOUS
<1>3. drop \in Joined!Write /\ drop.do = "drop" /\ \A op : KeepsRoles(op, drop)
  BY <1>1, <1>2, WritesAreWrites DEF KeepsRoles
<1>4. ASSUME NEW row \in Joined!Member, ~Joined!IsMember(g, u)
      PROVE  /\ Joined!SavingMember(g, u, row) \in Joined!Write
             /\ Joined!SavingMember(g, u, row).do = "member"
             /\ \A op : KeepsRoles(op, Joined!SavingMember(g, u, row))
  BY <1>1, <1>4, SavesAreWrites DEF KeepsRoles, RoleOf, Joined!IsMember, Joined!Role
<1> USE DEF Joined!Kinds
<1>5. CASE Joined!Join(c, g, u)
  <2>1. CASE Joined!Start(c, "join", <<Joined!SavingMember(g, u, Joined!Plain)>>)
    BY <1>4, <1>5, <2>1, MemberRows, OneWriteFits DEF Joined!Join
  <2>2. CASE Joined!Start(c, "join", <<Joined!Writing("request", g, u)>>)
    <3>1. /\ Joined!Writing("request", g, u) \in Joined!Write
          /\ KeepsRoles("join", Joined!Writing("request", g, u))
      BY <1>1, WritesAreWrites DEF KeepsRoles
    <3> QED BY <2>2, <3>1, OneWriteFits
  <2> QED BY <1>5, <2>1, <2>2 DEF Joined!Join
<1>6. CASE Joined!Leave(c, g, u)
  <2>1. PICK v : v = Joined!Writing("leave", g, u)
    OBVIOUS
  <2>2. v \in Joined!Write /\ v.do = "leave" /\ KeepsRoles("leave", v)
    BY <1>1, <2>1, WritesAreWrites DEF KeepsRoles
  <2>3. Joined!Start(c, "leave", <<v, drop>>)
    BY <1>2, <1>6, <2>1 DEF Joined!Leave
  <2> QED BY <1>3, <2>2, <2>3, TwoWritesFit
<1>7. CASE Joined!CancelRequest(c, g, u) \/ Joined!DeclineRequest(c, g, u)
  BY <1>2, <1>3, <1>7, OneWriteFits DEF Joined!CancelRequest, Joined!DeclineRequest
<1>8. CASE Joined!ApproveRequest(c, g, u)
  <2>1. CASE Joined!IsMember(g, u)
    <3>1. Joined!LetIn(g, u) = <<drop>>
      BY <1>2, <2>1 DEF Joined!LetIn
    <3> QED BY <1>3, <1>8, <3>1, OneWriteFits DEF Joined!ApproveRequest
  <2>2. CASE ~Joined!IsMember(g, u)
    <3>1. PICK v : v = Joined!SavingMember(g, u, Joined!Plain)
      OBVIOUS
    <3>2. v \in Joined!Write /\ v.do = "member" /\ KeepsRoles("approve", v)
      BY <1>4, <2>2, <3>1, MemberRows
    <3>3. Joined!LetIn(g, u) = <<v>> \o <<drop>>
      BY <1>2, <2>2, <3>1 DEF Joined!LetIn
    <3>4. <<v>> \o <<drop>> = <<v, drop>>
      BY <1>3, <3>2, Pair
    <3> QED BY <1>3, <1>8, <3>2, <3>3, <3>4, TwoWritesFit DEF Joined!ApproveRequest
  <2> QED BY <2>1, <2>2
<1>9. CASE Joined!AddMember(c, g, u)
  <2>1. PICK role \in {"member", "admin"} : Joined!Start(c, "add", Joined!Add(g, u, role))
    BY <1>9 DEF Joined!AddMember
  <2>2. PICK v : v = Joined!SavingMember(g, u, [Joined!Plain EXCEPT !.role = role])
    OBVIOUS
  <2>3. v \in Joined!Write /\ v.do = "member" /\ KeepsRoles("add", v)
    BY <1>4, <1>9, <2>2, MemberRows DEF Joined!AddMember
  <2>4. Joined!Start(c, "add", <<v, drop>>)
    BY <1>2, <2>1, <2>2 DEF Joined!Add
  <2> QED BY <1>3, <2>3, <2>4, TwoWritesFit
<1> QED BY <1>5, <1>6, <1>7, <1>8, <1>9

LEMMA RemovingFits ==
  ASSUME MemberInv, NEW c \in MemberCalls, NEW u \in People, Joined!RemoveUser(c, u)
  PROVE  MemberInv'
<1>1. PICK g \in Communities : Joined!Start(c, "remove", <<Joined!Writing("remove", g, u)>>)
  BY DEF Joined!RemoveUser
<1>2. PICK v : v = Joined!Writing("remove", g, u)
  OBVIOUS
<1>3. v \in Joined!Write /\ KeepsRoles("remove", v)
  BY <1>2, WritesAreWrites DEF KeepsRoles
<1> QED BY <1>1, <1>2, <1>3, OneWriteFits DEF Joined!Kinds

LEMMA PerformFits ==
  ASSUME MemberInv, OneMemberCall, NEW c \in MemberCalls, Joined!Perform(c)
  PROVE  /\ MemberInv'
         /\ \A p \in Joined!Pairs : RoleOf(p) = "admin" /\ members'[p].role = "member"
                                      => memberCall[c].op = "role" /\ memberCall'[c] # memberCall[c]
         /\ \A g \in Communities :
              Joined!Admins(g) # {} /\ Joined!Admins(g)' = {}
                => \E u \in Joined!Admins(g) : members'[<<g, u>>].role = "none"
<1>1. PICK k, w : k = memberCall[c] /\ w = Head(k.todo)
  OBVIOUS
<1>2. /\ Joined!TypeOK
      /\ k \in [op : Joined!Kinds \cup {"none"}, todo : Seq(Joined!Write)]
      /\ k.todo # <<>> /\ FitsMembers(k)
      /\ members \in [Joined!Pairs -> Joined!Member]
  BY <1>1 DEF MemberInv, Joined!TypeOK, Joined!Perform, Joined!Free
<1>3. PICK s : s = k.todo
  OBVIOUS
<1>4. /\ s \in Seq(Joined!Write) /\ Len(s) > 0 /\ w = s[1] /\ w \in Joined!Write
      /\ Tail(s) \in Seq(Joined!Write) /\ Len(Tail(s)) = Len(s) - 1
      /\ \A i \in 1..Len(Tail(s)) : Tail(s)[i] = s[i + 1]
      /\ Len(s) \in Nat
  BY <1>1, <1>2, <1>3, HeadTailProperties, EmptySeq, LenProperties
<1>5. PICK g \in Communities, u \in People : w.pair = <<g, u>>
  BY <1>4 DEF Joined!Write, Joined!Pairs
<1>6. KeepsRoles(k.op, w) /\ \A j \in 2..Len(s) : KeepsRoles(k.op, s[j])
  <2>1. DOMAIN s = 1..Len(s)
    BY <1>4, LenProperties
  <2> QED BY <1>2, <1>3, <1>4, <2>1 DEF FitsMembers
<1>7. \A j \in 2..Len(s) : s[j].do = "member" => w.do \in {"community", "drop", "request"}
  <2>1. DOMAIN s = 1..Len(s)
    BY <1>4, LenProperties
  <2>2. \A j \in 2..Len(s) : j \in DOMAIN s /\ 1 \in DOMAIN s /\ j # 1
    BY <1>4, <2>1
  <2> QED BY <1>2, <1>3, <1>4, <2>2 DEF FitsMembers, OneMemberWrite
<1>8. \A i, j \in 1..Len(s) :
        i # j /\ s[j].do = "member" => s[i].do \in {"community", "drop", "request"}
  <2>1. DOMAIN s = 1..Len(s)
    BY <1>4, LenProperties
  <2> QED BY <1>2, <1>3, <2>1 DEF FitsMembers, OneMemberWrite
<1>9. Joined!Idle \in [op : Joined!Kinds \cup {"none"}, todo : Seq(Joined!Write)]
      /\ Joined!Idle.todo = <<>>
  BY EmptySeq DEF Joined!Idle
<1>10. PICK m : m = [k EXCEPT !.todo = Tail(s)]
  OBVIOUS
<1>11. m \in [op : Joined!Kinds \cup {"none"}, todo : Seq(Joined!Write)] /\ m.op = k.op
       /\ m.todo = Tail(s)
  BY <1>2, <1>4, <1>10
<1>12. CASE ~Joined!Storable(w)
  <2>1. /\ memberCall' = [memberCall EXCEPT ![c] = Joined!Idle]
        /\ UNCHANGED <<present, privacy, members, requests>>
    BY <1>1, <1>12 DEF Joined!Perform, Joined!tables
  <2>2. Joined!TypeOK'
    BY <1>2, <1>9, <2>1 DEF Joined!TypeOK
  <2>3. \A d \in MemberCalls : memberCall'[d] = Joined!Idle
    BY <1>2, <2>1 DEF OneMemberCall, Joined!TypeOK
  <2>4. MemberInv'
    BY <1>9, <2>2, <2>3 DEF MemberInv, FitsMembers, OneMemberWrite
  <2> QED BY <2>1, <2>4 DEF RoleOf, Joined!Admins, Joined!Role
<1>13. CASE Joined!Storable(w)
  <2>1. /\ privacy' = IF w.do = "community" THEN [privacy EXCEPT ![g] = w.privacy] ELSE privacy
        /\ members' = CASE w.do = "member" -> [members EXCEPT ![w.pair] = w.row]
                        [] w.do = "leave" -> [members EXCEPT ![w.pair] = Joined!NotIn]
                        [] w.do = "remove" ->
                             [p \in Joined!Pairs |-> IF p[2] = u THEN Joined!NotIn ELSE members[p]]
                        [] OTHER -> members
        /\ requests' = CASE w.do = "request" -> requests \cup {w.pair}
                         [] w.do = "drop" -> requests \ {w.pair}
                         [] w.do = "remove" -> {p \in requests : p[2] # u}
                         [] OTHER -> requests
        /\ memberCall' = [memberCall EXCEPT ![c] =
                            IF Tail(s) = <<>> THEN Joined!Idle ELSE m]
        /\ present' = IF w.do = "remove" THEN present \ {u} ELSE present
    BY <1>1, <1>3, <1>5, <1>10, <1>13 DEF Joined!Perform
  <2>2. Joined!TypeOK'
    <3>1. privacy' \in [Communities -> {"none", "public", "private"}]
      BY <1>2, <1>4, <2>1 DEF Joined!TypeOK, Joined!Write
    <3>2. members' \in [Joined!Pairs -> Joined!Member]
      BY <1>2, <1>4, <2>1, MemberRows DEF Joined!TypeOK, Joined!Write
    <3>3. requests' \subseteq Joined!Pairs
      BY <1>2, <1>4, <2>1 DEF Joined!TypeOK, Joined!Write
    <3>4. memberCall' \in [MemberCalls -> [op : Joined!Kinds \cup {"none"}, todo : Seq(Joined!Write)]]
      BY <1>2, <1>9, <1>11, <2>1 DEF Joined!TypeOK
    <3>5. present' \subseteq People
      BY <1>2, <2>1 DEF Joined!TypeOK
    <3> QED BY <3>1, <3>2, <3>3, <3>4, <3>5 DEF Joined!TypeOK
  <2>3. \A d \in MemberCalls : memberCall'[d] = IF Tail(s) = <<>> THEN Joined!Idle ELSE m
    BY <1>2, <2>1 DEF OneMemberCall, Joined!TypeOK
  <2>4. \A d \in MemberCalls : FitsMembers(memberCall[d])'
    <3> TAKE d \in MemberCalls
    <3>1. CASE Tail(s) = <<>>
      BY <1>9, <2>3, <3>1 DEF FitsMembers, OneMemberWrite
    <3>2. CASE Tail(s) # <<>>
      <4>1. PICK r : r = Tail(s)
        OBVIOUS
      <4>2. memberCall'[d] = m /\ m.todo = r /\ m.op = k.op
        BY <1>11, <2>3, <3>2, <4>1
      <4>3. r \in Seq(Joined!Write) /\ DOMAIN r = 1..Len(r) /\ Len(r) = Len(s) - 1
            /\ \A i \in 1..Len(r) : r[i] = s[i + 1]
        BY <1>4, <4>1, LenProperties
      <4>4. \A i \in 1..Len(r) : i + 1 \in 2..Len(s) /\ i + 1 \in 1..Len(s)
        BY <1>4, <4>3
      <4>5. OneMemberWrite(r)
        BY <1>4, <1>8, <4>3, <4>4 DEF OneMemberWrite
      <4>6. ASSUME NEW i \in 1..Len(r) PROVE KeepsRoles(m.op, r[i])'
        <5>1. KeepsRoles(k.op, r[i])
          BY <1>6, <4>3, <4>4
        <5>2. CASE r[i].do = "member"
          <6>1. w.do \in {"community", "drop", "request"}
            BY <1>7, <4>3, <4>4, <5>2
          <6>2. members' = members
            BY <2>1, <6>1
          <6> QED BY <4>2, <5>1, <6>2 DEF KeepsRoles, RoleOf
        <5>3. CASE r[i].do # "member"
          BY <5>3 DEF KeepsRoles
        <5> QED BY <5>2, <5>3
      <4> QED BY <4>2, <4>3, <4>5, <4>6 DEF FitsMembers
    <3> QED BY <3>1, <3>2
  <2>5. MemberInv'
    BY <2>2, <2>4 DEF MemberInv
  <2>6. memberCall'[c] # memberCall[c]
    <3>1. Tail(s) # s
      <4>1. PICK r : r = Tail(s)
        OBVIOUS
      <4>2. Len(r) = Len(s) - 1 /\ Len(s) \in Nat
        BY <1>4, <4>1
      <4>3. r # s
        BY <4>2
      <4> QED BY <4>1, <4>3
    <3>2. memberCall'[c].todo = Tail(s)
      BY <1>9, <1>11, <2>3
    <3>3. memberCall[c].todo = s
      BY <1>1, <1>3
    <3> QED BY <3>1, <3>2, <3>3
  <2>7. ASSUME NEW p \in Joined!Pairs, RoleOf(p) = "admin", members'[p].role = "member"
        PROVE  memberCall[c].op = "role"
    <3>1. w.do = "member" /\ p = w.pair
      BY <1>2, <2>1, <2>7, MemberRows, <1>4 DEF RoleOf, Joined!Write
    <3>2. w.row.role = "member"
      BY <1>2, <2>1, <2>7, <3>1
    <3> QED BY <1>1, <1>6, <2>7, <3>1, <3>2 DEF KeepsRoles, RoleOf
  <2>8. ASSUME NEW h \in Communities, Joined!Admins(h) # {}, Joined!Admins(h)' = {}
        PROVE  \E a \in Joined!Admins(h) : members'[<<h, a>>].role = "none"
    <3>1. PICK a \in People : RoleOf(<<h, a>>) = "admin"
      BY <2>8 DEF Joined!Admins, Joined!Role, RoleOf
    <3>2. \A b \in People : members'[<<h, b>>].role # "admin"
      BY <2>8 DEF Joined!Admins, Joined!Role
    <3>3. \A b \in People : <<h, b>> \in Joined!Pairs
      BY DEF Joined!Pairs
    <3>4. CASE w.do = "member"
      <4>1. members' = [members EXCEPT ![<<g, u>>] = w.row]
        BY <1>5, <2>1, <3>4
      <4>2. \A b \in People : <<h, b>> # <<g, u>> => members'[<<h, b>>] = members[<<h, b>>]
        BY <1>2, <3>3, <4>1
      <4>3. h = g /\ u = a /\ members'[<<h, a>>] = w.row
        BY <1>2, <3>1, <3>2, <3>3, <4>1, <4>2 DEF RoleOf
      <4>4. w.row.role # "admin"
        BY <3>2, <4>3
      <4>5. \A b \in People : b # a => RoleOf(<<h, b>>) # "admin"
        BY <3>2, <4>2, <4>3 DEF RoleOf
      <4>6. RoleOf(w.pair) = "admin"
        BY <1>5, <3>1, <4>3
      <4>7. w.pair[1] = h /\ w.pair[2] = a
        BY <1>5, <4>3
      <4> QED BY <1>6, <3>4, <4>4, <4>5, <4>6, <4>7 DEF KeepsRoles
    <3>5. CASE w.do # "member"
      <4>1. members'[<<h, a>>] = members[<<h, a>>] \/ members'[<<h, a>>] = Joined!NotIn
        BY <1>2, <1>4, <2>1, <3>3, <3>5 DEF Joined!Write
      <4>2. members'[<<h, a>>].role = "none"
        BY <3>1, <3>2, <4>1, MemberRows DEF RoleOf
      <4> QED BY <3>1, <4>2 DEF Joined!Admins, Joined!Role, RoleOf
    <3> QED BY <3>4, <3>5
  <2> QED BY <2>5, <2>6, <2>7, <2>8
<1> QED BY <1>12, <1>13

LEMMA MemberStep ==
  ASSUME MemberInv, OneMemberCall, [Joined!Next]_(Joined!vars)
  PROVE  /\ MemberInv'
         /\ \A p \in Joined!Pairs : members[p].role = "admin" /\ members'[p].role = "member"
              => \E c \in MemberCalls : memberCall[c].op = "role" /\ memberCall'[c] # memberCall[c]
         /\ \A g \in Communities :
              Joined!Admins(g) # {} /\ Joined!Admins(g)' = {}
                => \E u \in Joined!Admins(g) : members'[<<g, u>>].role = "none"
<1> DEFINE Goal ==
             /\ MemberInv'
             /\ \A p \in Joined!Pairs : members[p].role = "admin" /\ members'[p].role = "member"
                  => \E c \in MemberCalls :
                       memberCall[c].op = "role" /\ memberCall'[c] # memberCall[c]
             /\ \A g \in Communities :
                  Joined!Admins(g) # {} /\ Joined!Admins(g)' = {}
                    => \E u \in Joined!Admins(g) : members'[<<g, u>>].role = "none"
<1>1. ASSUME NEW c \in MemberCalls, Joined!Perform(c) PROVE Goal
  BY <1>1, PerformFits DEF RoleOf
<1>2. ASSUME MemberInv', members' = members PROVE Goal
  BY <1>2 DEF Joined!Admins, Joined!Role
<1>3. ASSUME NEW c \in MemberCalls, NEW g \in Communities, NEW u \in present,
             \/ Joined!Create(c, g, u) \/ Joined!Update(c, g)
             \/ Joined!UpdateMemberRole(c, g, u) \/ Joined!ToggleMemberExpert(c, g, u)
             \/ Joined!Join(c, g, u) \/ Joined!Leave(c, g, u) \/ Joined!CancelRequest(c, g, u)
             \/ Joined!ApproveRequest(c, g, u) \/ Joined!DeclineRequest(c, g, u)
             \/ Joined!AddMember(c, g, u)
      PROVE  Goal
  <2>1. MemberInv'
    BY <1>3, ManagingFits, JoiningFits
  <2>2. members' = members
    BY <1>3 DEF Joined!Create, Joined!Update, Joined!UpdateMemberRole, Joined!ToggleMemberExpert,
       Joined!Join, Joined!Leave, Joined!CancelRequest, Joined!ApproveRequest,
       Joined!DeclineRequest, Joined!AddMember, Joined!Start, Joined!tables
  <2> QED BY <1>2, <2>1, <2>2
<1>4. ASSUME NEW c \in MemberCalls, NEW g \in Communities, Joined!Update(c, g) PROVE Goal
  <2>1. PICK a \in present : TRUE
    BY <1>4 DEF Joined!Update
  <2> QED BY <1>3, <1>4, <2>1
<1>5. ASSUME NEW c \in MemberCalls, NEW u \in People, Joined!RemoveUser(c, u) PROVE Goal
  <2>1. members' = members
    BY <1>5 DEF Joined!RemoveUser, Joined!Start, Joined!tables
  <2> QED BY <1>2, <1>5, <2>1, RemovingFits
<1>6. ASSUME Joined!Idle = [op |-> "none", todo |-> <<>>],
             \A c \in MemberCalls : memberCall'[c] = memberCall[c] \/ memberCall'[c] = Joined!Idle,
             memberCall' \in [MemberCalls -> [op : Joined!Kinds \cup {"none"},
                                              todo : Seq(Joined!Write)]],
             UNCHANGED <<present, privacy, members, requests>>
      PROVE  Goal
  <2>1. Joined!TypeOK'
    BY <1>6 DEF MemberInv, Joined!TypeOK
  <2>2. \A c \in MemberCalls : FitsMembers(memberCall[c])'
    <3> TAKE c \in MemberCalls
    <3>1. CASE memberCall'[c] = Joined!Idle
      BY <1>6, <3>1 DEF FitsMembers, OneMemberWrite
    <3>2. CASE memberCall'[c] = memberCall[c]
      <4>1. FitsMembers(memberCall[c]) /\ members' = members
        BY <1>6 DEF MemberInv
      <4>2. ASSUME NEW i \in DOMAIN memberCall[c].todo
            PROVE  KeepsRoles(memberCall[c].op, memberCall[c].todo[i])'
        <5>1. KeepsRoles(memberCall[c].op, memberCall[c].todo[i])
          BY <4>1, <4>2 DEF FitsMembers
        <5> QED BY <3>2, <4>1, <5>1 DEF KeepsRoles, RoleOf
      <4>3. OneMemberWrite(memberCall[c].todo)'
        BY <3>2, <4>1 DEF FitsMembers, OneMemberWrite
      <4> QED BY <3>2, <4>2, <4>3 DEF FitsMembers
    <3> QED BY <1>6, <3>1, <3>2
  <2> QED BY <1>2, <1>6, <2>1, <2>2 DEF MemberInv
<1>7. CASE Joined!Restart
  <2>1. memberCall' \in [MemberCalls -> [op : Joined!Kinds \cup {"none"}, todo : Seq(Joined!Write)]]
    BY <1>7, EmptySeq DEF Joined!Restart, Joined!Idle
  <2> QED BY <1>6, <1>7, <2>1 DEF Joined!Restart, Joined!tables, Joined!Idle
<1>8. CASE UNCHANGED Joined!vars
  <2>1. memberCall' \in [MemberCalls -> [op : Joined!Kinds \cup {"none"}, todo : Seq(Joined!Write)]]
    BY <1>8 DEF MemberInv, Joined!TypeOK, Joined!vars
  <2> QED BY <1>6, <1>8, <2>1 DEF Joined!vars, Joined!Idle
<1>9. ASSUME NEW c \in MemberCalls, NEW g \in Communities,
             \E u \in present :
               \/ Joined!Create(c, g, u)
               \/ Joined!UpdateMemberRole(c, g, u) \/ Joined!ToggleMemberExpert(c, g, u)
               \/ Joined!Join(c, g, u) \/ Joined!Leave(c, g, u) \/ Joined!CancelRequest(c, g, u)
               \/ Joined!ApproveRequest(c, g, u) \/ Joined!DeclineRequest(c, g, u)
               \/ Joined!AddMember(c, g, u)
      PROVE  Goal
  BY <1>3, <1>9
<1>10. ASSUME Joined!Next PROVE Goal
  BY <1>1, <1>4, <1>5, <1>7, <1>9, <1>10 DEF Joined!Next
<1>11. Goal
  BY <1>8, <1>10
<1> QED BY <1>11 DEF Goal

\* However old the requests that are approved, one handler at a time takes an admin's
\* role away only by a change of role, and by such a change only beside another admin.
THEOREM RolesAlwaysKept ==
  OneMemberCall /\ Joined!Spec => []Joined!TypeOK /\ RolesAreKept
<1> SUFFICES ASSUME OneMemberCall PROVE Joined!Spec => []Joined!TypeOK /\ RolesAreKept
  OBVIOUS
<1>1. Joined!Init => MemberInv
  <2> SUFFICES ASSUME Joined!Init PROVE MemberInv
    OBVIOUS
  <2>1. Joined!TypeOK
    <3>1. Joined!Idle \in [op : Joined!Kinds \cup {"none"}, todo : Seq(Joined!Write)]
      BY EmptySeq DEF Joined!Idle
    <3>2. members \in [Joined!Pairs -> Joined!Member]
      BY MemberRows DEF Joined!Init
    <3> QED BY <3>1, <3>2 DEF Joined!Init, Joined!TypeOK
  <2>2. \A c \in MemberCalls : memberCall[c].todo = <<>>
    BY DEF Joined!Init, Joined!Idle
  <2> QED BY <2>1, <2>2 DEF MemberInv, FitsMembers, OneMemberWrite
<1>2. MemberInv /\ [Joined!Next]_(Joined!vars) => MemberInv'
  BY MemberStep
<1>3. MemberInv => Joined!TypeOK
  BY DEF MemberInv
<1>4. MemberInv /\ [Joined!Next]_(Joined!vars) =>
        [\A p \in Joined!Pairs : members[p].role = "admin" /\ members'[p].role = "member" =>
           \E c \in MemberCalls : memberCall[c].op = "role" /\ memberCall'[c] # memberCall[c]]_(Joined!vars)
  BY MemberStep
<1>5. MemberInv /\ [Joined!Next]_(Joined!vars) =>
        [\A g \in Communities :
           Joined!Admins(g) # {} /\ Joined!Admins(g)' = {} =>
             \E u \in Joined!Admins(g) : ~Joined!IsMember(g, u)']_(Joined!vars)
  <2> SUFFICES ASSUME MemberInv, [Joined!Next]_(Joined!vars), NEW g \in Communities,
                      Joined!Admins(g) # {}, Joined!Admins(g)' = {}
               PROVE  \E u \in Joined!Admins(g) : ~Joined!IsMember(g, u)'
    OBVIOUS
  <2>1. PICK u \in Joined!Admins(g) : members'[<<g, u>>].role = "none"
    BY MemberStep
  <2> QED BY <2>1 DEF Joined!IsMember, Joined!Role
<1> QED
  BY <1>1, <1>2, <1>3, <1>4, <1>5, PTL
     DEF Joined!Spec, RolesAreKept, Joined!OnlyRoleChangesDemote, Joined!RoleChangesKeepAnAdmin

-----------------------------------------------------------------------------
(* Edits through the assistant *)

OneChatTab == ChatTabs = 1

AnyValue == UNION {FieldValues[f] : f \in Chat!Fields}
Changes == UNION {[fields -> AnyValue] : fields \in SUBSET Chat!Fields}

ChatEntry ==
  [of : Staff, changes : Changes, before : Changes, turnId : Turns, expired : BOOLEAN]

Proposal(e) == [of |-> e.of, changes |-> e.changes]

\* A proposal names the fields it would change, with their new and old values.
FitEntry(e) ==
  /\ e \in ChatEntry
  /\ DOMAIN e.before = DOMAIN e.changes
  /\ \A f \in DOMAIN e.changes : e.changes[f] \in FieldValues[f] /\ e.changes[f] # e.before[f]

TurnRow == [phase : {"none", "open", "over"}, proposed : SUBSET [of : Staff, changes : Changes],
            seen : SUBSET [of : Staff, changes : Changes]]

IsOpen(t) == turn[t].phase = "open"

\* The stored record once the changes of a proposal are made to a row.
Applied(e, row) ==
  [f \in Chat!Fields |-> IF f \in DOMAIN e.changes THEN e.changes[f] ELSE row[f]]

ToolState == [task : Chat!Tasks, turn : Turns \cup {0}, entry : ChatEntry \cup {Chat!NoProposal},
              row : Chat!Rows \cup {<< >>}]

ChatTyped ==
  /\ record \in [Staff -> Chat!Rows]
  /\ pending = Chat!NoProposal \/ FitEntry(pending)
  /\ turn \in [Turns -> TurnRow]
  /\ \A t \in Turns : turn[t].seen \subseteq shown
  /\ shown \subseteq [of : Staff, changes : Changes]
  /\ tool \in [Tools -> ToolState]

\* One turn is open at a time, and every tool in flight was called in it.
OneTurn ==
  /\ \A t, o \in Turns : IsOpen(t) /\ IsOpen(o) => t = o
  /\ \A c \in Tools : tool[c].task # "none" =>
       tool[c].turn \in Turns /\ IsOpen(tool[c].turn) /\ FitEntry(tool[c].entry)
  /\ \A c \in Tools : tool[c].task = "taken" => tool[c].entry.turnId = tool[c].turn

\* A pending proposal was made in the open turn, or was shown before it began.
PendingShown ==
  pending # Chat!NoProposal =>
    LET t == pending.turnId IN
    \/ IsOpen(t) /\ Proposal(pending) \in turn[t].proposed
    \/ /\ turn[t].phase = "over" /\ Proposal(pending) \in shown
       /\ \A o \in Turns : IsOpen(o) => Proposal(pending) \in turn[o].seen

Confirming(c) == tool[c].task \in {"load", "stillFree", "save"}

\* What is being confirmed was shown, and no other proposal can be confirmed beside it.
ConfirmedShown ==
  /\ \A c \in Tools : Confirming(c) => Proposal(tool[c].entry) \in turn[tool[c].turn].seen
  /\ \A c, d \in Tools : Confirming(c) /\ Confirming(d) => tool[c].entry = tool[d].entry
  /\ \A c \in Tools :
       Confirming(c) /\ pending # Chat!NoProposal /\ ~pending.expired
         /\ pending.turnId # tool[c].turn => pending = tool[c].entry

\* Between the load and the save of a confirmation the record is the one loaded, or
\* has become what the save makes it.
LoadedStands ==
  \A c \in Tools : tool[c].task \in {"stillFree", "save"} =>
    /\ tool[c].row \in Chat!Rows
    /\ \A f \in DOMAIN tool[c].entry.changes : tool[c].row[f] = tool[c].entry.before[f]
    /\ record[tool[c].entry.of] \in {tool[c].row, Applied(tool[c].entry, tool[c].row)}

ChatInv == ChatTyped /\ OneTurn /\ PendingShown /\ ConfirmedShown /\ LoadedStands

LEMMA ChatCardinality == \A S : Chat!Cardinality(S) = Cardinality(S)
  BY DEF Chat!Cardinality, Cardinality

LEMMA IdleTool ==
  /\ Chat!Idle \in ToolState /\ Chat!Idle.task = "none" /\ Chat!Idle.turn = 0
  /\ Chat!Idle.entry = Chat!NoProposal /\ Chat!NoProposal.of = NoUser
  /\ ~Chat!NoProposal.expired /\ Chat!NoProposal.turnId = 0
  BY DEF Chat!Idle, ToolState, Chat!Tasks, Chat!NoProposal

LEMMA EntryIsNoNone ==
  ASSUME NEW e, FitEntry(e)
  PROVE  /\ e # Chat!NoProposal /\ e \in ChatEntry /\ e.of \in Staff /\ e.turnId \in Turns
         /\ Proposal(e) \in [of : Staff, changes : Changes]
  BY ChatAssumption, IdleTool DEF FitEntry, ChatEntry, Proposal

\* The state of the turns and the records as the actions see them.
LEMMA ChatFacts ==
  ASSUME ChatInv
  PROVE  /\ record \in [Staff -> Chat!Rows] /\ turn \in [Turns -> TurnRow]
         /\ tool \in [Tools -> ToolState]
         /\ \A t \in Turns : turn[t] \in TurnRow /\ turn[t].seen \subseteq shown
         /\ \A c \in Tools : tool[c] \in ToolState
         /\ \A t \in Turns : t \in Chat!Open <=> IsOpen(t)
         /\ \A t, o \in Turns : IsOpen(t) /\ IsOpen(o) => t = o
  BY DEF ChatInv, ChatTyped, OneTurn, Chat!Open, IsOpen

LEMMA AskFits ==
  ASSUME ChatInv, OneChatTab, Chat!Ask
  PROVE  ChatInv'
<1>1. PICK t \in Turns :
        /\ turn[t].phase = "none"
        /\ turn' = [turn EXCEPT ![t].phase = "open", ![t].seen = shown]
  BY DEF Chat!Ask
<1>2. \A o \in Turns : ~IsOpen(o)
  <2> SUFFICES ASSUME NEW o \in Turns, IsOpen(o) PROVE FALSE
    OBVIOUS
  <2>1. Chat!Open = {o}
    BY ChatFacts DEF Chat!Open, IsOpen
  <2>2. Chat!Cardinality({o}) = 1
    BY FS_Singleton, ChatCardinality
  <2>3. Chat!Cardinality({o}) < 1
    BY <2>1 DEF Chat!Ask, OneChatTab
  <2> QED BY <2>2, <2>3
<1>3. UNCHANGED <<record, pending, shown, tool>>
  BY DEF Chat!Ask
<1>4. PICK n : n = [turn[t] EXCEPT !.phase = "open", !.seen = shown]
  OBVIOUS
<1>5. n \in TurnRow /\ n.phase = "open" /\ n.seen = shown /\ n.proposed = turn[t].proposed
  BY <1>4, ChatFacts DEF TurnRow, ChatInv, ChatTyped
<1>6. turn' = [turn EXCEPT ![t] = n] /\ \A o \in Turns : turn'[o] = IF o = t THEN n ELSE turn[o]
  BY <1>1, <1>4, ChatFacts
<1>7. ChatTyped'
  BY <1>3, <1>5, <1>6, ChatFacts DEF ChatInv, ChatTyped, FitEntry
<1>8. \A c \in Tools : tool[c].task = "none"
  BY <1>2 DEF ChatInv, OneTurn
<1>9. OneTurn'
  BY <1>2, <1>3, <1>5, <1>6, <1>8 DEF OneTurn, IsOpen
<1>10. PendingShown'
  <2> SUFFICES ASSUME pending # Chat!NoProposal
               PROVE  /\ turn'[pending.turnId].phase = "over" /\ Proposal(pending) \in shown
                      /\ \A o \in Turns : turn'[o].phase = "open" => Proposal(pending) \in turn'[o].seen
    BY <1>3 DEF PendingShown, IsOpen, Proposal
  <2>1. pending.turnId \in Turns
    BY EntryIsNoNone DEF ChatInv, ChatTyped
  <2>2. turn[pending.turnId].phase = "over" /\ Proposal(pending) \in shown
    BY <1>2, <2>1 DEF ChatInv, PendingShown
  <2> QED BY <1>1, <1>2, <1>5, <1>6, <2>1, <2>2 DEF IsOpen
<1>11. ConfirmedShown' /\ LoadedStands'
  BY <1>3, <1>8 DEF ConfirmedShown, LoadedStands, Confirming
<1> QED BY <1>7, <1>9, <1>10, <1>11 DEF ChatInv

LEMMA ReplyFits ==
  ASSUME ChatInv, Chat!Reply
  PROVE  ChatInv'
<1>1. PICK t \in Chat!Open :
        /\ \A c \in Tools : tool[c].turn # t
        /\ turn' = [turn EXCEPT ![t].phase = "over"]
        /\ shown' = shown \cup turn[t].proposed
        /\ UNCHANGED <<record, pending, tool>>
  BY DEF Chat!Reply
<1>2. t \in Turns /\ IsOpen(t)
  BY <1>1 DEF Chat!Open, IsOpen
<1>3. \A c \in Tools : tool[c].task = "none"
  BY <1>1, <1>2, ChatFacts DEF ChatInv, OneTurn
<1>4. PICK n : n = [turn[t] EXCEPT !.phase = "over"]
  OBVIOUS
<1>5. n \in TurnRow /\ n.phase = "over" /\ n.seen = turn[t].seen /\ n.proposed = turn[t].proposed
  BY <1>2, <1>4, ChatFacts DEF TurnRow
<1>6. turn' = [turn EXCEPT ![t] = n] /\ \A o \in Turns : turn'[o] = IF o = t THEN n ELSE turn[o]
  BY <1>1, <1>2, <1>4, ChatFacts
<1>7. \A o \in Turns : turn'[o].phase # "open"
  BY <1>2, <1>5, <1>6, ChatFacts DEF IsOpen
<1>8. turn[t].proposed \subseteq [of : Staff, changes : Changes]
  BY <1>2, ChatFacts DEF TurnRow
<1>9. ChatTyped'
  BY <1>1, <1>5, <1>6, <1>8, ChatFacts DEF ChatInv, ChatTyped, FitEntry
<1>10. OneTurn'
  BY <1>1, <1>3, <1>7 DEF OneTurn, IsOpen
<1>11. PendingShown'
  <2> SUFFICES ASSUME pending # Chat!NoProposal
               PROVE  turn'[pending.turnId].phase = "over" /\ Proposal(pending) \in shown'
    BY <1>1, <1>7 DEF PendingShown, IsOpen, Proposal
  <2>1. pending.turnId \in Turns
    BY EntryIsNoNone DEF ChatInv, ChatTyped
  <2>2. CASE IsOpen(pending.turnId)
    <3>1. pending.turnId = t /\ Proposal(pending) \in turn[t].proposed
      BY <1>2, <2>1, <2>2, ChatFacts DEF ChatInv, PendingShown, IsOpen
    <3> QED BY <1>1, <1>2, <1>5, <1>6, <3>1
  <2>3. CASE ~IsOpen(pending.turnId)
    <3>1. turn[pending.turnId].phase = "over" /\ Proposal(pending) \in shown
      BY <2>3 DEF ChatInv, PendingShown
    <3> QED BY <1>1, <1>5, <1>6, <2>1, <3>1
  <2> QED BY <2>2, <2>3
<1>12. ConfirmedShown' /\ LoadedStands'
  BY <1>1, <1>3 DEF ConfirmedShown, LoadedStands, Confirming
<1> QED BY <1>9, <1>10, <1>11, <1>12 DEF ChatInv

\* What the proposal of a tool is made of.
LEMMA ProposedFits ==
  ASSUME ChatInv, NEW asked \in AskedEdits, NEW t \in Turns, NEW fields,
         fields = Chat!Effective(asked.changes, record[asked.of]), NEW e,
         e = [of |-> asked.of, changes |-> [f \in fields |-> asked.changes[f]],
              before |-> [f \in fields |-> record[asked.of][f]], turnId |-> t,
              expired |-> FALSE]
  PROVE  FitEntry(e) /\ e.turnId = t /\ ~e.expired
<1>1. /\ asked.of \in Staff /\ fields \subseteq Chat!Fields
      /\ \A f \in fields : asked.changes[f] \in FieldValues[f]
                           /\ asked.changes[f] # record[asked.of][f]
  BY ChatAssumption DEF Chat!Effective
<1>2. \A f \in Chat!Fields : record[asked.of][f] \in FieldValues[f]
  BY <1>1, ChatFacts DEF Chat!Rows
<1>3. PICK ch, be : ch = [f \in fields |-> asked.changes[f]]
                    /\ be = [f \in fields |-> record[asked.of][f]]
  OBVIOUS
<1>4. ch \in [fields -> AnyValue] /\ be \in [fields -> AnyValue]
  BY <1>1, <1>2, <1>3 DEF AnyValue
<1>5. ch \in Changes /\ be \in Changes
  BY <1>1, <1>4 DEF Changes
<1>6. e \in ChatEntry /\ e.changes = ch /\ e.before = be /\ e.turnId = t /\ ~e.expired
  BY <1>1, <1>3, <1>5 DEF ChatEntry
<1> QED BY <1>1, <1>3, <1>6 DEF FitEntry

\* Returning handlers leave nothing to be shown of themselves.
LEMMA ReturnedTools ==
  ASSUME ChatInv, NEW c \in Tools, tool' = tool \/ tool' = [tool EXCEPT ![c] = Chat!Idle]
  PROVE  /\ tool' \in [Tools -> ToolState]
         /\ \A d \in Tools : tool'[d] = tool[d] \/ tool'[d] = Chat!Idle
         /\ \A d \in Tools : tool'[d].task # "none" => tool'[d] = tool[d]
  BY ChatFacts, IdleTool

LEMMA StagedFits ==
  ASSUME ChatInv, NEW c \in Tools, NEW e, FitEntry(e), IsOpen(e.turnId), Chat!Stage(e),
         tool' = tool \/ tool' = [tool EXCEPT ![c] = Chat!Idle], UNCHANGED <<record, shown>>
  PROVE  ChatInv'
<1>1. PICK t : t = e.turnId
  OBVIOUS
<1>2. t \in Turns /\ e # Chat!NoProposal /\ Proposal(e) \in [of : Staff, changes : Changes]
  BY <1>1, EntryIsNoNone
<1>3. PICK n : n = [turn[t] EXCEPT !.proposed = @ \cup {Proposal(e)}]
  OBVIOUS
<1>4. /\ n \in TurnRow /\ n.phase = turn[t].phase /\ n.seen = turn[t].seen
      /\ n.proposed = turn[t].proposed \cup {Proposal(e)}
  BY <1>2, <1>3, ChatFacts DEF TurnRow
<1>5. turn' = [turn EXCEPT ![t] = n]
  BY <1>1, <1>3 DEF Chat!Stage, Proposal
<1>6. \A o \in Turns : /\ turn'[o].phase = turn[o].phase /\ turn'[o].seen = turn[o].seen
                       /\ turn[o].proposed \subseteq turn'[o].proposed
  BY <1>2, <1>4, <1>5, ChatFacts
<1>7. /\ tool' \in [Tools -> ToolState]
      /\ \A d \in Tools : tool'[d].task # "none" => tool'[d] = tool[d]
  BY ReturnedTools
<1>8. (pending' = pending /\ pending # Chat!NoProposal) \/ pending' = e
  BY <1>2, IdleTool, EntryIsNoNone, ChatAssumption DEF Chat!Stage, Chat!IsRepeat
<1>9. ChatTyped'
  <2>1. turn' \in [Turns -> TurnRow]
    BY <1>2, <1>4, <1>5, ChatFacts
  <2>2. (pending = Chat!NoProposal \/ FitEntry(pending))'
    BY <1>8 DEF ChatInv, ChatTyped, FitEntry
  <2> QED BY <1>6, <1>7, <2>1, <2>2, ChatFacts DEF ChatInv, ChatTyped
<1>10. OneTurn'
  <2>1. \A d \in Tools : tool'[d].task # "none" =>
          /\ tool'[d].turn \in Turns /\ IsOpen(tool'[d].turn) /\ FitEntry(tool'[d].entry)
          /\ tool'[d].task = "taken" => tool'[d].entry.turnId = tool'[d].turn
    BY <1>7 DEF ChatInv, OneTurn
  <2>2. \A t1, t2 \in Turns : IsOpen(t1) /\ IsOpen(t2) => t1 = t2
    BY DEF ChatInv, OneTurn
  <2> QED BY <1>6, <2>1, <2>2 DEF OneTurn, IsOpen, FitEntry
<1>11. PendingShown'
  <2>1. CASE pending' = e
    <3>1. turn'[t].phase = "open" /\ Proposal(e) \in turn'[t].proposed
      BY <1>1, <1>2, <1>4, <1>5, ChatFacts DEF IsOpen
    <3> QED BY <1>1, <2>1, <3>1 DEF PendingShown, IsOpen, Proposal
  <2>2. CASE pending' = pending /\ pending # Chat!NoProposal
    <3>1. pending.turnId \in Turns
      BY <2>2, EntryIsNoNone DEF ChatInv, ChatTyped
    <3>2. \/ IsOpen(pending.turnId) /\ Proposal(pending) \in turn[pending.turnId].proposed
          \/ /\ turn[pending.turnId].phase = "over" /\ Proposal(pending) \in shown
             /\ \A o \in Turns : IsOpen(o) => Proposal(pending) \in turn[o].seen
      BY <2>2 DEF ChatInv, PendingShown
    <3> QED BY <1>6, <2>2, <3>1, <3>2 DEF PendingShown, IsOpen, Proposal
  <2> QED BY <1>8, <2>1, <2>2
<1>12. ConfirmedShown'
  <2>1. \A d \in Tools : Confirming(d)' => Confirming(d) /\ tool'[d] = tool[d]
    BY <1>7 DEF Confirming
  <2>2. \A d \in Tools : Confirming(d)' => tool[d].turn = t /\ t \in Turns
    BY <1>1, <1>2, <2>1 DEF ChatInv, OneTurn, Confirming
  <2>3. \A d \in Tools : Confirming(d)' => Proposal(tool'[d].entry) \in turn'[tool'[d].turn].seen
    BY <1>6, <2>1, <2>2 DEF ChatInv, ConfirmedShown
  <2>4. \A c1, d \in Tools : Confirming(c1)' /\ Confirming(d)' => tool'[c1].entry = tool'[d].entry
    BY <2>1 DEF ChatInv, ConfirmedShown
  <2>5. \A d \in Tools :
          Confirming(d)' /\ pending' # Chat!NoProposal /\ ~pending'.expired
            /\ pending'.turnId # tool'[d].turn => pending' = tool'[d].entry
    BY <1>1, <1>8, <2>1, <2>2 DEF ChatInv, ConfirmedShown
  <2> QED BY <2>3, <2>4, <2>5 DEF ConfirmedShown, Proposal
<1>13. LoadedStands'
  BY <1>7 DEF ChatInv, LoadedStands, Applied
<1> QED BY <1>9, <1>10, <1>11, <1>12, <1>13 DEF ChatInv

\* A tool call starts, goes on, or returns, while nobody confirms anything new; the
\* proposal stays, or is dropped.
LEMMA ToolStepFits ==
  ASSUME ChatInv, NEW c \in Tools, NEW k \in ToolState, tool' = [tool EXCEPT ![c] = k],
         pending' = pending \/ pending' = Chat!NoProposal,
         UNCHANGED <<turn, shown>>, record' \in [Staff -> Chat!Rows],
         k.task # "none" => k.turn \in Turns /\ IsOpen(k.turn) /\ FitEntry(k.entry),
         k.task = "taken" => k.entry.turnId = k.turn,
         k.task \in {"load", "stillFree", "save"} =>
           /\ Proposal(k.entry) \in turn[k.turn].seen
           /\ \A d \in Tools : Confirming(d) => tool[d].entry = k.entry
           /\ pending # Chat!NoProposal /\ ~pending.expired /\ pending.turnId # k.turn
                => pending = k.entry,
         LoadedStands'
  PROVE  ChatInv'
<1>1. \A d \in Tools : tool'[d] = IF d = c THEN k ELSE tool[d]
  BY ChatFacts
<1>2. ChatTyped'
  <2>1. tool' \in [Tools -> ToolState]
    BY ChatFacts
  <2> QED BY <2>1, ChatFacts DEF ChatInv, ChatTyped, FitEntry
<1>3. OneTurn'
  <2>1. \A d \in Tools : tool'[d].task # "none" =>
          /\ tool'[d].turn \in Turns /\ IsOpen(tool'[d].turn) /\ FitEntry(tool'[d].entry)
          /\ tool'[d].task = "taken" => tool'[d].entry.turnId = tool'[d].turn
    BY <1>1 DEF ChatInv, OneTurn
  <2> QED BY <2>1 DEF ChatInv, OneTurn, IsOpen, FitEntry
<1>4. PendingShown'
  BY DEF ChatInv, PendingShown, IsOpen, Proposal
<1>5. ConfirmedShown'
  <2>1. \A d \in Tools : d # c => (Confirming(d)' <=> Confirming(d)) /\ tool'[d] = tool[d]
    BY <1>1 DEF Confirming
  <2>2. tool'[c] = k /\ (Confirming(c)' <=> k.task \in {"load", "stillFree", "save"})
    BY <1>1 DEF Confirming
  <2>3. ASSUME NEW d \in Tools, Confirming(d)'
        PROVE  Proposal(tool'[d].entry) \in turn[tool'[d].turn].seen
    <3>1. CASE d = c
      BY <2>2, <2>3, <3>1
    <3>2. CASE d # c
      BY <2>1, <2>3, <3>2 DEF ChatInv, ConfirmedShown
    <3> QED BY <3>1, <3>2
  <2>4. ASSUME NEW d \in Tools, NEW f \in Tools, Confirming(d)', Confirming(f)'
        PROVE  tool'[d].entry = tool'[f].entry
    <3>1. CASE d = c /\ f = c
      BY <3>1
    <3>2. CASE d = c /\ f # c
      BY <2>1, <2>2, <2>4, <3>2
    <3>3. CASE d # c /\ f = c
      BY <2>1, <2>2, <2>4, <3>3
    <3>4. CASE d # c /\ f # c
      BY <2>1, <2>4, <3>4 DEF ChatInv, ConfirmedShown
    <3> QED BY <3>1, <3>2, <3>3, <3>4
  <2>5. ASSUME NEW d \in Tools, Confirming(d)', pending' # Chat!NoProposal, ~pending'.expired,
               pending'.turnId # tool'[d].turn
        PROVE  pending' = tool'[d].entry
    <3>1. CASE d = c
      BY <2>2, <2>5, <3>1
    <3>2. CASE d # c
      BY <2>1, <2>5, <3>2 DEF ChatInv, ConfirmedShown
    <3> QED BY <3>1, <3>2
  <2> QED BY <2>3, <2>4, <2>5 DEF ConfirmedShown, Proposal
<1> QED BY <1>2, <1>3, <1>4, <1>5 DEF ChatInv

\* Records that stay are still as they were loaded.
LEMMA LoadedKept ==
  ASSUME ChatInv, record' = record,
         \A d \in Tools : tool'[d].task \in {"stillFree", "save"} => tool'[d] = tool[d]
  PROVE  LoadedStands'
<1> SUFFICES ASSUME NEW d \in Tools, tool'[d].task \in {"stillFree", "save"}
             PROVE  /\ tool'[d].row \in Chat!Rows
                    /\ \A f \in DOMAIN tool'[d].entry.changes :
                         tool'[d].row[f] = tool'[d].entry.before[f]
                    /\ record'[tool'[d].entry.of]
                         \in {tool'[d].row, Applied(tool'[d].entry, tool'[d].row)}
  BY DEF LoadedStands, Applied
<1>1. tool'[d] = tool[d]
  OBVIOUS
<1> QED BY <1>1 DEF ChatInv, LoadedStands

LEMMA ProposeFits ==
  ASSUME ChatInv, NEW c \in Tools, NEW t \in Turns, Chat!Propose(c, t)
  PROVE  ChatInv'
<1>1. tool[c].task = "none" /\ IsOpen(t) /\ UNCHANGED <<record, shown>>
  BY ChatFacts DEF Chat!Propose
<1>2. PICK asked \in AskedEdits :
        LET fields == Chat!Effective(asked.changes, record[asked.of])
            e == [of |-> asked.of, changes |-> [f \in fields |-> asked.changes[f]],
                  before |-> [f \in fields |-> record[asked.of][f]], turnId |-> t,
                  expired |-> FALSE]
        IN  \/ /\ tool' = [tool EXCEPT ![c] = [Chat!Idle EXCEPT !.task = "taken", !.turn = t,
                                                                !.entry = e]]
               /\ UNCHANGED <<pending, turn>>
            \/ Chat!Stage(e) /\ UNCHANGED tool
  BY DEF Chat!Propose
<1>3. PICK fields, e :
        /\ fields = Chat!Effective(asked.changes, record[asked.of])
        /\ e = [of |-> asked.of, changes |-> [f \in fields |-> asked.changes[f]],
                before |-> [f \in fields |-> record[asked.of][f]], turnId |-> t,
                expired |-> FALSE]
        /\ \/ /\ tool' = [tool EXCEPT ![c] = [Chat!Idle EXCEPT !.task = "taken", !.turn = t,
                                                              !.entry = e]]
              /\ UNCHANGED <<pending, turn>>
           \/ Chat!Stage(e) /\ UNCHANGED tool
  BY <1>2
<1>4. FitEntry(e) /\ e.turnId = t
  BY <1>3, ProposedFits
<1>5. CASE Chat!Stage(e) /\ UNCHANGED tool
  BY <1>1, <1>4, <1>5, StagedFits
<1>6. CASE /\ tool' = [tool EXCEPT ![c] = [Chat!Idle EXCEPT !.task = "taken", !.turn = t,
                                                              !.entry = e]]
           /\ UNCHANGED <<pending, turn>>
  <2>1. PICK k : k = [Chat!Idle EXCEPT !.task = "taken", !.turn = t, !.entry = e]
    OBVIOUS
  <2>2. k \in ToolState /\ k.task = "taken" /\ k.turn = t /\ k.entry = e
    BY <1>4, <2>1, EntryIsNoNone DEF Chat!Idle, ToolState, Chat!Tasks
  <2>3. tool' = [tool EXCEPT ![c] = k]
    BY <1>6, <2>1
  <2>4. LoadedStands'
    <3>1. \A d \in Tools : tool'[d] = IF d = c THEN k ELSE tool[d]
      BY <2>3, ChatFacts
    <3>2. \A d \in Tools : tool'[d].task \in {"stillFree", "save"} => tool'[d] = tool[d]
      BY <2>2, <3>1
    <3>3. record' = record
      BY <1>1
    <3> QED BY <3>2, <3>3, LoadedKept
  <2>5. record' \in [Staff -> Chat!Rows]
    BY <1>1, ChatFacts
  <2>6. IsOpen(k.turn) /\ k.turn \in Turns /\ FitEntry(k.entry) /\ k.entry.turnId = k.turn
    BY <1>1, <1>4, <2>2
  <2>7. k.task \notin {"load", "stillFree", "save"} /\ k.task # "none"
    BY <2>2
  <2>8. UNCHANGED <<turn, shown>> /\ pending' = pending
    BY <1>1, <1>6
  <2> QED BY <2>2, <2>3, <2>4, <2>5, <2>6, <2>7, <2>8, ToolStepFits
<1> QED BY <1>3, <1>5, <1>6

LEMMA ProposeFreeFits ==
  ASSUME ChatInv, NEW c \in Tools, Chat!ProposeFree(c)
  PROVE  ChatInv'
<1>1. PICK e : e = tool[c].entry
  OBVIOUS
<1>2. /\ tool[c].task = "taken" /\ tool' = [tool EXCEPT ![c] = Chat!Idle]
      /\ UNCHANGED <<record, shown>>
      /\ UNCHANGED <<pending, turn>> \/ Chat!Stage(e)
  BY <1>1 DEF Chat!ProposeFree, Chat!Return
<1>3. FitEntry(e) /\ IsOpen(e.turnId)
  BY <1>1, <1>2 DEF ChatInv, OneTurn
<1>4. CASE Chat!Stage(e)
  BY <1>2, <1>3, <1>4, StagedFits
<1>5. CASE UNCHANGED <<pending, turn>>
  <2>1. LoadedStands'
    BY <1>2, ReturnedTools DEF ChatInv, LoadedStands, Applied
  <2>2. record' \in [Staff -> Chat!Rows]
    BY <1>2, ChatFacts
  <2> QED BY <1>2, <1>5, <2>1, <2>2, IdleTool, ToolStepFits
<1> QED BY <1>2, <1>4, <1>5

LEMMA ConfirmFits ==
  ASSUME ChatInv, NEW c \in Tools, NEW t \in Turns, Chat!Confirm(c, t)
  PROVE  ChatInv'
<1>1. /\ tool[c].task = "none" /\ IsOpen(t) /\ pending # Chat!NoProposal
      /\ UNCHANGED <<record, turn, shown>>
  BY ChatFacts DEF Chat!Confirm
<1>2. FitEntry(pending)
  BY <1>1 DEF ChatInv, ChatTyped
<1>3. CASE pending.expired
  <2>1. pending' = Chat!NoProposal /\ tool' = tool
    BY <1>3 DEF Chat!Confirm
  <2>2. ChatTyped'
    BY <1>1, <2>1 DEF ChatInv, ChatTyped
  <2>3. OneTurn'
    BY <1>1, <2>1 DEF ChatInv, OneTurn, IsOpen, FitEntry
  <2>4. PendingShown' /\ LoadedStands'
    BY <1>1, <2>1, LoadedKept DEF PendingShown
  <2>5. ConfirmedShown'
    BY <1>1, <2>1 DEF ChatInv, ConfirmedShown, Confirming, Proposal
  <2> QED BY <2>2, <2>3, <2>4, <2>5 DEF ChatInv
<1>4. CASE ~pending.expired
  <2>1. PICK k : k = [Chat!Idle EXCEPT !.task = "load", !.turn = t, !.entry = pending]
    OBVIOUS
  <2>2. k \in ToolState /\ k.task = "load" /\ k.turn = t /\ k.entry = pending
    BY <1>2, <2>1, EntryIsNoNone DEF Chat!Idle, ToolState, Chat!Tasks
  <2>3. pending.turnId # t /\ pending' = pending /\ tool' = [tool EXCEPT ![c] = k]
    BY <1>4, <2>1 DEF Chat!Confirm, Chat!Confirmable
  <2>4. Proposal(pending) \in turn[t].seen
    <3>1. ~IsOpen(pending.turnId)
      BY <1>1, <1>2, <2>3, ChatFacts, EntryIsNoNone
    <3> QED BY <1>1, <3>1 DEF ChatInv, PendingShown
  <2>5. ASSUME NEW d \in Tools, Confirming(d) PROVE tool[d].entry = pending
    <3>1. tool[d].turn \in Turns /\ IsOpen(tool[d].turn)
      BY <2>5 DEF ChatInv, OneTurn, Confirming
    <3>2. tool[d].turn = t
      BY <1>1, <3>1, ChatFacts
    <3> QED BY <1>1, <1>4, <2>3, <2>5, <3>2 DEF ChatInv, ConfirmedShown
  <2>6. LoadedStands'
    <3>1. \A d \in Tools : tool'[d] = IF d = c THEN k ELSE tool[d]
      BY <2>3, ChatFacts
    <3> QED BY <1>1, <2>2, <3>1, LoadedKept
  <2>7. record' \in [Staff -> Chat!Rows]
    BY <1>1, ChatFacts
  <2> QED BY <1>1, <1>2, <2>2, <2>3, <2>4, <2>5, <2>6, <2>7, ToolStepFits
<1> QED BY <1>3, <1>4

\* A handler that confirms, and what it goes on with.
LEMMA ConfirmingTool ==
  ASSUME ChatInv, NEW c \in Tools, Confirming(c)
  PROVE  /\ tool[c] \in ToolState /\ tool[c].turn \in Turns /\ IsOpen(tool[c].turn)
         /\ FitEntry(tool[c].entry) /\ tool[c].entry.of \in Staff
         /\ Proposal(tool[c].entry) \in turn[tool[c].turn].seen
         /\ \A d \in Tools : Confirming(d) => tool[d].entry = tool[c].entry
         /\ pending # Chat!NoProposal /\ ~pending.expired /\ pending.turnId # tool[c].turn
              => pending = tool[c].entry
<1>1. tool[c].task # "none"
  BY DEF Confirming
<1>2. FitEntry(tool[c].entry) /\ tool[c].turn \in Turns /\ IsOpen(tool[c].turn)
  BY <1>1 DEF ChatInv, OneTurn
<1>3. tool[c].entry.of \in Staff
  BY <1>2, EntryIsNoNone
<1> QED BY <1>2, <1>3, ChatFacts DEF ChatInv, ConfirmedShown

LEMMA DroppedFits ==
  ASSUME ChatInv, NEW c \in Tools, tool' = [tool EXCEPT ![c] = Chat!Idle],
         pending' = pending \/ pending' = Chat!NoProposal, UNCHANGED <<record, turn, shown>>
  PROVE  ChatInv'
<1>1. LoadedStands'
  BY ReturnedTools, LoadedKept
<1>2. record' \in [Staff -> Chat!Rows]
  BY ChatFacts
<1> QED BY <1>1, <1>2, IdleTool, ToolStepFits

LEMMA ConfirmLoadFits ==
  ASSUME ChatInv, NEW c \in Tools, Chat!ConfirmLoad(c)
  PROVE  ChatInv'
<1>1. PICK e, row : e = tool[c].entry /\ row = record[e.of]
  OBVIOUS
<1>2. /\ tool[c].task = "load" /\ Confirming(c) /\ UNCHANGED <<record, turn, shown>>
  BY DEF Chat!ConfirmLoad, Confirming
<1>3. CASE Chat!Stale(e, row)
  BY <1>1, <1>2, <1>3, DroppedFits DEF Chat!ConfirmLoad, Chat!Return
<1>4. CASE ~Chat!Stale(e, row)
  <2>1. PICK task \in {"stillFree", "save"} :
          task = IF "email" \in DOMAIN e.changes THEN "stillFree" ELSE "save"
    OBVIOUS
  <2>2. PICK k : k = [tool[c] EXCEPT !.row = row, !.task = task]
    OBVIOUS
  <2>3. pending' = pending /\ tool' = [tool EXCEPT ![c] = k]
    BY <1>1, <1>4, <2>1, <2>2 DEF Chat!ConfirmLoad
  <2>4. e.of \in Staff /\ row \in Chat!Rows /\ FitEntry(e)
    BY <1>1, <1>2, ConfirmingTool, ChatFacts
  <2>5. /\ k \in ToolState /\ k.task = task /\ k.row = row /\ k.entry = e
        /\ k.turn = tool[c].turn
    BY <1>1, <1>2, <2>2, <2>4, ConfirmingTool DEF ToolState, Chat!Tasks
  <2>6. LoadedStands'
    <3>1. \A d \in Tools : tool'[d] = IF d = c THEN k ELSE tool[d]
      BY <2>3, ChatFacts
    <3>2. \A f \in DOMAIN e.changes : row[f] = e.before[f]
      BY <1>4 DEF Chat!Stale
    <3> SUFFICES ASSUME NEW d \in Tools, tool'[d].task \in {"stillFree", "save"}
                 PROVE  /\ tool'[d].row \in Chat!Rows
                        /\ \A f \in DOMAIN tool'[d].entry.changes :
                             tool'[d].row[f] = tool'[d].entry.before[f]
                        /\ record'[tool'[d].entry.of]
                             \in {tool'[d].row, Applied(tool'[d].entry, tool'[d].row)}
      BY DEF LoadedStands, Applied
    <3>3. CASE d = c
      BY <1>1, <1>2, <2>4, <2>5, <3>1, <3>2, <3>3
    <3>4. CASE d # c
      BY <1>2, <3>1, <3>4 DEF ChatInv, LoadedStands
    <3> QED BY <3>3, <3>4
  <2>7. record' \in [Staff -> Chat!Rows]
    BY <1>2, ChatFacts
  <2>8. /\ k.turn \in Turns /\ IsOpen(k.turn) /\ Proposal(k.entry) \in turn[k.turn].seen
        /\ \A d \in Tools : Confirming(d) => tool[d].entry = k.entry
        /\ pending # Chat!NoProposal /\ ~pending.expired /\ pending.turnId # k.turn
             => pending = k.entry
    BY <1>1, <1>2, <2>5, ConfirmingTool
  <2> QED BY <1>2, <2>1, <2>3, <2>4, <2>5, <2>6, <2>7, <2>8, ToolStepFits
<1> QED BY <1>3, <1>4

LEMMA ConfirmFreeFits ==
  ASSUME ChatInv, NEW c \in Tools, Chat!ConfirmFree(c)
  PROVE  ChatInv'
<1>1. PICK e : e = tool[c].entry
  OBVIOUS
<1>2. /\ tool[c].task = "stillFree" /\ Confirming(c) /\ UNCHANGED <<record, turn, shown>>
  BY DEF Chat!ConfirmFree, Confirming
<1>3. CASE Chat!Taken(e.of, e.changes.email)
  BY <1>1, <1>2, <1>3, DroppedFits DEF Chat!ConfirmFree, Chat!Return
<1>4. CASE ~Chat!Taken(e.of, e.changes.email)
  <2>1. PICK k : k = [tool[c] EXCEPT !.task = "save"]
    OBVIOUS
  <2>2. pending' = pending /\ tool' = [tool EXCEPT ![c] = k]
    BY <1>1, <1>4, <2>1 DEF Chat!ConfirmFree
  <2>3. /\ k \in ToolState /\ k.task = "save" /\ k.row = tool[c].row /\ k.entry = e
        /\ k.turn = tool[c].turn
    BY <1>1, <1>2, <2>1, ConfirmingTool DEF ToolState, Chat!Tasks
  <2>4. LoadedStands'
    <3>1. \A d \in Tools : tool'[d] = IF d = c THEN k ELSE tool[d]
      BY <2>2, ChatFacts
    <3> SUFFICES ASSUME NEW d \in Tools, tool'[d].task \in {"stillFree", "save"}
                 PROVE  /\ tool'[d].row \in Chat!Rows
                        /\ \A f \in DOMAIN tool'[d].entry.changes :
                             tool'[d].row[f] = tool'[d].entry.before[f]
                        /\ record'[tool'[d].entry.of]
                             \in {tool'[d].row, Applied(tool'[d].entry, tool'[d].row)}
      BY DEF LoadedStands, Applied
    <3>2. tool'[d].row = tool[d].row /\ tool'[d].entry = tool[d].entry
          /\ tool[d].task \in {"stillFree", "save"}
      BY <1>1, <1>2, <2>3, <3>1
    <3> QED BY <1>2, <3>2 DEF ChatInv, LoadedStands
  <2>5. record' \in [Staff -> Chat!Rows]
    BY <1>2, ChatFacts
  <2>6. /\ k.turn \in Turns /\ IsOpen(k.turn) /\ Proposal(k.entry) \in turn[k.turn].seen
        /\ \A d \in Tools : Confirming(d) => tool[d].entry = k.entry
        /\ pending # Chat!NoProposal /\ ~pending.expired /\ pending.turnId # k.turn
             => pending = k.entry
        /\ FitEntry(k.entry)
    BY <1>1, <1>2, <2>3, ConfirmingTool
  <2> QED BY <1>2, <2>2, <2>3, <2>4, <2>5, <2>6, ToolStepFits
<1> QED BY <1>3, <1>4

LEMMA AppliedIsRow ==
  ASSUME NEW e, FitEntry(e), NEW row \in Chat!Rows
  PROVE  Applied(e, row) \in Chat!Rows
  BY DEF Applied, FitEntry, Chat!Rows

LEMMA SameApplied ==
  ASSUME NEW e, NEW r1 \in Chat!Rows, NEW r2 \in Chat!Rows, NEW x,
         x \in {r1, Applied(e, r1)}, x \in {r2, Applied(e, r2)}
  PROVE  Applied(e, r1) = Applied(e, r2)
<1>1. \A f \in Chat!Fields : f \notin DOMAIN e.changes => x[f] = r1[f] /\ x[f] = r2[f]
  BY DEF Applied
<1> QED BY <1>1 DEF Applied

LEMMA SaveUpdateFits ==
  ASSUME ChatInv, NEW c \in Tools, Chat!SaveUpdate(c)
  PROVE  /\ ChatInv'
         /\ Proposal(tool[c].entry) \in turn[tool[c].turn].seen
         /\ \A f \in Chat!Fields :
              record'[tool[c].entry.of][f] # record[tool[c].entry.of][f]
                => /\ f \in DOMAIN tool[c].entry.changes
                   /\ record[tool[c].entry.of][f] = tool[c].entry.before[f]
<1>1. PICK e, old, row : e = tool[c].entry /\ old = tool[c].row /\ row = Applied(e, old)
  OBVIOUS
<1>2. /\ tool[c].task = "save" /\ Confirming(c) /\ UNCHANGED <<turn, shown>>
      /\ tool' = [tool EXCEPT ![c] = Chat!Idle]
      /\ \/ UNCHANGED <<record, pending>>
         \/ record' = [record EXCEPT ![e.of] = row] /\ pending' = Chat!NoProposal
  BY <1>1 DEF Chat!SaveUpdate, Confirming, Applied, Chat!Return
<1>3. FitEntry(e) /\ e.of \in Staff /\ Proposal(e) \in turn[tool[c].turn].seen
  BY <1>1, <1>2, ConfirmingTool
<1>4. /\ old \in Chat!Rows /\ record[e.of] \in {old, row}
      /\ \A f \in DOMAIN e.changes : old[f] = e.before[f]
  BY <1>1, <1>2 DEF ChatInv, LoadedStands
<1>5. CASE UNCHANGED <<record, pending>>
  BY <1>1, <1>2, <1>3, <1>5, DroppedFits
<1>6. CASE record' = [record EXCEPT ![e.of] = row] /\ pending' = Chat!NoProposal
  <2>1. row \in Chat!Rows /\ record' \in [Staff -> Chat!Rows] /\ record'[e.of] = row
    BY <1>1, <1>3, <1>4, <1>6, AppliedIsRow, ChatFacts
  <2>2. LoadedStands'
    <3> SUFFICES ASSUME NEW d \in Tools, tool'[d].task \in {"stillFree", "save"}
                 PROVE  /\ tool'[d].row \in Chat!Rows
                        /\ \A f \in DOMAIN tool'[d].entry.changes :
                             tool'[d].row[f] = tool'[d].entry.before[f]
                        /\ record'[tool'[d].entry.of]
                             \in {tool'[d].row, Applied(tool'[d].entry, tool'[d].row)}
      BY DEF LoadedStands, Applied
    <3>1. tool'[d] = tool[d]
      BY <1>2, ReturnedTools
    <3>2. Confirming(d) /\ tool[d].entry = e
      BY <1>1, <1>2, <3>1, ConfirmingTool DEF Confirming
    <3>3. PICK r : r = tool[d].row
      OBVIOUS
    <3>4. /\ r \in Chat!Rows /\ record[e.of] \in {r, Applied(e, r)}
          /\ \A f \in DOMAIN e.changes : r[f] = e.before[f]
      BY <3>1, <3>2, <3>3 DEF ChatInv, LoadedStands
    <3>5. Applied(e, r) = row
      BY <1>1, <1>4, <3>4, SameApplied
    <3> QED BY <2>1, <3>1, <3>2, <3>3, <3>4, <3>5
  <2>3. ChatInv'
    BY <1>2, <1>6, <2>1, <2>2, IdleTool, ToolStepFits
  <2>4. ASSUME NEW f \in Chat!Fields, record'[e.of][f] # record[e.of][f]
        PROVE  f \in DOMAIN e.changes /\ record[e.of][f] = e.before[f]
    <3>1. record[e.of] = old
      BY <1>4, <2>1, <2>4
    <3>2. f \in DOMAIN e.changes
      BY <1>1, <2>1, <2>4, <3>1 DEF Applied
    <3> QED BY <1>4, <3>1, <3>2
  <2> QED BY <1>1, <1>3, <2>3, <2>4
<1> QED BY <1>2, <1>5, <1>6

LEMMA AsidesFit ==
  ASSUME ChatInv, ~EditsRace,
         Chat!EditElsewhere \/ Chat!TenMinutesPass \/ Chat!Restart \/ UNCHANGED Chat!vars
  PROVE  ChatInv'
<1>1. CASE Chat!EditElsewhere
  <2>1. /\ \A c \in Tools : tool[c].task \notin {"stillFree", "save"}
        /\ UNCHANGED <<pending, turn, shown, tool>>
    BY <1>1 DEF Chat!EditElsewhere
  <2>2. record' \in [Staff -> Chat!Rows]
    <3>1. PICK p \in Staff, f \in Chat!Fields, v \in UNION {FieldValues[g] : g \in Chat!Fields} :
            v \in FieldValues[f] /\ record' = [record EXCEPT ![p][f] = v]
      BY <1>1 DEF Chat!EditElsewhere
    <3>2. PICK r : r = [record[p] EXCEPT ![f] = v]
      OBVIOUS
    <3>3. r \in Chat!Rows
      BY <3>1, <3>2, ChatFacts DEF Chat!Rows
    <3>4. record' = [record EXCEPT ![p] = r]
      BY <3>1, <3>2
    <3> QED BY <3>3, <3>4, ChatFacts
  <2>3. ChatTyped'
    BY <2>1, <2>2 DEF ChatInv, ChatTyped, FitEntry
  <2>4. OneTurn'
    BY <2>1 DEF ChatInv, OneTurn, IsOpen, FitEntry
  <2>5. PendingShown' /\ ConfirmedShown'
    BY <2>1 DEF ChatInv, PendingShown, ConfirmedShown, IsOpen, Proposal, Confirming
  <2>6. LoadedStands'
    BY <2>1 DEF LoadedStands
  <2> QED BY <2>3, <2>4, <2>5, <2>6 DEF ChatInv
<1>2. CASE Chat!TenMinutesPass
  <2>1. /\ pending # Chat!NoProposal /\ UNCHANGED <<record, turn, shown, tool>>
        /\ pending' = [pending EXCEPT !.expired = TRUE]
    BY <1>2 DEF Chat!TenMinutesPass
  <2>2. PICK e : e = pending'
    OBVIOUS
  <2>3. FitEntry(pending)
    BY <2>1 DEF ChatInv, ChatTyped
  <2>4. /\ e \in ChatEntry /\ e.of = pending.of /\ e.changes = pending.changes
        /\ e.before = pending.before /\ e.turnId = pending.turnId /\ e.expired
    BY <2>1, <2>2, <2>3 DEF FitEntry, ChatEntry
  <2>5. FitEntry(e)
    BY <2>3, <2>4 DEF FitEntry
  <2>6. ChatTyped'
    BY <2>1, <2>2, <2>5 DEF ChatInv, ChatTyped, FitEntry
  <2>7. OneTurn'
    BY <2>1 DEF ChatInv, OneTurn, IsOpen, FitEntry
  <2>8. PendingShown'
    BY <2>1, <2>2, <2>4 DEF ChatInv, PendingShown, IsOpen, Proposal
  <2>9. ConfirmedShown'
    BY <2>1, <2>2, <2>4 DEF ChatInv, ConfirmedShown, Confirming, Proposal
  <2>10. LoadedStands'
    BY <2>1, LoadedKept
  <2> QED BY <2>6, <2>7, <2>8, <2>9, <2>10 DEF ChatInv
<1>3. CASE Chat!Restart
  <2>1. /\ pending' = Chat!NoProposal /\ tool' = [c \in Tools |-> Chat!Idle]
        /\ UNCHANGED <<record, shown>>
        /\ turn' = [t \in Turns |-> IF t \in Chat!Open THEN [turn[t] EXCEPT !.phase = "over"]
                                    ELSE turn[t]]
    BY <1>3 DEF Chat!Restart
  <2>2. \A t \in Turns : turn'[t] \in TurnRow /\ turn'[t].seen = turn[t].seen /\ turn'[t].phase # "open"
    <3> TAKE t \in Turns
    <3>1. turn[t] \in TurnRow
      BY ChatFacts
    <3>2. CASE t \in Chat!Open
      BY <2>1, <3>1, <3>2 DEF TurnRow
    <3>3. CASE t \notin Chat!Open
      BY <2>1, <3>1, <3>3, ChatFacts DEF IsOpen
    <3> QED BY <3>2, <3>3
  <2>3. turn' \in [Turns -> TurnRow] /\ tool' \in [Tools -> ToolState]
    BY <2>1, <2>2, IdleTool
  <2>4. ChatTyped'
    BY <2>1, <2>2, <2>3, ChatFacts DEF ChatInv, ChatTyped
  <2>5. OneTurn' /\ PendingShown' /\ ConfirmedShown' /\ LoadedStands'
    BY <2>1, <2>2, IdleTool DEF OneTurn, PendingShown, ConfirmedShown, LoadedStands, Confirming, IsOpen
  <2> QED BY <2>4, <2>5 DEF ChatInv
<1>4. CASE UNCHANGED Chat!vars
  <2>1. UNCHANGED <<record, pending, turn, shown, tool>>
    BY <1>4 DEF Chat!vars
  <2>2. ChatTyped'
    BY <2>1 DEF ChatInv, ChatTyped, FitEntry
  <2>3. OneTurn'
    BY <2>1 DEF ChatInv, OneTurn, IsOpen, FitEntry
  <2>4. PendingShown' /\ ConfirmedShown'
    BY <2>1 DEF ChatInv, PendingShown, ConfirmedShown, IsOpen, Proposal, Confirming
  <2>5. LoadedStands'
    BY <2>1, LoadedKept
  <2> QED BY <2>2, <2>3, <2>4, <2>5 DEF ChatInv
<1> QED BY <1>1, <1>2, <1>3, <1>4

LEMMA ChatStep ==
  ASSUME ChatInv, OneChatTab, ~EditsRace, [Chat!Next]_(Chat!vars)
  PROVE  ChatInv'
<1>1. ASSUME NEW c \in Tools, NEW t \in Turns, Chat!Propose(c, t) \/ Chat!Confirm(c, t)
      PROVE  ChatInv'
  BY <1>1, ProposeFits, ConfirmFits
<1>2. ASSUME NEW c \in Tools,
             \/ Chat!ProposeFree(c) \/ Chat!ConfirmLoad(c) \/ Chat!ConfirmFree(c)
             \/ Chat!SaveUpdate(c)
      PROVE  ChatInv'
  BY <1>2, ProposeFreeFits, ConfirmLoadFits, ConfirmFreeFits, SaveUpdateFits
<1> QED BY <1>1, <1>2, AskFits, ReplyFits, AsidesFit DEF Chat!Next

\* The only step that changes a record while a handler in "save" moves is its save.
LEMMA SavingIsSave ==
  ASSUME ChatInv, [Chat!Next]_(Chat!vars), NEW c \in Tools, Chat!Saving(c)
  PROVE  Chat!SaveUpdate(c)
<1>1. record' # record /\ tool'[c] # tool[c]
  BY DEF Chat!Saving
<1>2. ASSUME NEW d \in Tools, Chat!SaveUpdate(d) PROVE Chat!SaveUpdate(c)
  <2>1. tool' = [tool EXCEPT ![d] = Chat!Idle]
    BY <1>2 DEF Chat!SaveUpdate, Chat!Return
  <2>2. d = c
    BY <1>1, <2>1, ChatFacts
  <2> QED BY <1>2, <2>2
<1>3. ASSUME NEW d \in Tools,
             \/ \E t \in Turns : Chat!Propose(d, t) \/ Chat!Confirm(d, t)
             \/ Chat!ProposeFree(d) \/ Chat!ConfirmLoad(d) \/ Chat!ConfirmFree(d)
      PROVE  FALSE
  BY <1>1, <1>3 DEF Chat!Propose, Chat!Confirm, Chat!ProposeFree, Chat!ConfirmLoad, Chat!ConfirmFree
<1>4. ~(\/ Chat!Ask \/ Chat!Reply \/ Chat!EditElsewhere \/ Chat!TenMinutesPass \/ Chat!Restart
        \/ UNCHANGED Chat!vars)
  BY <1>1 DEF Chat!Ask, Chat!Reply, Chat!EditElsewhere, Chat!TenMinutesPass, Chat!Restart, Chat!vars
<1> QED BY <1>2, <1>3, <1>4 DEF Chat!Next

LEMMA ChatInvIsType == ASSUME ChatInv PROVE Chat!TypeOK
<1>1. pending.of \in Staff \cup {NoUser} /\ pending.turnId \in Turns \cup {0}
  BY IdleTool, EntryIsNoNone DEF ChatInv, ChatTyped
<1>2. \A f \in DOMAIN pending.changes : pending.changes[f] # pending.before[f]
  <2>1. CASE FitEntry(pending)
    BY <2>1 DEF FitEntry
  <2>2. CASE pending = Chat!NoProposal
    <3>1. DOMAIN Chat!NoProposal.changes = {}
      BY DEF Chat!NoProposal
    <3> QED BY <2>2, <3>1
  <2> QED BY <2>1, <2>2 DEF ChatInv, ChatTyped
<1>3. \A c \in Tools : tool[c].task \in Chat!Tasks /\ tool[c].turn \in Turns \cup {0}
  BY ChatFacts DEF ToolState
<1> QED BY <1>1, <1>2, <1>3, ChatFacts DEF Chat!TypeOK

\* With one chat window and no edit of a record in the middle of a save, the
\* assistant saves only what was shown, over the values that were shown.
THEOREM SavedWasShown ==
  OneChatTab /\ ~EditsRace /\ Chat!Spec => []Chat!TypeOK /\ ConfirmedWasShown
<1> SUFFICES ASSUME OneChatTab, ~EditsRace PROVE Chat!Spec => []Chat!TypeOK /\ ConfirmedWasShown
  OBVIOUS
<1>1. Chat!Init => ChatInv
  <2> SUFFICES ASSUME Chat!Init PROVE ChatInv
    OBVIOUS
  <2>1. \A t \in Turns : turn[t] = Chat!NewTurn
    BY DEF Chat!Init
  <2>2. Chat!NewTurn \in TurnRow /\ Chat!NewTurn.phase = "none" /\ Chat!NewTurn.seen = {}
    BY DEF Chat!NewTurn, TurnRow
  <2>3. ChatTyped
    BY <2>1, <2>2, IdleTool, ChatAssumption DEF Chat!Init, ChatTyped
  <2>4. OneTurn /\ PendingShown /\ ConfirmedShown /\ LoadedStands
    BY <2>1, <2>2, IdleTool
       DEF Chat!Init, OneTurn, PendingShown, ConfirmedShown, LoadedStands, Confirming, IsOpen
  <2> QED BY <2>3, <2>4 DEF ChatInv
<1>2. ChatInv /\ [Chat!Next]_(Chat!vars) => ChatInv'
  BY ChatStep
<1>3. ChatInv => Chat!TypeOK
  BY ChatInvIsType
<1>4. ChatInv /\ [Chat!Next]_(Chat!vars) =>
        [\A c \in Tools :
           Chat!Saving(c) => [of |-> tool[c].entry.of, changes |-> tool[c].entry.changes]
                               \in turn[tool[c].turn].seen]_(Chat!vars)
  BY SavingIsSave, SaveUpdateFits DEF Proposal
<1>5. ChatInv /\ [Chat!Next]_(Chat!vars) =>
        [\A c \in Tools :
           Chat!Saving(c) =>
             LET e == tool[c].entry IN
             \A f \in Chat!Fields :
               record'[e.of][f] # record[e.of][f]
                 => f \in DOMAIN e.changes /\ record[e.of][f] = e.before[f]]_(Chat!vars)
  BY SavingIsSave, SaveUpdateFits
<1> QED
  BY <1>1, <1>2, <1>3, <1>4, <1>5, PTL
     DEF Chat!Spec, ConfirmedWasShown, Chat!AppliedWasShown, Chat!OverwritesWhatWasShown

-----------------------------------------------------------------------------
(* The four side by side *)

\* A behaviour of the whole is, seen through the variables of a part, one of that part.
LEMMA PartsRun ==
  DirectorySpec => Spec /\ Logged!Spec /\ Joined!Spec /\ Chat!Spec
<1> DEFINE all == <<accountVars, loginVars, memberVars, chatVars>>
<1>1. DirectoryInit => Init /\ Logged!Init /\ Joined!Init /\ Chat!Init
  BY DEF DirectoryInit
<1>2. [DirectoryNext]_all => [Next]_vars
  BY DEF DirectoryNext, accountVars
<1>3. [DirectoryNext]_all => [Logged!Next]_(Logged!vars)
  BY DEF DirectoryNext, loginVars, Logged!vars
<1>4. [DirectoryNext]_all => [Joined!Next]_(Joined!vars)
  BY DEF DirectoryNext, memberVars, Joined!vars
<1>5. [DirectoryNext]_all => [Chat!Next]_(Chat!vars)
  BY DEF DirectoryNext, chatVars, Chat!vars
<1> QED
  BY <1>1, <1>2, <1>3, <1>4, <1>5, PTL
     DEF DirectorySpec, Spec, Logged!Spec, Joined!Spec, Chat!Spec

\* With only sign-ins overlapping, one change of members at a time, one chat window
\* and no other edit in the middle of its save, everything Directory promises holds.
THEOREM DirectoryAlwaysStands ==
  /\ Overlapping \subseteq {"login"} /\ OneMemberCall /\ OneChatTab /\ ~EditsRace
  /\ DirectorySpec
  => /\ []DirectoryStands /\ []CountedWithinElapsed
     /\ SignInUndoesNothing /\ RolesAreKept /\ ConfirmedWasShown
<1> SUFFICES ASSUME Overlapping \subseteq {"login"}, OneMemberCall, OneChatTab, ~EditsRace
             PROVE  DirectorySpec =>
                      /\ []DirectoryStands /\ []CountedWithinElapsed
                      /\ SignInUndoesNothing /\ RolesAreKept /\ ConfirmedWasShown
  OBVIOUS
<1>1. TypeOK /\ ResetLinkUsedOnce /\ NumberFitsAtOnce /\ Joined!TypeOK /\ Chat!TypeOK
        => DirectoryStands
  BY DEF DirectoryStands
<1>2. Spec => [](TypeOK /\ ResetLinkUsedOnce /\ NumberFitsAtOnce) /\ SignInUndoesNothing
  BY SignInsUndoNothing
<1>3. Joined!Spec => []Joined!TypeOK /\ RolesAreKept
  BY RolesAlwaysKept
<1>4. Chat!Spec => []Chat!TypeOK /\ ConfirmedWasShown
  BY SavedWasShown
<1> QED BY <1>1, <1>2, <1>3, <1>4, HeartbeatsCountOnce, PartsRun, PTL
=============================================================================
