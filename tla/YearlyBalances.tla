---------------------------- MODULE YearlyBalances ----------------------------
(***************************************************************************)
(* The rows of token_balances as token-balances.service.ts creates them:   *)
(* whenever one is read that is missing, and for everybody when a year is  *)
(* initialised; and the daily use-it-or-lose-it reminder of                *)
(* token-reminder.service.ts, which keeps its progress in the same rows.   *)
(* What requests take from a balance is in TokenRequests; here whoever has *)
(* no tokens left is one of those a run may pass over.                     *)
(***************************************************************************)
EXTENDS Integers, FiniteSets

CONSTANTS
  Staff,        \* active regular employees
  Years,        \* calendar years, consecutive numbers
  Boosts,       \* what an admin may set the boost of a balance to
  Tiers,        \* TIER_ORDER: reminders of a year, numbered from 1
  Callers,      \* slots for handlers in flight
  Apart,        \* pairs of operations that do not run at the same time
  NoOne

VARIABLES
  balances,   \* the table, one row for an employee and a year
  served,     \* the handlers in flight
  mails,      \* reminders sent: employee, year, tier and how often (history)
  today       \* the year and the tier that is due

vars == <<balances, served, mails, today>>

Accounts == Staff \X Years

Balance ==
  [exists : BOOLEAN, boostTokens : Boosts \cup {0}, lastReminderCheckpoint : Tiers \cup {0}]

Missing == [exists |-> FALSE, boostTokens |-> 0, lastReminderCheckpoint |-> 0]

NewBalance == [Missing EXCEPT !.exists = TRUE]

CallerState ==
  [task : {"none", "find", "insert", "save", "init", "mail"},
   op : {"none", "read", "boost", "initialise", "remind"},
   of : Staff \cup {NoOne}, year : Years, row : Balance,
   todo : SUBSET Staff, loaded : [Staff -> Balance], due : Tiers \cup {0}]

AtRest ==
  [task |-> "none", op |-> "none", of |-> NoOne, year |-> CHOOSE y \in Years : TRUE,
   row |-> Missing, todo |-> {}, loaded |-> [e \in Staff |-> Missing], due |-> 0]

Init ==
  /\ balances = [a \in Accounts |-> Missing]
  /\ served = [c \in Callers |-> AtRest]
  /\ mails = [m \in Accounts \X Tiers |-> 0]
  /\ today = [year |-> CHOOSE y \in Years : \A o \in Years : y <= o, tier |-> 0]

MayStart(c, op) ==
  /\ served[c].task = "none"
  /\ \A d \in Callers : {op, served[d].op} \notin Apart

Go(c, state) == served' = [served EXCEPT ![c] = state]

Return(c) == Go(c, AtRest)

-----------------------------------------------------------------------------
(* Reading a balance creates it *)

\* getBalance and getDashboard, whose find is its first step.
GetOrCreate(c) ==
  /\ MayStart(c, "read")
  /\ \E a \in Accounts :
       IF balances[a].exists THEN Return(c)
       ELSE Go(c, [AtRest EXCEPT !.op = "read", !.task = "insert", !.of = a[1],
                                 !.year = a[2]])
  /\ UNCHANGED <<balances, mails, today>>

\* updateBoostTokens, which saves the row it found, or that it had to create.
UpdateBoost(c) ==
  /\ MayStart(c, "boost")
  /\ \E a \in Accounts, b \in Boosts :
       Go(c, [AtRest EXCEPT !.op = "boost", !.of = a[1], !.year = a[2],
                 !.task = IF balances[a].exists THEN "save" ELSE "insert",
                 !.row = [(IF balances[a].exists THEN balances[a] ELSE NewBalance)
                           EXCEPT !.boostTokens = b]])
  /\ UNCHANGED <<balances, mails, today>>

\* Faulty: no unique index, the newer row is the one found.
InsertsOver(a) == TRUE

\* The unique index on employee and year.
Inserts(a) == ~balances[a].exists

\* The insert of a new balance. A boost goes on to its save; a year's
\* initialisation goes on to the next employee; any other call is done. The
\* unique index makes the call fail: the rest of an initialisation with it.
Insert(c) ==
  LET a == <<served[c].of, served[c].year>> IN
  /\ served[c].task = "insert"
  /\ \/ /\ Inserts(a)
        /\ balances' = [balances EXCEPT ![a] = NewBalance]
        /\ CASE served[c].op = "boost" -> Go(c, [served[c] EXCEPT !.task = "save"])
             [] served[c].op = "initialise" -> Go(c, [served[c] EXCEPT !.task = "init"])
             [] OTHER -> Return(c)
     \/ ~Inserts(a) /\ Return(c) /\ UNCHANGED balances
  /\ UNCHANGED <<mails, today>>

Save(c) ==
  /\ served[c].task = "save"
  /\ balances' = [balances EXCEPT ![<<served[c].of, served[c].year>>] = served[c].row]
  /\ Return(c)
  /\ UNCHANGED <<mails, today>>

-----------------------------------------------------------------------------
(* Initialising a year *)

InitializeYear(c) ==
  /\ MayStart(c, "initialise")
  /\ \E year \in Years :
       Go(c, [AtRest EXCEPT !.op = "initialise", !.task = "init", !.year = year,
                            !.todo = Staff])
  /\ UNCHANGED <<balances, mails, today>>

\* Faulty: the loop is left at the first employee who has a balance.
SkippedAll(todo, e) == {}

Skipped(todo, e) == todo \ {e}

\* One employee: skipped with a balance, given one without.
InitializeOne(c) ==
  /\ served[c].task = "init"
  /\ \E e \in served[c].todo :
       IF balances[<<e, served[c].year>>].exists
       THEN Go(c, [served[c] EXCEPT !.todo = Skipped(@, e)])
       ELSE Go(c, [served[c] EXCEPT !.task = "insert", !.of = e, !.todo = @ \ {e}])
  /\ UNCHANGED <<balances, mails, today>>

Initialized(c) ==
  /\ served[c].task = "init" /\ served[c].todo = {}
  /\ Return(c)
  /\ UNCHANGED <<balances, mails, today>>

-----------------------------------------------------------------------------
(* The reminder *)

\* runNow: from the cron job or from an admin.
RunReminder(c) ==
  /\ MayStart(c, "remind") /\ today.tier > 0
  /\ Go(c, [AtRest EXCEPT !.op = "remind", !.task = "mail", !.year = today.year,
              !.due = today.tier, !.loaded = [e \in Staff |-> balances[<<e, today.year>>]],
              !.todo = {e \in Staff : balances[<<e, today.year>>].exists}])
  /\ UNCHANGED <<balances, mails, today>>

\* Faulty: every tier that is not ahead is sent.
NotAhead(b, due) == b.lastReminderCheckpoint <= due

Behind(b, due) == b.lastReminderCheckpoint < due

\* One loaded balance: mailed and saved whole when it is behind; passed over when
\* it is not, when nothing is left of it, or when the mail fails.
RemindOne(c) ==
  LET year == served[c].year  due == served[c].due IN
  /\ served[c].task = "mail"
  /\ \E e \in served[c].todo :
       /\ Go(c, [served[c] EXCEPT !.todo = @ \ {e}])
       /\ \/ /\ Behind(served[c].loaded[e], due)
             /\ balances' = [balances EXCEPT ![<<e, year>>] =
                   [served[c].loaded[e] EXCEPT !.lastReminderCheckpoint = due]]
             /\ mails' = [mails EXCEPT ![<<<<e, year>>, due>>] = @ + 1]
          \/ UNCHANGED <<balances, mails>>
  /\ UNCHANGED today

Reminded(c) ==
  /\ served[c].task = "mail" /\ served[c].todo = {}
  /\ Return(c)
  /\ UNCHANGED <<balances, mails, today>>

\* determineDueTier looks at the date: a day without a run is made up for later.
Tomorrow ==
  /\ \/ today.tier + 1 \in Tiers /\ today' = [today EXCEPT !.tier = @ + 1]
     \/ today.year + 1 \in Years /\ today' = [year |-> today.year + 1, tier |-> 0]
  /\ UNCHANGED <<balances, served, mails>>

-----------------------------------------------------------------------------
Next ==
  \/ \E c \in Callers :
       \/ GetOrCreate(c) \/ UpdateBoost(c) \/ Insert(c) \/ Save(c)
       \/ InitializeYear(c) \/ InitializeOne(c) \/ Initialized(c)
       \/ RunReminder(c) \/ RemindOne(c) \/ Reminded(c)
  \/ Tomorrow

Spec == Init /\ [][Next]_vars

-----------------------------------------------------------------------------
(* Properties *)

\* The table, the handlers in flight and the mails have their types.
TypeOK ==
  /\ balances \in [Accounts -> Balance]
  /\ served \in [Callers -> CallerState]
  /\ mails \in [Accounts \X Tiers -> Nat]
  /\ today \in [year : Years, tier : Tiers \cup {0}]

\* An initialisation that returns has left every employee it listed with a balance,
\* whoever created rows meanwhile; one that met the unique index did not return.
YearIsComplete ==
  [][\A c \in Callers :
       (served[c].task = "init" /\ served'[c] = AtRest)
         => \A e \in Staff : balances[<<e, served[c].year>>].exists]_vars

\* Creating a balance never replaces one: what was granted or reminded survives
\* an initialisation and every read that found the row missing a moment ago.
CreationKeepsBalances ==
  [][\A c \in Callers :
       (served[c].task = "insert" /\ served'[c] # served[c] /\ balances' # balances)
         => ~balances[<<served[c].of, served[c].year>>].exists]_vars

\* Nobody is mailed one tier of a year twice, however the days, the cron job and the
\* admin's runs fall, when runs and boosts do not overlap a run.
OneReminderPerTier == \A m \in DOMAIN mails : mails[m] <= 1

=============================================================================
