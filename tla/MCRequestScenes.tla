--------------------------- MODULE MCRequestScenes ---------------------------
(***************************************************************************)
(* Four small instances of TokenRequests and its views that ask different  *)
(* questions, a behaviour being one of a scene chosen at the start:        *)
(*   first        requests decided once, over two years and all options;   *)
(*   coaching     two coaching requests, undone and resubmitted;           *)
(*   subsidies    two learning subsidies, undone and resubmitted;          *)
(*   interleaved  two handlers at work on one request.                     *)
(* The first has the tables of the modules it extends, the others tables   *)
(* of their own; those that are not of the scene stay as they begin.       *)
(***************************************************************************)
EXTENDS ApprovalViews, TLC

CONSTANT One

VARIABLES scene, rows, accounts, settings, coached, calls, currentYear, clockTicks

firstTables == vars
otherTables == <<rows, accounts, settings, coached, calls, currentYear, clockTicks>>

OneSupervisor == [e \in Employees |-> "m"]
SmallCosts == [t \in {"task_offloading", "coaching"} |-> IF t = "coaching" THEN 2 ELSE 1]

OnceOnly == {"create", "managerApprove", "hrApprove", "reject", "cancel",
             "setRequiresHr", "nextYear", "toggleOption"}
RowWriters == {"create", "managerApprove", "hrApprove", "reject", "cancel",
               "resubmit", "undo", "setRequiresHr", "slaSweep"}
AllButTables == RowWriters \cup {"updateBoost", "bookSession", "restart"}

Coached == INSTANCE ApprovalViews WITH
  requests <- rows, balances <- accounts, options <- settings, booked <- coached,
  call <- calls, year <- currentYear, now <- clockTicks,
  Coaches <- {"m"}, Ops <- AllButTables, Offered <- {"coaching"},
  Boosts <- {0}, MaxYear <- 1, MaxNow <- 1

Subsidised == INSTANCE ApprovalViews WITH
  requests <- rows, balances <- accounts, options <- settings, booked <- coached,
  call <- calls, year <- currentYear, now <- clockTicks,
  Coaches <- {"m"}, Ops <- AllButTables, Offered <- {"learning_subsidy"},
  Boosts <- {0}, MaxYear <- 1, MaxNow <- 1

\* The handlers of this scene and the requests of the others are the same
\* interchangeable values.
Overlapped == INSTANCE ApprovalViews WITH
  requests <- rows, balances <- accounts, options <- settings, booked <- coached,
  call <- calls, year <- currentYear, now <- clockTicks,
  Requests <- One, Calls <- Requests, Coaches <- {"m"}, Ops <- RowWriters,
  Offered <- {"coaching"}, Boosts <- {0}, MaxYear <- 1, MaxNow <- 1

MCInit ==
  /\ Init
  /\ \/ scene \in {"first", "coaching", "subsidies"} /\ Coached!Init
     \/ scene = "interleaved" /\ Overlapped!Init

MCNext ==
  /\ UNCHANGED scene
  /\ \/ scene = "first" /\ Next /\ UNCHANGED otherTables
     \/ scene = "coaching" /\ Coached!Next /\ UNCHANGED firstTables
     \/ scene = "subsidies" /\ Subsidised!Next /\ UNCHANGED firstTables
     \/ scene = "interleaved" /\ Overlapped!Next /\ UNCHANGED firstTables

MCSpec == MCInit /\ [][MCNext]_<<scene, firstTables, otherTables>>

Symmetry == Permutations(Requests)

-----------------------------------------------------------------------------
(* What TokenRequests and ApprovalViews promise, in the other scenes *)

\* Whichever stale row is written last, what it records of a decision and its audit
\* columns agree with its status; every charge and session rests on an approval; and
\* the queues and the history follow what is undone and resubmitted.
RowsAndChargesAgree ==
  /\ scene = "interleaved" =>
       Overlapped!DecisionRecordAgrees /\ Overlapped!AuditColumnsAgree
  /\ scene = "coaching" =>
       Coached!ChargedOnlyForApproved /\ Coached!SessionsOnlyForApproved
  /\ scene = "subsidies" =>
       /\ Subsidised!ChargedOnlyForApproved
       /\ Subsidised!QueuesAreDecidable /\ Subsidised!HistoryFollowsDecisions

\* A check leaves room for what already waits, a changed subsidy that passes its
\* recheck fits in the cap, and whatever takes tokens leaves the employee within the
\* allocation, with two handlers at work too; and a reversal gives back what the
\* approval took, next to other requests.
ChecksHold ==
  [][/\ scene = "first" => PassedWithRoom
     /\ scene = "coaching" =>
          Coached!TakesWithinAllocation /\ Coached!RefundsWhatItReverses
     /\ scene = "subsidies" => Subsidised!RecheckedWithinCap
     /\ scene = "interleaved" => Overlapped!TakesWithinAllocation
    ]_<<scene, firstTables, otherTables>>

=============================================================================
