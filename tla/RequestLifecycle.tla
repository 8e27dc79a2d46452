-------------------------- MODULE RequestLifecycle --------------------------
(***************************************************************************)
(* What the workflow promises about a token request, without its database: *)
(* every request has a status, and while the last decision on it can still *)
(* be taken back, the status it would return to. One atomic step per       *)
(* decision. The detailed workflow of TokenRequests implements this when   *)
(* handlers do not overlap.                                                *)
(***************************************************************************)

CONSTANT Requests

VARIABLES
  status,     \* of each request
  returnsTo   \* where undoing the last decision leads, or "none"

lifecycle == <<status, returnsTo>>

Waiting == {"pending", "manager_approved"}

Move(r, to, back) ==
  /\ status' = [status EXCEPT ![r] = to]
  /\ returnsTo' = [returnsTo EXCEPT ![r] = back]

Init ==
  /\ status = [r \in Requests |-> "none"]
  /\ returnsTo = [r \in Requests |-> "none"]

Submit(r) == status[r] = "none" /\ Move(r, "pending", "none")

\* The first level settles the request, or hands it to HR.
FirstLevel(r) ==
  /\ status[r] = "pending"
  /\ \E to \in {"manager_approved", "approved"} : Move(r, to, "pending")

SecondLevel(r) ==
  /\ status[r] = "manager_approved"
  /\ Move(r, "approved", "manager_approved")

\* HR is no longer needed: the first level's decision is the one that stands.
Settle(r) ==
  /\ status[r] = "manager_approved"
  /\ Move(r, "approved", returnsTo[r])

TurnDown(r) == status[r] \in Waiting /\ Move(r, "rejected", status[r])

Withdraw(r) == status[r] \in Waiting /\ Move(r, "cancelled", "none")

TryAgain(r) == status[r] = "rejected" /\ Move(r, "pending", "none")

TakeBack(r) == returnsTo[r] # "none" /\ Move(r, returnsTo[r], "none")

Step(r) ==
  \/ Submit(r)
  \/ FirstLevel(r)
  \/ SecondLevel(r)
  \/ Settle(r)
  \/ TurnDown(r)
  \/ Withdraw(r)
  \/ TryAgain(r)
  \/ TakeBack(r)

Next == \E r \in Requests : Step(r)

Spec == Init /\ [][Next]_lifecycle

=============================================================================
