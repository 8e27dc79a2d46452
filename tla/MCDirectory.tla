----------------------------- MODULE MCDirectory -----------------------------
(***************************************************************************)
(* Small instances of the parts of Directory. They share no state; a       *)
(* behaviour is one of a part chosen at the start, while the others stay   *)
(* as they begin. Accounts are two parts: every operation with few         *)
(* passwords, and the links that reset them with more.                     *)
(***************************************************************************)
EXTENDS Directory, TLC

VARIABLE part

\* One admin who is also a manager, and a newcomer; GDC-002 was imported, GDC-001
\* never issued.
Everything == Operations
OneFounder == {"ann"}
SecondNumber == [ann |-> 2]
AdminOrNot == {{"admin", "approver"}, {"employee"}}

\* What concerns the passwords of an account, with passwords and links enough for a
\* second reset.
AboutPasswords == {"none", "change", "forgot", "reset", "profile", "login", "oauth"}

FewSecrets == 3

Values == [f \in {"email", "position"} |-> IF f = "email" THEN {1, 2, 3} ELSE {1, 2}]
TwoRecords == [p \in {"ann", "bob"} |-> [email |-> IF p = "ann" THEN 1 ELSE 2, position |-> 1]]
TwoEdits == {[of |-> "ann", changes |-> c] : c \in {[email |-> 3], [position |-> 2]}}

MCInit == part \in {"accounts", "links", "logins", "members", "chat"} /\ DirectoryInit

MCNext ==
  /\ UNCHANGED part
  /\ \/ /\ part \in {"accounts", "links"}
        /\ Next
        /\ part = "accounts" => secrets' <= FewSecrets
        /\ part = "links" => \A c \in Calls : call'[c].op \in AboutPasswords
        /\ UNCHANGED <<loginVars, memberVars, chatVars>>
     \/ part = "logins" /\ Logged!Next /\ UNCHANGED <<accountVars, memberVars, chatVars>>
     \/ part = "members" /\ Joined!Next /\ UNCHANGED <<accountVars, loginVars, chatVars>>
     \/ part = "chat" /\ Chat!Next /\ UNCHANGED <<accountVars, loginVars, memberVars>>

MCSpec == MCInit /\ [][MCNext]_<<part, accountVars, loginVars, memberVars, chatVars>>

\* One permutation of the interchangeable values serves every part.
Symmetry == Permutations(Tools)

=============================================================================
