---------------------------- MODULE Memberships -----------------------------
(***************************************************************************)
(* Who belongs to a community: communities.service.ts over the tables      *)
(* communities, community_members and community_requests, with the rules   *)
(* of community-access.service.ts.                                         *)
(*                                                                         *)
(* A handler checks first and writes later, one awaited statement at a     *)
(* time: call[c].todo is the writes it has still to do. A save of a        *)
(* member writes the role and the flag of the entity, whether or not the   *)
(* row, whose key is (communityId, userId), is there by then.              *)
(***************************************************************************)
EXTENDS Naturals, Sequences, FiniteSets

CONSTANTS
  Communities,
  People,
  PlatformAdmins,   \* people with the role admin
  Calls             \* slots for handlers in flight

VARIABLES
  present,    \* people whose account is not deleted
  privacy,    \* of each community; "none" before it is created
  members,    \* community_members: the role and the flag of each row
  requests,   \* community_requests
  call        \* the handlers in flight: the writes each has still to do

vars == <<present, privacy, members, requests, call>>
tables == <<present, privacy, members, requests>>

-----------------------------------------------------------------------------
(* Tables and the handlers' local state *)

Member == [role : {"none", "member", "admin"}, expert : BOOLEAN]
NotIn == [role |-> "none", expert |-> FALSE]
Plain == [role |-> "member", expert |-> FALSE]

Pairs == Communities \X People

Kinds == {"create", "update", "role", "expert", "join", "leave", "cancel", "approve",
        "decline", "add", "remove"}

Write == [do : {"community", "member", "request", "leave", "drop", "remove"},
          pair : Pairs, row : Member, privacy : {"none", "public", "private"}]

Writing(do, g, u) == [do |-> do, pair |-> <<g, u>>, row |-> NotIn, privacy |-> "none"]
SavingMember(g, u, row) == [Writing("member", g, u) EXCEPT !.row = row]

Exists(g) == privacy[g] # "none"
Role(g, u) == members[<<g, u>>].role
IsMember(g, u) == Role(g, u) # "none"
Admins(g) == {u \in People : Role(g, u) = "admin"}

Idle == [op |-> "none", todo |-> <<>>]
Free(c) == call[c].todo = <<>>
Start(c, op, todo) ==
  call' = [call EXCEPT ![c] = [op |-> op, todo |-> todo]] /\ UNCHANGED tables

Init ==
  /\ present = People
  /\ privacy = [g \in Communities |-> "none"]
  /\ members = [p \in Pairs |-> NotIn]
  /\ requests = {}
  /\ call = [c \in Calls |-> Idle]

-----------------------------------------------------------------------------
(* Who may administer: community-access.service.ts *)

IsCommunityAdmin(g, u) == u \in PlatformAdmins \/ Role(g, u) = "admin"

AskedByAdmin(g) == Exists(g) /\ \E a \in present : IsCommunityAdmin(g, a)

-----------------------------------------------------------------------------
(* Creating and managing *)

\* A platform admin chooses the privacy, anybody else gets a private community.
Create(c, g, u) ==
  /\ Free(c) /\ ~Exists(g)
  /\ \E p \in (IF u \in PlatformAdmins THEN {"public", "private"} ELSE {"private"}) :
       Start(c, "create", <<[Writing("community", g, u) EXCEPT !.privacy = p],
                  SavingMember(g, u, [Plain EXCEPT !.role = "admin"])>>)

\* update: only a platform admin may open a community.
Update(c, g) ==
  /\ Free(c) /\ Exists(g)
  /\ \E a \in present, p \in {"public", "private"} :
       /\ IsCommunityAdmin(g, a) /\ (p = "public" => a \in PlatformAdmins)
       /\ Start(c, "update", <<[Writing("community", g, a) EXCEPT !.privacy = p]>>)

\* Faulty: one admin is taken for enough to lose one.
LastButOneCounts(g) == Cardinality(Admins(g)) <= 0

OnlyAdmin(g) == Cardinality(Admins(g)) <= 1

UpdateMemberRole(c, g, u) ==
  /\ Free(c) /\ AskedByAdmin(g) /\ IsMember(g, u)
  /\ \E role \in {"member", "admin"} :
       /\ Role(g, u) = "admin" /\ role # "admin" => ~OnlyAdmin(g)
       /\ Start(c, "role", <<SavingMember(g, u, [members[<<g, u>>] EXCEPT !.role = role])>>)

ToggleMemberExpert(c, g, u) ==
  /\ Free(c) /\ AskedByAdmin(g) /\ IsMember(g, u)
  /\ Start(c, "expert", <<SavingMember(g, u, [members[<<g, u>>] EXCEPT !.expert = ~@])>>)

-----------------------------------------------------------------------------
(* Joining and leaving *)

Join(c, g, u) ==
  /\ Free(c) /\ Exists(g) /\ u \in present /\ ~IsMember(g, u)
  /\ \/ privacy[g] = "public" /\ Start(c, "join", <<SavingMember(g, u, Plain)>>)
     \/ /\ privacy[g] = "private" /\ <<g, u>> \notin requests
        /\ Start(c, "join", <<Writing("request", g, u)>>)

Leave(c, g, u) ==
  /\ Free(c) /\ Exists(g) /\ u \in present
  /\ Start(c, "leave", <<Writing("leave", g, u), Writing("drop", g, u)>>)

CancelRequest(c, g, u) ==
  /\ Free(c) /\ Exists(g) /\ u \in present
  /\ Start(c, "cancel", <<Writing("drop", g, u)>>)

\* Faulty: whoever asked is made a member, one already there as well.
LetInAgain(g, u) == <<SavingMember(g, u, Plain), Writing("drop", g, u)>>

LetIn(g, u) ==
  (IF IsMember(g, u) THEN <<>> ELSE <<SavingMember(g, u, Plain)>>)
  \o <<Writing("drop", g, u)>>

ApproveRequest(c, g, u) ==
  /\ Free(c) /\ AskedByAdmin(g) /\ <<g, u>> \in requests
  /\ Start(c, "approve", LetIn(g, u))

DeclineRequest(c, g, u) ==
  /\ Free(c) /\ AskedByAdmin(g)
  /\ Start(c, "decline", <<Writing("drop", g, u)>>)

Add(g, u, role) ==
  <<SavingMember(g, u, [Plain EXCEPT !.role = role]), Writing("drop", g, u)>>

\* addMembers, for one of the people in the batch.
AddMember(c, g, u) ==
  /\ Free(c) /\ AskedByAdmin(g) /\ u \in present /\ ~IsMember(g, u)
  /\ \E role \in {"member", "admin"} : Start(c, "add", Add(g, u, role))

\* deleteUser of the directory: memberships and requests go with the account.
RemoveUser(c, u) ==
  /\ Free(c) /\ u \in present
  /\ \E g \in Communities : Start(c, "remove", <<Writing("remove", g, u)>>)

-----------------------------------------------------------------------------
(* The writes *)

\* Rows of people whose account is gone cannot be inserted (foreign key): the
\* handler fails. The deletes find nothing.
Storable(w) == w.do \in {"member", "request"} => w.pair[2] \in present

Perform(c) ==
  LET w == Head(call[c].todo)  g == w.pair[1]  u == w.pair[2]
      rest == Tail(call[c].todo)
  IN
  /\ ~Free(c)
  /\ IF Storable(w)
     THEN /\ privacy' = IF w.do = "community" THEN [privacy EXCEPT ![g] = w.privacy] ELSE privacy
          /\ members' = CASE w.do = "member" -> [members EXCEPT ![w.pair] = w.row]
                          [] w.do = "leave" -> [members EXCEPT ![w.pair] = NotIn]
                          [] w.do = "remove" ->
                               [p \in Pairs |-> IF p[2] = u THEN NotIn ELSE members[p]]
                          [] OTHER -> members
          /\ requests' = CASE w.do = "request" -> requests \cup {w.pair}
                           [] w.do = "drop" -> requests \ {w.pair}
                           [] w.do = "remove" -> {p \in requests : p[2] # u}
                           [] OTHER -> requests
          /\ call' = [call EXCEPT ![c] =
                        IF rest = <<>> THEN Idle ELSE [call[c] EXCEPT !.todo = rest]]
          /\ present' = IF w.do = "remove" THEN present \ {u} ELSE present
     ELSE call' = [call EXCEPT ![c] = Idle] /\ UNCHANGED tables

Restart == call' = [c \in Calls |-> Idle] /\ UNCHANGED tables

Next ==
  \/ \E c \in Calls, g \in Communities :
       \/ Update(c, g)
       \/ \E u \in present :
            \/ Create(c, g, u) \/ UpdateMemberRole(c, g, u) \/ ToggleMemberExpert(c, g, u)
            \/ Join(c, g, u) \/ Leave(c, g, u) \/ CancelRequest(c, g, u)
            \/ ApproveRequest(c, g, u) \/ DeclineRequest(c, g, u) \/ AddMember(c, g, u)
  \/ \E c \in Calls : Perform(c) \/ \E u \in People : RemoveUser(c, u)
  \/ Restart

Spec == Init /\ [][Next]_vars

-----------------------------------------------------------------------------
(* Properties *)

\* Every table and every list of writes has its type.
TypeOK ==
  /\ present \subseteq People
  /\ privacy \in [Communities -> {"none", "public", "private"}]
  /\ members \in [Pairs -> Member]
  /\ requests \subseteq Pairs
  /\ call \in [Calls -> [op : Kinds \cup {"none"}, todo : Seq(Write)]]

\* Approving a request, however old, and joining take nobody's role away: an admin
\* who stays is demoted by a change of role only.
OnlyRoleChangesDemote ==
  [][\A p \in Pairs : members[p].role = "admin" /\ members'[p].role = "member" =>
       \E c \in Calls : call[c].op = "role" /\ call'[c] # call[c]]_vars

\* Changing roles never leaves a community without an admin. (Leaving may.)
RoleChangesKeepAnAdmin ==
  [][\A g \in Communities :
       Admins(g) # {} /\ Admins(g)' = {} =>
         \E u \in Admins(g) : ~IsMember(g, u)']_vars

=============================================================================
