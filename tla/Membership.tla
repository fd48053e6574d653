------------------------------ MODULE Membership ------------------------------
(***************************************************************************)
(* Organizations and who belongs to them: organizations/views.py, the      *)
(* personal organization of organizations/models.py, and the account       *)
(* deletion of accounts/views.py, which takes the user's memberships with  *)
(* it.  Each view checks, in one statement, what it then relies on in      *)
(* another; none of them opens a transaction or locks a row.               *)
(*                                                                         *)
(* The organization a session has selected is not kept: a user may switch  *)
(* to any organization of theirs before any request.                       *)
(***************************************************************************)
EXTENDS Naturals, FiniteSets

CONSTANTS Users,
          NoUser,
          Threads,
          Ops,          \* the requests that may be made
          MaxOrgs,      \* bound: organizations ever created
          MaxMembers    \* bound: memberships ever created

ASSUME NoUserAssumption == NoUser \notin Users
ASSUME MembershipBounds == MaxOrgs \in Nat /\ MaxMembers \in Nat

VARIABLES users,    \* the accounts that exist
          orgs,     \* Organization
          members,  \* Membership
          serial,   \* the next primary keys
          thread,   \* what each thread is doing, with the values it has read
          stale     \* history: organizations changed on the strength of a stale reading

vars == <<users, orgs, members, serial, thread, stale>>

\* "member" stands for a viewer too: no check of these views tells them apart.
Roles == {"owner", "admin", "member"}
AtLeastAdmin == {"owner", "admin"}
Assignable == {"admin", "member"}

\* The slug is the user's name and, from the second on, a number.
Org == [id: Nat, of: Users, n: Nat]
Member == [id: Nat, org: Nat, user: Users, role: Roles]

MembersOf(o) == {m \in members : m.org = o}
OwnersOf(o) == {m \in MembersOf(o) : m.role = "owner"}
MembershipOf(u, o) == {m \in MembersOf(o) : m.user = u}
OwnedBy(u) == {m.org : m \in {m \in members : m.user = u /\ m.role = "owner"}}
IsSingleton(S) == \E x \in S : S = {x}
-----------------------------------------------------------------------------
(***************************************************************************)
(* A request: the user who sent it, the organization it acts under, the    *)
(* slug it has chosen, the role of the caller's membership, its copy of    *)
(* the membership it changes, the owners it has counted; and for a         *)
(* deletion, the organizations still to be checked and those it found to   *)
(* have another owner, or nobody else.                                     *)
(***************************************************************************)
NoMember == [id |-> 0, org |-> 0, user |-> NoUser, role |-> "member"]

Idle == [op |-> "idle", pc |-> "idle", user |-> NoUser, org |-> 0, n |-> 0, actor |-> "member",
         invited |-> NoUser, target |-> NoMember, counted |-> {}, todo |-> {}, shared |-> {}, alone |-> {}]

OpNames == {"idle", "visit", "invite", "change", "delete_account"}
Pcs == {"idle", "slug", "create_org", "create_owner", "lookup", "insert",
        "get_target", "count", "write", "other_owners", "other_members", "delete_user"}

ThreadState ==
  [op: OpNames, pc: Pcs, user: Users \cup {NoUser}, org: Nat, n: Nat, actor: Roles,
   invited: Users \cup {NoUser}, target: Member \cup {NoMember}, counted: SUBSET Member,
   todo: SUBSET Nat, shared: SUBSET Nat, alone: SUBSET Nat]

IsIdle(t, op) == op \in Ops /\ thread[t] = Idle
Goto(t, pc) == thread' = [thread EXCEPT ![t].pc = pc]
Finish(t) == thread' = [thread EXCEPT ![t] = Idle]

\* Requests start only while the bounds leave room for the rows they may create.
Creating == {t \in Threads : thread[t].op = "invite"
                            \/ thread[t].pc \in {"slug", "create_org", "create_owner"}}
OrgRoom == serial.org + Cardinality(Creating) <= MaxOrgs
MemberRoom == serial.member + Cardinality(Creating) <= MaxMembers

\* Everyone has signed up, and nobody has visited yet.
Init ==
  /\ users = Users
  /\ orgs = {}
  /\ members = {}
  /\ serial = [org |-> 1, member |-> 1]
  /\ thread = [t \in Threads |-> Idle]
  /\ stale = {}
-----------------------------------------------------------------------------
(***************************************************************************)
(* current_organization and _require_role: a request under an organization *)
(* begins where its sender is found to be an admin of it at least.         *)
(***************************************************************************)
NextStep(op) == IF op = "invite" THEN "lookup" ELSE "get_target"

RequireRole(t) ==
  \E op \in {"invite", "change"}, m \in members :
    /\ IsIdle(t, op) /\ (op = "invite" => MemberRoom)
    /\ m.role \in AtLeastAdmin
    /\ thread' = [thread EXCEPT ![t] = [Idle EXCEPT !.op = op, !.pc = NextStep(op),
                     !.user = m.user, !.org = m.org, !.actor = m.role]]
    /\ UNCHANGED <<users, orgs, members, serial, stale>>

(***************************************************************************)
(* personal_organization, for a user who owns none: its slug, the new      *)
(* organization and the owner's membership.  What the request does under   *)
(* the new organization is a request that follows it.                      *)
(***************************************************************************)
Visit(t) ==
  \E u \in users :
    /\ IsIdle(t, "visit") /\ OrgRoom /\ MemberRoom
    /\ OwnedBy(u) = {}
    /\ thread' = [thread EXCEPT ![t] = [Idle EXCEPT !.op = "visit", !.pc = "slug", !.user = u]]
    /\ UNCHANGED <<users, orgs, members, serial, stale>>

SlugTaken(u, n) == \E o \in orgs : o.of = u /\ o.n = n

\* _unique_slug: the first number that is free.
UniqueSlug(t) ==
  LET u == thread[t].user
  IN /\ thread[t].pc = "slug"
     /\ \E n \in 1..MaxOrgs :
          /\ ~SlugTaken(u, n) /\ \A i \in 1..(n - 1) : SlugTaken(u, i)
          /\ thread' = [thread EXCEPT ![t].n = n, ![t].pc = "create_org"]
     /\ UNCHANGED <<users, orgs, members, serial, stale>>

\* Organization.objects.create: its slug is unique.
CreateOrg(t) ==
  LET u == thread[t].user
      org == [id |-> serial.org, of |-> u, n |-> thread[t].n]
  IN /\ thread[t].pc = "create_org"
     /\ \/ /\ SlugTaken(u, thread[t].n)
           /\ Finish(t)
           /\ UNCHANGED <<orgs, serial>>
        \/ /\ ~SlugTaken(u, thread[t].n)
           /\ orgs' = orgs \cup {org}
           /\ serial' = [serial EXCEPT !.org = @ + 1]
           /\ thread' = [thread EXCEPT ![t].org = org.id, ![t].pc = "create_owner"]
     /\ UNCHANGED <<users, members, stale>>

InsertMembership(u, o, role) ==
  /\ members' = members \cup {[id |-> serial.member, org |-> o, user |-> u, role |-> role]}
  /\ serial' = [serial EXCEPT !.member = @ + 1]

\* Mutant: the role is stored by its label.
CreateLabelled(t) ==
  LET r == thread[t]
  IN /\ r.pc = "create_owner"
     /\ InsertMembership(r.user, r.org, "Owner")
     /\ Finish(t)
     /\ UNCHANGED <<users, orgs, stale>>

\* The owner's membership; its foreign key fails when the account is gone.
CreateOwner(t) ==
  LET r == thread[t]
  IN /\ r.pc = "create_owner"
     /\ \/ /\ r.user \notin users
           /\ UNCHANGED <<members, serial>>
        \/ /\ r.user \in users
           /\ InsertMembership(r.user, r.org, "owner")
     /\ Finish(t)
     /\ UNCHANGED <<users, orgs, stale>>
-----------------------------------------------------------------------------
(***************************************************************************)
(* member_invite: the user is looked up and must not be a member yet; the  *)
(* INSERT fails if he has become one, or has deleted his account.          *)
(***************************************************************************)
LookUpUser(t) ==
  LET r == thread[t]
  IN /\ r.pc = "lookup"
     /\ \E u \in users :
          IF MembershipOf(u, r.org) = {}
            THEN thread' = [thread EXCEPT ![t].invited = u, ![t].pc = "insert"]
            ELSE Finish(t)
     /\ UNCHANGED <<users, orgs, members, serial, stale>>

\* The caller has lost the role the request relied on.
RoleLost(t) ==
  \A m \in MembershipOf(thread[t].user, thread[t].org) : m.role \notin AtLeastAdmin

Invite(t) ==
  LET r == thread[t]
  IN /\ r.pc = "insert"
     /\ \/ /\ r.invited \in users /\ MembershipOf(r.invited, r.org) = {}
           /\ \E role \in Assignable : InsertMembership(r.invited, r.org, role)
           /\ stale' = IF RoleLost(t) THEN stale \cup {r.org} ELSE stale
        \/ /\ r.invited \notin users \/ MembershipOf(r.invited, r.org) # {}
           /\ UNCHANGED <<members, serial, stale>>
     /\ Finish(t)
     /\ UNCHANGED <<users, orgs>>

(***************************************************************************)
(* member_role and member_remove share their checks: an owner's membership *)
(* is changed by an owner only, and the last owner stays.                  *)
(***************************************************************************)
\* Mutant: the membership is looked up in every organization.
GetAnyTarget(t) ==
  LET r == thread[t]
  IN /\ r.pc = "get_target"
     /\ \E m \in members :
          /\ m.role # "owner" \/ r.actor = "owner"
          /\ thread' = [thread EXCEPT ![t].target = m,
                           ![t].pc = IF m.role = "owner" THEN "count" ELSE "write"]
     /\ UNCHANGED <<users, orgs, members, serial, stale>>

GetTarget(t) ==
  LET r == thread[t]
  IN /\ r.pc = "get_target"
     /\ \/ Finish(t)                                 \* no such membership
        \/ \E m \in MembersOf(r.org) :
             \/ /\ m.role # "owner"
                /\ thread' = [thread EXCEPT ![t].target = m, ![t].pc = "write"]
             \/ /\ m.role = "owner" /\ r.actor = "owner"
                /\ thread' = [thread EXCEPT ![t].target = m, ![t].pc = "count"]
     /\ UNCHANGED <<users, orgs, members, serial, stale>>

\* Mutant: the number of owners is not counted.
CountNothing(t) ==
  LET owners == OwnersOf(thread[t].org)
  IN /\ thread[t].pc = "count"
     /\ thread' = [thread EXCEPT ![t].counted = owners, ![t].pc = "write"]
     /\ UNCHANGED <<users, orgs, members, serial, stale>>

CountOwners(t) ==
  LET owners == OwnersOf(thread[t].org)
  IN /\ thread[t].pc = "count"
     /\ IF IsSingleton(owners)
          THEN Finish(t)
          ELSE thread' = [thread EXCEPT ![t].counted = owners, ![t].pc = "write"]
     /\ UNCHANGED <<users, orgs, members, serial, stale>>

\* The membership it is about to write has become an owner's, or the owners
\* are no longer those it counted.
Outdated(t) ==
  LET m == thread[t].target
  IN IF m.role = "owner"
       THEN OwnersOf(m.org) # thread[t].counted
       ELSE \E w \in OwnersOf(m.org) : w.id = m.id

ChangeTarget(t, after) ==
  LET m == thread[t].target
  IN /\ thread[t].pc = "write"
     /\ members' = {w \in members : w.id # m.id} \cup after
     /\ stale' = IF Outdated(t) THEN stale \cup {m.org} ELSE stale
     /\ Finish(t)
     /\ UNCHANGED <<users, orgs, serial>>

\* save(update_fields=["role"]), which fails if the row is gone.
WriteRole(t) ==
  LET rows == {w \in members : w.id = thread[t].target.id}
  IN \E role \in Assignable : ChangeTarget(t, {[w EXCEPT !.role = role] : w \in rows})

DeleteMember(t) == ChangeTarget(t, {})
-----------------------------------------------------------------------------
(***************************************************************************)
(* delete_account: each organization the user owns must have another owner *)
(* or no other member.  Deleting the user deletes the memberships too.     *)
(***************************************************************************)
ListOwned(t) ==
  \E u \in users :
    /\ IsIdle(t, "delete_account")
    /\ thread' = [thread EXCEPT ![t] =
                    [Idle EXCEPT !.op = "delete_account", !.pc = "other_owners",
                                 !.user = u, !.todo = OwnedBy(u)]]
    /\ UNCHANGED <<users, orgs, members, serial, stale>>

OtherOwners(t) ==
  LET r == thread[t]
  IN /\ r.pc = "other_owners"
     /\ \/ /\ r.todo = {}
           /\ Goto(t, "delete_user")
        \/ \E o \in r.todo :
             IF \E m \in OwnersOf(o) : m.user # r.user
               THEN thread' = [thread EXCEPT ![t].todo = @ \ {o}, ![t].shared = @ \cup {o}]
               ELSE thread' = [thread EXCEPT ![t].org = o, ![t].pc = "other_members"]
     /\ UNCHANGED <<users, orgs, members, serial, stale>>

OtherMembers(t) ==
  LET r == thread[t]
  IN /\ r.pc = "other_members"
     /\ IF \E m \in MembersOf(r.org) : m.user # r.user
          THEN Finish(t)
          ELSE thread' = [thread EXCEPT ![t].todo = @ \ {r.org}, ![t].alone = @ \cup {r.org},
                                        ![t].pc = "other_owners"]
     /\ UNCHANGED <<users, orgs, members, serial, stale>>

\* What the checks found, and still holds, of an organization the user owns.
StillShared(t, o) == o \in thread[t].shared /\ \E m \in OwnersOf(o) : m.user # thread[t].user
StillAlone(t, o) == o \in thread[t].alone /\ \A m \in MembersOf(o) : m.user = thread[t].user

DeleteUser(t) ==
  LET u == thread[t].user
  IN /\ thread[t].pc = "delete_user"
     /\ users' = users \ {u}
     /\ members' = {m \in members : m.user # u}
     /\ stale' = stale \cup {o \in OwnedBy(u) : ~StillShared(t, o) /\ ~StillAlone(t, o)}
     /\ Finish(t)
     /\ UNCHANGED <<orgs, serial>>

\* An operator makes a member an owner; no view does.
GrantOwnership ==
  /\ "grant" \in Ops
  /\ \E m \in members :
       /\ m.role # "owner"
       /\ members' = (members \ {m}) \cup {[m EXCEPT !.role = "owner"]}
       /\ stale' = stale \ {m.org}
  /\ UNCHANGED <<users, orgs, serial, thread>>

\* The worker dies; every statement so far has committed.
Crash(t) ==
  /\ "crash" \in Ops /\ thread[t] # Idle
  /\ Finish(t)
  /\ UNCHANGED <<users, orgs, members, serial, stale>>

Step(t) ==
  \/ Visit(t) \/ UniqueSlug(t) \/ CreateOrg(t) \/ CreateOwner(t)
  \/ RequireRole(t) \/ LookUpUser(t) \/ Invite(t)
  \/ GetTarget(t) \/ CountOwners(t) \/ WriteRole(t) \/ DeleteMember(t)
  \/ ListOwned(t) \/ OtherOwners(t) \/ OtherMembers(t) \/ DeleteUser(t)
  \/ Crash(t)

Next == (\E t \in Threads : Step(t)) \/ GrantOwnership

Spec == Init /\ [][Next]_vars
-----------------------------------------------------------------------------
\* The types of all the variables.
TypeOK ==
  /\ users \subseteq Users
  /\ orgs \subseteq Org
  /\ members \subseteq Member
  /\ serial \in [org: Nat, member: Nat]
  /\ thread \in [Threads -> ThreadState]
  /\ stale \subseteq Nat

(***************************************************************************)
(* An organization with members has an owner, unless a request took one    *)
(* away, or added a member, on the strength of a reading that no longer    *)
(* held when it wrote.                                                     *)
(***************************************************************************)
OwnerKept ==
  \A m \in members : OwnersOf(m.org) # {} \/ m.org \in stale

(***************************************************************************)
(* Why it holds: an id names one membership for good, and a thread about   *)
(* to write an owner's has counted more owners than one, or none.          *)
(***************************************************************************)
IdsUnique ==
  /\ \A m \in members : m.id < serial.member
  /\ \A m, w \in members : m.id = w.id => m = w

TargetCounted(t) ==
  LET r == thread[t]
  IN r.pc \in {"count", "write"} =>
       /\ r.target.id < serial.member
       /\ \A w \in members : w.id = r.target.id => w.org = r.target.org
       /\ r.pc = "write" /\ r.target.role = "owner" => ~IsSingleton(r.counted)

OwnerInvariant == IdsUnique /\ OwnerKept /\ \A t \in Threads : TargetCounted(t)

(***************************************************************************)
(* A membership is changed or removed only by a request under its own      *)
(* organization, an owner's only by an owner, or with its user's account.  *)
(***************************************************************************)
Writes(t, m) == thread[t].pc = "write" /\ thread'[t] = Idle /\ thread[t].org = m.org

ChangesAuthorized ==
  [][\A m \in members \ members' :
       \/ m.user \notin users'
       \/ [m EXCEPT !.role = "owner"] \in members'
       \/ \E t \in Threads : Writes(t, m)
             /\ (m.role = "owner" => thread[t].actor = "owner" \/ m.org \in stale')]_vars

=============================================================================
