--------------------------- MODULE MembershipProof ---------------------------
(***************************************************************************)
(* Proofs about Membership, for any number of users and threads and any    *)
(* bounds.                                                                 *)
(***************************************************************************)
EXTENDS Membership, TLAPS

\* A request has a user: without it an organization's slug would not have its type.
UsersKnown == \A t \in Threads : thread[t].pc # "idle" => thread[t].user \in Users

TypeInvariant == TypeOK /\ UsersKnown

\* An idle thread has its type.
LEMMA InitialThread == Idle \in ThreadState
  BY DEF Idle, ThreadState, OpNames, Pcs, Roles, NoMember

\* Ending a request and moving on keep the threads' types.
LEMMA ThreadMoves ==
  ASSUME TypeOK, NEW t \in Threads
  PROVE  /\ Finish(t) => thread' \in [Threads -> ThreadState]
         /\ \A pc \in Pcs : Goto(t, pc) => thread' \in [Threads -> ThreadState]
  BY InitialThread DEF TypeOK, Finish, Goto, ThreadState

\* So does replacing a thread's record by one of the right type.
LEMMA ThreadAssigned ==
  ASSUME TypeOK, NEW t \in Threads, NEW r \in ThreadState, thread' = [thread EXCEPT ![t] = r]
  PROVE  thread' \in [Threads -> ThreadState]
  BY DEF TypeOK

\* Fields read from well-typed records.
LEMMA FieldTypes ==
  ASSUME TypeOK
  PROVE  /\ serial.org \in Nat /\ serial.member \in Nat
         /\ \A t \in Threads : /\ thread[t] \in ThreadState
                               /\ thread[t].org \in Nat /\ thread[t].n \in Nat
                               /\ thread[t].user \in Users \cup {NoUser}
                               /\ thread[t].todo \in SUBSET Nat
                               /\ thread[t].shared \in SUBSET Nat
                               /\ thread[t].alone \in SUBSET Nat
                               /\ thread[t].target \in Member \cup {NoMember}
         /\ \A m \in members : /\ m \in Member /\ m.id \in Nat /\ m.org \in Nat
                               /\ m.user \in Users /\ m.role \in Roles
  BY DEF TypeOK, ThreadState, Member

\* A membership is inserted with a fresh key.
LEMMA InsertType ==
  ASSUME TypeOK, NEW u \in Users, NEW o \in Nat, NEW role \in Roles, InsertMembership(u, o, role)
  PROVE  members' \subseteq Member /\ serial' \in [org: Nat, member: Nat]
  BY FieldTypes DEF TypeOK, InsertMembership, Member
-----------------------------------------------------------------------------
\* Statements that begin a request.
LEMMA BeginningsKeepTypes ==
  ASSUME TypeOK, NEW t \in Threads, Visit(t) \/ RequireRole(t) \/ ListOwned(t)
  PROVE  TypeOK'
  <1> USE FieldTypes
  <1>1. CASE Visit(t)
    <2>1. PICK u \in users :
             thread' = [thread EXCEPT ![t] =
                          [Idle EXCEPT !.op = "visit", !.pc = "slug", !.user = u]]
      BY <1>1 DEF Visit
    <2>2. [Idle EXCEPT !.op = "visit", !.pc = "slug", !.user = u] \in ThreadState
      BY InitialThread DEF Idle, ThreadState, OpNames, Pcs, TypeOK
    <2>3. thread' \in [Threads -> ThreadState]
      BY <2>1, <2>2, ThreadAssigned
    <2>4. QED
      BY <1>1, <2>3 DEF Visit, TypeOK
  <1>2. CASE RequireRole(t)
    <2>1. PICK op \in {"invite", "change"}, m \in members :
             thread' = [thread EXCEPT ![t] =
                          [Idle EXCEPT !.op = op, !.pc = NextStep(op), !.user = m.user,
                                       !.org = m.org, !.actor = m.role]]
      BY <1>2 DEF RequireRole
    <2>2. op \in OpNames /\ NextStep(op) \in Pcs
      BY DEF OpNames, Pcs, NextStep
    <2>3. [Idle EXCEPT !.op = op, !.pc = NextStep(op), !.user = m.user,
                       !.org = m.org, !.actor = m.role] \in ThreadState
      BY <2>2, InitialThread DEF Idle, ThreadState
    <2>4. thread' \in [Threads -> ThreadState]
      BY <2>1, <2>3, ThreadAssigned
    <2>5. QED
      BY <1>2, <2>4 DEF RequireRole, TypeOK
  <1>3. CASE ListOwned(t)
    <2>1. PICK u \in users :
             thread' = [thread EXCEPT ![t] =
                          [Idle EXCEPT !.op = "delete_account", !.pc = "other_owners",
                                       !.user = u, !.todo = OwnedBy(u)]]
      BY <1>3 DEF ListOwned
    <2>2. OwnedBy(u) \in SUBSET Nat
      BY DEF OwnedBy
    <2>3. [Idle EXCEPT !.op = "delete_account", !.pc = "other_owners",
                       !.user = u, !.todo = OwnedBy(u)] \in ThreadState
      BY <2>2, InitialThread DEF Idle, ThreadState, OpNames, Pcs, TypeOK
    <2>4. thread' \in [Threads -> ThreadState]
      BY <2>1, <2>3, ThreadAssigned
    <2>5. QED
      BY <1>3, <2>4 DEF ListOwned, TypeOK
  <1>4. QED
    BY <1>1, <1>2, <1>3

\* Statements that only read, and take a request further or end it.
LEMMA ReadsKeepTypes ==
  ASSUME TypeOK, NEW t \in Threads,
         UniqueSlug(t) \/ LookUpUser(t) \/ GetTarget(t) \/ CountOwners(t) \/ OtherOwners(t)
         \/ OtherMembers(t)
  PROVE  TypeOK'
  <1> USE FieldTypes
  <1>1. thread' \in [Threads -> ThreadState]
    <2>1. CASE UniqueSlug(t)
      <3>1. PICK n \in 1..MaxOrgs :
               thread' = [thread EXCEPT ![t].n = n, ![t].pc = "create_org"]
        BY <2>1 DEF UniqueSlug
      <3>2. n \in Nat
        BY MembershipBounds
      <3>3. [thread[t] EXCEPT !.n = n, !.pc = "create_org"] \in ThreadState
        BY <3>2 DEF ThreadState, Pcs
      <3>4. QED
        BY <3>1, <3>3 DEF TypeOK
    <2>2. CASE LookUpUser(t)
      <3>1. CASE Finish(t)
        BY <3>1, ThreadMoves
      <3>2. ASSUME NEW u \in users,
                   thread' = [thread EXCEPT ![t].invited = u, ![t].pc = "insert"]
            PROVE  thread' \in [Threads -> ThreadState]
        <4>1. [thread[t] EXCEPT !.invited = u, !.pc = "insert"] \in ThreadState
          BY ZenonT(40) DEF ThreadState, Pcs, TypeOK
        <4>2. QED
          BY <3>2, <4>1 DEF TypeOK
      <3>3. QED
        BY <2>2, <3>1, <3>2 DEF LookUpUser
    <2>3. CASE GetTarget(t)
      <3>1. CASE Finish(t)
        BY <3>1, ThreadMoves
      <3>2. ASSUME NEW m \in members, NEW pc \in {"write", "count"},
                   thread' = [thread EXCEPT ![t].target = m, ![t].pc = pc]
            PROVE  thread' \in [Threads -> ThreadState]
        <4>1. [thread[t] EXCEPT !.target = m, !.pc = pc] \in ThreadState
          BY DEF ThreadState, Pcs
        <4>2. QED
          BY <3>2, <4>1 DEF TypeOK
      <3>3. QED
        BY <2>3, <3>1, <3>2 DEF GetTarget, MembersOf
    <2>4. CASE CountOwners(t)
      <3>1. CASE Finish(t)
        BY <3>1, ThreadMoves
      <3>2. CASE thread' = [thread EXCEPT ![t].counted = OwnersOf(thread[t].org),
                                          ![t].pc = "write"]
        <4>1. OwnersOf(thread[t].org) \in SUBSET Member
          BY DEF OwnersOf, MembersOf
        <4>2. [thread[t] EXCEPT !.counted = OwnersOf(thread[t].org), !.pc = "write"]
                \in ThreadState
          BY <4>1 DEF ThreadState, Pcs
        <4>3. QED
          BY <3>2, <4>2 DEF TypeOK
      <3>3. QED
        BY <2>4, <3>1, <3>2 DEF CountOwners
    <2>5. CASE OtherOwners(t)
      <3>1. CASE Goto(t, "delete_user")
        BY <3>1, ThreadMoves DEF Pcs
      <3>2. ASSUME NEW o \in thread[t].todo,
                   thread' = [thread EXCEPT ![t].todo = @ \ {o}, ![t].shared = @ \cup {o}]
            PROVE  thread' \in [Threads -> ThreadState]
        <4>1. thread[t].todo \ {o} \in SUBSET Nat /\ thread[t].shared \cup {o} \in SUBSET Nat
          OBVIOUS
        <4>2. [thread[t] EXCEPT !.todo = @ \ {o}, !.shared = @ \cup {o}] \in ThreadState
          BY <4>1 DEF ThreadState
        <4>3. QED
          BY <3>2, <4>2 DEF TypeOK
      <3>3. ASSUME NEW o \in thread[t].todo,
                   thread' = [thread EXCEPT ![t].org = o, ![t].pc = "other_members"]
            PROVE  thread' \in [Threads -> ThreadState]
        <4>1. [thread[t] EXCEPT !.org = o, !.pc = "other_members"] \in ThreadState
          BY ZenonT(40) DEF ThreadState, Pcs
        <4>2. QED
          BY <3>3, <4>1 DEF TypeOK
      <3>4. QED
        BY <2>5, <3>1, <3>2, <3>3 DEF OtherOwners
    <2>6. CASE OtherMembers(t)
      <3>1. CASE Finish(t)
        BY <3>1, ThreadMoves
      <3>2. CASE thread' = [thread EXCEPT ![t].todo = @ \ {thread[t].org},
                                          ![t].alone = @ \cup {thread[t].org},
                                          ![t].pc = "other_owners"]
        <4>1. /\ thread[t].todo \ {thread[t].org} \in SUBSET Nat
              /\ thread[t].alone \cup {thread[t].org} \in SUBSET Nat
          OBVIOUS
        <4>2. [thread[t] EXCEPT !.todo = @ \ {thread[t].org}, !.alone = @ \cup {thread[t].org},
                                !.pc = "other_owners"] \in ThreadState
          BY <4>1, ZenonT(40) DEF ThreadState, Pcs
        <4>3. QED
          BY <3>2, <4>2 DEF TypeOK
      <3>3. QED
        BY <2>6, <3>1, <3>2 DEF OtherMembers
    <2>7. QED
      BY <2>1, <2>2, <2>3, <2>4, <2>5, <2>6
  <1>2. UNCHANGED <<users, orgs, members, serial, stale>>
    BY DEF UniqueSlug, LookUpUser, GetTarget, CountOwners, OtherOwners, OtherMembers
  <1>3. QED
    BY <1>1, <1>2 DEF TypeOK

\* A membership that is written keeps its type.
LEMMA ChangeType ==
  ASSUME TypeOK, NEW t \in Threads, NEW after \in SUBSET Member, ChangeTarget(t, after)
  PROVE  TypeOK'
  <1>1. members' \subseteq Member
    BY DEF ChangeTarget, TypeOK
  <1>2. stale' \subseteq Nat
    <2>1. thread[t].target.org \in Nat
      BY FieldTypes DEF Member, NoMember
    <2>2. stale' = stale \cup {thread[t].target.org} \/ stale' = stale
      BY DEF ChangeTarget
    <2>3. QED
      BY <2>1, <2>2 DEF TypeOK
  <1>3. QED
    BY <1>1, <1>2, ThreadMoves DEF ChangeTarget, TypeOK

\* Statements that write.
LEMMA WritesKeepTypes ==
  ASSUME TypeOK, UsersKnown, NEW t \in Threads,
         CreateOrg(t) \/ CreateOwner(t) \/ Invite(t) \/ WriteRole(t) \/ DeleteMember(t)
         \/ DeleteUser(t) \/ Crash(t)
  PROVE  TypeOK'
  <1> USE FieldTypes
  <1>1. CASE CreateOrg(t)
    <2>1. CASE Finish(t) /\ UNCHANGED <<orgs, serial>>
      BY <1>1, <2>1, ThreadMoves DEF CreateOrg, TypeOK
    <2>2. CASE ~SlugTaken(thread[t].user, thread[t].n)
      <3> DEFINE org == [id |-> serial.org, of |-> thread[t].user, n |-> thread[t].n]
      <3>1. orgs' = orgs \cup {org} /\ serial' = [serial EXCEPT !.org = @ + 1]
            /\ thread' = [thread EXCEPT ![t].org = org.id, ![t].pc = "create_owner"]
        BY <1>1, <2>2 DEF CreateOrg
      <3>2. org \in Org
        BY <1>1 DEF Org, CreateOrg, UsersKnown
      <3>3. [thread[t] EXCEPT !.org = org.id, !.pc = "create_owner"] \in ThreadState
        BY DEF ThreadState, Pcs
      <3>4. thread' \in [Threads -> ThreadState]
        BY <3>1, <3>3 DEF TypeOK
      <3>5. QED
        BY <1>1, <3>1, <3>2, <3>4 DEF CreateOrg, TypeOK
    <2>3. QED
      BY <1>1, <2>1, <2>2 DEF CreateOrg
  <1>2. CASE CreateOwner(t)
    <2>1. CASE UNCHANGED <<members, serial>>
      BY <1>2, <2>1, ThreadMoves DEF CreateOwner, TypeOK
    <2>2. CASE thread[t].user \in users /\ InsertMembership(thread[t].user, thread[t].org, "owner")
      BY <1>2, <2>2, ThreadMoves, InsertType DEF CreateOwner, TypeOK, Roles
    <2>3. QED
      BY <1>2, <2>1, <2>2 DEF CreateOwner
  <1>3. CASE Invite(t)
    <2>1. CASE UNCHANGED <<members, serial, stale>>
      BY <1>3, <2>1, ThreadMoves DEF Invite, TypeOK
    <2>2. ASSUME NEW role \in Assignable, thread[t].invited \in users,
                 InsertMembership(thread[t].invited, thread[t].org, role),
                 stale' = IF RoleLost(t) THEN stale \cup {thread[t].org} ELSE stale
          PROVE  TypeOK'
      <3>1. members' \subseteq Member /\ serial' \in [org: Nat, member: Nat]
        BY <2>2, InsertType DEF TypeOK, Roles, Assignable
      <3>2. QED
        BY <1>3, <2>2, <3>1, ThreadMoves DEF Invite, TypeOK
    <2>3. QED
      BY <1>3, <2>1, <2>2 DEF Invite
  <1>4. CASE WriteRole(t)
    <2>1. PICK role \in Assignable :
             ChangeTarget(t, {[w EXCEPT !.role = role] :
                                w \in {w \in members : w.id = thread[t].target.id}})
      BY <1>4 DEF WriteRole
    <2>2. {[w EXCEPT !.role = role] : w \in {w \in members : w.id = thread[t].target.id}}
            \in SUBSET Member
      BY DEF Member, Assignable, Roles
    <2>3. QED
      BY <2>1, <2>2, ChangeType
  <1>5. CASE DeleteMember(t)
    BY <1>5, ChangeType DEF DeleteMember
  <1>6. CASE DeleteUser(t)
    <2>1. \A u : OwnedBy(u) \subseteq Nat
      BY DEF OwnedBy
    <2>2. QED
      BY <1>6, <2>1, ThreadMoves DEF DeleteUser, TypeOK
  <1>7. CASE Crash(t)
    BY <1>7, ThreadMoves DEF Crash, TypeOK
  <1>8. QED
    BY <1>1, <1>2, <1>3, <1>4, <1>5, <1>6, <1>7

\* An operator's statement.
LEMMA GrantKeepsTypes ==
  ASSUME TypeOK, GrantOwnership
  PROVE  TypeOK'
  <1>1. PICK m \in members : /\ members' = (members \ {m}) \cup {[m EXCEPT !.role = "owner"]}
                             /\ stale' = stale \ {m.org}
    BY DEF GrantOwnership
  <1>2. [m EXCEPT !.role = "owner"] \in Member
    BY DEF TypeOK, Member, Roles
  <1>3. QED
    BY <1>1, <1>2 DEF GrantOwnership, TypeOK

\* A request keeps its user until it ends.
LEMMA UserStays ==
  ASSUME TypeOK, UsersKnown, NEW t \in Threads, Step(t)
  PROVE  UsersKnown'
  <1> USE FieldTypes
  <1>1. CASE Finish(t)
    BY <1>1 DEF UsersKnown, Finish, Idle, TypeOK
  <1>2. CASE Visit(t)
    BY <1>2 DEF Visit, UsersKnown, TypeOK, Idle
  <1>3. CASE RequireRole(t)
    BY <1>3 DEF RequireRole, UsersKnown, TypeOK, Idle
  <1>4. CASE ListOwned(t)
    BY <1>4 DEF ListOwned, UsersKnown, TypeOK, Idle
  <1>5. ASSUME ~Finish(t), ~Visit(t), ~RequireRole(t), ~ListOwned(t)
        PROVE  thread[t].pc # "idle" /\ thread'[t].user = thread[t].user
               /\ \A s \in Threads \ {t} : thread'[s] = thread[s]
    <2>1. CASE UniqueSlug(t)
      BY <2>1 DEF UniqueSlug, TypeOK, ThreadState
    <2>2. CASE CreateOrg(t)
      BY <2>2, <1>5 DEF CreateOrg, TypeOK, ThreadState
    <2>3. CASE LookUpUser(t)
      BY <2>3, <1>5 DEF LookUpUser, TypeOK, ThreadState
    <2>4. CASE GetTarget(t)
      <3>1. PICK m, pc : thread' = [thread EXCEPT ![t].target = m, ![t].pc = pc]
        BY <2>4, <1>5, ZenonT(40) DEF GetTarget
      <3>2. QED
        BY <2>4, <3>1 DEF GetTarget, TypeOK, ThreadState
    <2>5. CASE CountOwners(t)
      BY <2>5, <1>5 DEF CountOwners, TypeOK, ThreadState
    <2>6. CASE OtherOwners(t)
      <3>1. \/ thread' = [thread EXCEPT ![t].pc = "delete_user"]
            \/ \E o : thread' = [thread EXCEPT ![t].todo = @ \ {o}, ![t].shared = @ \cup {o}]
            \/ \E o : thread' = [thread EXCEPT ![t].org = o, ![t].pc = "other_members"]
        BY <2>6 DEF OtherOwners, Goto
      <3>2. QED
        <4>1. \A s \in Threads \ {t} : thread'[s] = thread[s]
          BY <3>1 DEF TypeOK
        <4>2. thread'[t].user = thread[t].user
          BY <3>1 DEF TypeOK, ThreadState
        <4>3. thread[t].pc # "idle"
          BY <2>6 DEF OtherOwners
        <4>4. QED
          BY <4>1, <4>2, <4>3
    <2>7. CASE OtherMembers(t)
      BY <2>7, <1>5 DEF OtherMembers, TypeOK, ThreadState
    <2>8. CASE CreateOwner(t) \/ Invite(t) \/ WriteRole(t) \/ DeleteMember(t) \/ DeleteUser(t)
               \/ Crash(t)
      BY <2>8, <1>5 DEF CreateOwner, Invite, WriteRole, DeleteMember, ChangeTarget, DeleteUser,
                        Crash
    <2>9. QED
      BY <2>1, <2>2, <2>3, <2>4, <2>5, <2>6, <2>7, <2>8, <1>5 DEF Step
  <1>6. QED
    BY <1>1, <1>2, <1>3, <1>4, <1>5 DEF UsersKnown

LEMMA TypeInvariantInductive == TypeInvariant /\ [Next]_vars => TypeInvariant'
  <1> SUFFICES ASSUME TypeOK, UsersKnown, [Next]_vars PROVE TypeOK' /\ UsersKnown'
    BY DEF TypeInvariant
  <1>1. CASE UNCHANGED vars
    BY <1>1 DEF vars, TypeOK, UsersKnown
  <1>2. CASE GrantOwnership
    BY <1>2, GrantKeepsTypes DEF GrantOwnership, UsersKnown
  <1>3. ASSUME NEW t \in Threads, Step(t) PROVE TypeOK' /\ UsersKnown'
    BY <1>3, BeginningsKeepTypes, ReadsKeepTypes, WritesKeepTypes, UserStays DEF Step
  <1>4. QED
    BY <1>1, <1>2, <1>3 DEF Next

LEMMA TypeInvariantInitially == Init => TypeInvariant
  <1> SUFFICES ASSUME Init PROVE TypeOK /\ UsersKnown
    BY DEF TypeInvariant
  <1>1. TypeOK
    BY InitialThread DEF Init, TypeOK
  <1>2. \A t \in Threads : thread[t].pc = "idle"
    BY DEF Init, Idle
  <1>3. QED
    BY <1>1, <1>2 DEF UsersKnown

LEMMA TypeInvariantAlways == Spec => []TypeInvariant
  BY TypeInvariantInitially, TypeInvariantInductive, PTL DEF Spec

(***************************************************************************)
(* Memberships, organizations and requests keep their types: every role    *)
(* that is stored is one the checks of organizations/views.py know.        *)
(***************************************************************************)
THEOREM MembershipTypeCorrect == Spec => []TypeOK
  <1>1. TypeInvariant => TypeOK
    BY DEF TypeInvariant
  <1>2. QED
    BY <1>1, TypeInvariantAlways, PTL
-----------------------------------------------------------------------------
\* Every row was there before, under the same organization, or has a fresh key.
RowsKept ==
  \A w \in members' : \/ \E v \in members : v.id = w.id /\ v.org = w.org
                      \/ w.id >= serial.member

\* What a thread knows of the row it is about to write stays true.
LEMMA TargetStays ==
  ASSUME TypeOK, NEW s \in Threads, TargetCounted(s), thread'[s] = thread[s], RowsKept,
         serial'.member \in Nat, serial'.member >= serial.member
  PROVE  TargetCounted(s)'
  <1> DEFINE r == thread[s]
  <1> SUFFICES ASSUME r.pc \in {"count", "write"}
               PROVE  /\ r.target.id < serial'.member
                      /\ \A w \in members' : w.id = r.target.id => w.org = r.target.org
                      /\ r.pc = "write" /\ r.target.role = "owner" => ~IsSingleton(r.counted)
    BY DEF TargetCounted, IsSingleton
  <1>1. r.target.id \in Nat /\ serial.member \in Nat
    BY FieldTypes DEF Member, NoMember
  <1>2. /\ r.target.id < serial.member
        /\ \A w \in members : w.id = r.target.id => w.org = r.target.org
        /\ r.pc = "write" /\ r.target.role = "owner" => ~IsSingleton(r.counted)
    BY DEF TargetCounted
  <1>3. r.target.id < serial'.member
    BY <1>1, <1>2
  <1>4. \A w \in members' : w.id = r.target.id => w.org = r.target.org
    BY <1>1, <1>2 DEF RowsKept
  <1>5. QED
    BY <1>2, <1>3, <1>4

\* An inserted membership has a key of its own.
LEMMA InsertUnique ==
  ASSUME TypeOK, IdsUnique, NEW u \in Users, NEW o \in Nat, NEW role \in Roles,
         InsertMembership(u, o, role)
  PROVE  IdsUnique' /\ RowsKept /\ serial'.member \in Nat /\ serial'.member >= serial.member
  <1> DEFINE new == [id |-> serial.member, org |-> o, user |-> u, role |-> role]
  <1>1. members' = members \cup {new} /\ serial'.member = serial.member + 1
    BY DEF InsertMembership, TypeOK
  <1>2. new.id = serial.member /\ \A m \in members : m.id < serial.member /\ m.id \in Nat
    BY FieldTypes DEF IdsUnique
  <1>3. serial.member \in Nat
    BY FieldTypes
  <1>4. \A m \in members' : m.id < serial'.member
    BY <1>1, <1>2, <1>3
  <1>5. \A m, w \in members' : m.id = w.id => m = w
    BY <1>1, <1>2, <1>3 DEF IdsUnique
  <1>6. QED
    BY <1>1, <1>2, <1>3, <1>4, <1>5 DEF IdsUnique, RowsKept

\* What is written over the target is that row with another role, or nothing.
Overwrites(t, after) ==
  /\ \A a \in after : \E w \in members : w.id = thread[t].target.id /\ a.id = w.id /\ a.org = w.org
  /\ \A a, b \in after : a = b

LEMMA ChangeUnique ==
  ASSUME TypeOK, IdsUnique, NEW t \in Threads, NEW after \in SUBSET Member,
         ChangeTarget(t, after), Overwrites(t, after)
  PROVE  IdsUnique' /\ RowsKept /\ UNCHANGED serial
  <1>1. members' = {w \in members : w.id # thread[t].target.id} \cup after /\ serial' = serial
    BY DEF ChangeTarget
  <1>2. \A w \in members' : \E v \in members : v.id = w.id /\ v.org = w.org
    BY <1>1 DEF Overwrites
  <1>3. \A w \in members' : w.id < serial'.member
    BY <1>1, <1>2 DEF IdsUnique
  <1>4. \A a \in after : a.id = thread[t].target.id
    BY DEF Overwrites
  <1>5. \A m, w \in members' : m.id = w.id => m = w
    BY <1>1, <1>4 DEF IdsUnique, Overwrites
  <1>6. QED
    BY <1>1, <1>2, <1>3, <1>5 DEF IdsUnique, RowsKept

(***************************************************************************)
(* The heart of it: a write that relies on readings that still hold leaves *)
(* an owner.  If the target is an owner, the owners are those counted, who *)
(* are not one; if it is not, every owner stays.                           *)
(***************************************************************************)
LEMMA ChangeKeepsOwner ==
  ASSUME TypeOK, IdsUnique, OwnerKept, NEW t \in Threads, TargetCounted(t),
         NEW after \in SUBSET Member, ChangeTarget(t, after), Overwrites(t, after)
  PROVE  OwnerKept'
  <1> DEFINE m == thread[t].target
  <1>1. /\ thread[t].pc = "write"
        /\ members' = {w \in members : w.id # m.id} \cup after
        /\ stale' = IF Outdated(t) THEN stale \cup {m.org} ELSE stale
    BY DEF ChangeTarget
  <1> SUFFICES ASSUME NEW x \in members'
               PROVE  (\E w \in members' : w.org = x.org /\ w.role = "owner") \/ x.org \in stale'
    BY DEF OwnerKept, OwnersOf, MembersOf
  <1>2. \E y \in members : y.org = x.org
    BY <1>1 DEF Overwrites
  <1>3. (\E o \in members : o.org = x.org /\ o.role = "owner") \/ x.org \in stale
    BY <1>2 DEF OwnerKept, OwnersOf, MembersOf
  <1>4. CASE x.org \in stale
    BY <1>1, <1>4
  <1>5. ASSUME NEW o \in members, o.org = x.org, o.role = "owner", o.id # m.id
        PROVE  \E w \in members' : w.org = x.org /\ w.role = "owner"
    BY <1>1, <1>5
  <1>6. CASE x.org # m.org
    <2>1. \A w \in members : w.id = m.id => w.org = m.org
      BY <1>1 DEF TargetCounted
    <2>2. QED
      BY <1>3, <1>4, <1>5, <1>6, <2>1
  <1>7. CASE x.org = m.org /\ Outdated(t)
    BY <1>1, <1>7
  <1>8. CASE x.org = m.org /\ ~Outdated(t) /\ m.role = "owner"
    <2>1. OwnersOf(m.org) = thread[t].counted /\ ~IsSingleton(OwnersOf(m.org))
      BY <1>1, <1>8 DEF Outdated, TargetCounted
    <2>2. ASSUME NEW o \in members, o.org = m.org, o.role = "owner"
          PROVE  \E w \in members' : w.org = x.org /\ w.role = "owner"
      <3>1. o \in OwnersOf(m.org) /\ OwnersOf(m.org) # {o}
        BY <2>1, <2>2 DEF OwnersOf, MembersOf, IsSingleton
      <3>2. PICK p \in OwnersOf(m.org) : p # o
        BY <3>1
      <3>3. p \in members /\ p.org = m.org /\ p.role = "owner" /\ p.id # o.id
        BY <3>2 DEF OwnersOf, MembersOf, IdsUnique
      <3>4. QED
        BY <1>5, <1>8, <2>2, <3>3
    <2>3. QED
      BY <1>3, <1>4, <1>8, <2>2
  <1>9. CASE x.org = m.org /\ ~Outdated(t) /\ m.role # "owner"
    <2>1. \A w \in members : w.org = m.org /\ w.role = "owner" => w.id # m.id
      BY <1>9 DEF Outdated, OwnersOf, MembersOf
    <2>2. QED
      BY <1>3, <1>4, <1>5, <1>9, <2>1
  <1>10. QED
    BY <1>6, <1>7, <1>8, <1>9

\* The two changes of a membership write over it as Overwrites says.
LEMMA ChangesOverwrite ==
  ASSUME TypeOK, IdsUnique, NEW t \in Threads, WriteRole(t) \/ DeleteMember(t)
  PROVE  \E after \in SUBSET Member : ChangeTarget(t, after) /\ Overwrites(t, after)
  <1>1. CASE WriteRole(t)
    <2> DEFINE rows == {w \in members : w.id = thread[t].target.id}
               after(role) == {[w EXCEPT !.role = role] : w \in rows}
    <2>1. PICK role \in Assignable : ChangeTarget(t, after(role))
      BY <1>1 DEF WriteRole
    <2>2. \A w \in rows : [w EXCEPT !.role = role] \in Member
                          /\ [w EXCEPT !.role = role].id = w.id
                          /\ [w EXCEPT !.role = role].org = w.org
      BY DEF TypeOK, Member, Assignable, Roles
    <2>3. \A v, w \in rows : v = w
      BY DEF IdsUnique
    <2>4. after(role) \in SUBSET Member
      BY <2>2
    <2>5. Overwrites(t, after(role))
      <3>1. ASSUME NEW a \in after(role)
            PROVE  \E w \in members : w.id = thread[t].target.id /\ a.id = w.id /\ a.org = w.org
        <4>1. PICK w \in rows : a = [w EXCEPT !.role = role]
          OBVIOUS
        <4>2. QED
          BY <2>2, <4>1
      <3>2. ASSUME NEW a \in after(role), NEW b \in after(role) PROVE a = b
        BY <2>3
      <3> HIDE DEF after
      <3>3. QED
        BY <3>1, <3>2 DEF Overwrites
    <2> HIDE DEF after
    <2>6. QED
      BY <2>1, <2>4, <2>5
  <1>2. CASE DeleteMember(t)
    BY <1>2 DEF DeleteMember, Overwrites
  <1>3. QED
    BY <1>1, <1>2

\* A membership inserted in an organization that has an owner, or gives it one.
LEMMA InsertKeepsOwner ==
  ASSUME TypeOK, OwnerKept, NEW u \in Users, NEW o \in Nat, NEW role \in Roles,
         InsertMembership(u, o, role), stale \subseteq stale',
         role = "owner" \/ o \in stale' \/ \E m \in members : m.org = o
  PROVE  OwnerKept'
  <1> DEFINE new == [id |-> serial.member, org |-> o, user |-> u, role |-> role]
  <1>1. members' = members \cup {new}
    BY DEF InsertMembership
  <1> SUFFICES ASSUME NEW x \in members'
               PROVE  (\E w \in members' : w.org = x.org /\ w.role = "owner") \/ x.org \in stale'
    BY DEF OwnerKept, OwnersOf, MembersOf
  <1>2. \A y \in members :
           (\E w \in members : w.org = y.org /\ w.role = "owner") \/ y.org \in stale
    BY DEF OwnerKept, OwnersOf, MembersOf
  <1>3. CASE x \in members
    BY <1>1, <1>2, <1>3
  <1>4. CASE x = new
    BY <1>1, <1>2, <1>4
  <1>5. QED
    BY <1>1, <1>3, <1>4

\* An account deleted after its checks: the other members of an organization
\* it owned still have another owner, or there are none.
LEMMA DeleteUserKeepsOwner ==
  ASSUME OwnerKept, NEW t \in Threads, DeleteUser(t)
  PROVE  OwnerKept'
  <1> DEFINE u == thread[t].user
  <1>1. /\ members' = {m \in members : m.user # u}
        /\ stale' = stale \cup {o \in OwnedBy(u) : ~StillShared(t, o) /\ ~StillAlone(t, o)}
    BY DEF DeleteUser
  <1> SUFFICES ASSUME NEW x \in members'
               PROVE  (\E w \in members' : w.org = x.org /\ w.role = "owner") \/ x.org \in stale'
    BY DEF OwnerKept, OwnersOf, MembersOf
  <1>2. CASE x.org \in stale
    BY <1>1, <1>2
  <1>3. ASSUME NEW o \in members, o.org = x.org, o.role = "owner"
        PROVE  (\E w \in members' : w.org = x.org /\ w.role = "owner") \/ x.org \in stale'
    <2>1. CASE o.user # u
      BY <1>1, <1>3, <2>1
    <2>2. CASE o.user = u
      <3>1. x.org \in OwnedBy(u)
        BY <1>3, <2>2 DEF OwnedBy
      <3>2. CASE StillShared(t, x.org)
        BY <1>1, <3>2 DEF StillShared, OwnersOf, MembersOf
      <3>3. ~StillAlone(t, x.org)
        BY <1>1 DEF StillAlone, MembersOf
      <3>4. QED
        BY <1>1, <3>1, <3>2, <3>3
    <2>3. QED
      BY <2>1, <2>2
  <1>4. QED
    BY <1>1, <1>2, <1>3 DEF OwnerKept, OwnersOf, MembersOf
-----------------------------------------------------------------------------
\* What the invariant says of the rows alone.
RowsInvariant == IdsUnique /\ OwnerKept

\* Each statement keeps it, and the rows' keys.
LEMMA RowsInductive ==
  ASSUME TypeInvariant, OwnerInvariant, NEW t \in Threads, Step(t)
  PROVE  RowsInvariant' /\ RowsKept /\ serial'.member \in Nat /\ serial'.member >= serial.member
  <1> USE FieldTypes
  <1>1. TypeOK /\ UsersKnown /\ IdsUnique /\ OwnerKept /\ TargetCounted(t)
    BY DEF TypeInvariant, OwnerInvariant
  <1>2. CASE members' = members /\ serial'.member = serial.member /\ stale \subseteq stale'
    BY <1>1, <1>2 DEF RowsInvariant, IdsUnique, OwnerKept, OwnersOf, MembersOf, RowsKept
  <1>3. CASE \/ Visit(t) \/ UniqueSlug(t) \/ RequireRole(t) \/ LookUpUser(t) \/ GetTarget(t)
             \/ CountOwners(t) \/ ListOwned(t) \/ OtherOwners(t) \/ OtherMembers(t) \/ Crash(t)
    <2>1. UNCHANGED <<members, serial, stale>>
      BY <1>3 DEF Visit, UniqueSlug, RequireRole, LookUpUser, GetTarget, CountOwners, ListOwned,
                  OtherOwners, OtherMembers, Crash
    <2>2. QED
      BY <1>2, <2>1
  <1>4. CASE CreateOrg(t)
    <2>1. UNCHANGED <<members, stale>> /\ serial'.member = serial.member
      BY <1>1, <1>4 DEF CreateOrg, TypeOK
    <2>2. QED
      BY <1>2, <2>1
  <1>5. CASE CreateOwner(t)
    <2>1. CASE UNCHANGED <<members, serial>>
      BY <1>2, <1>5, <2>1 DEF CreateOwner
    <2>2. CASE thread[t].user \in users /\ InsertMembership(thread[t].user, thread[t].org, "owner")
      <3>1. thread[t].user \in Users /\ "owner" \in Roles /\ stale' = stale
        BY <1>1, <1>5, <2>2 DEF TypeOK, Roles, CreateOwner
      <3>2. QED
        BY <1>1, <2>2, <3>1, InsertUnique, InsertKeepsOwner DEF RowsInvariant
    <2>3. QED
      BY <1>5, <2>1, <2>2 DEF CreateOwner
  <1>6. CASE Invite(t)
    <2>1. CASE UNCHANGED <<members, serial, stale>>
      BY <1>2, <2>1
    <2>2. ASSUME NEW role \in Assignable, thread[t].invited \in users,
                 InsertMembership(thread[t].invited, thread[t].org, role),
                 stale' = IF RoleLost(t) THEN stale \cup {thread[t].org} ELSE stale
          PROVE  RowsInvariant' /\ RowsKept /\ serial'.member \in Nat
                 /\ serial'.member >= serial.member
      <3>1. thread[t].invited \in Users /\ role \in Roles /\ stale \subseteq stale'
        BY <1>1, <2>2 DEF TypeOK, Assignable, Roles
      <3>2. thread[t].org \in stale' \/ \E m \in members : m.org = thread[t].org
        BY <2>2 DEF RoleLost, MembershipOf, MembersOf
      <3>3. QED
        BY <1>1, <2>2, <3>1, <3>2, InsertUnique, InsertKeepsOwner DEF RowsInvariant
    <2>3. QED
      BY <1>6, <2>1, <2>2 DEF Invite
  <1>7. CASE WriteRole(t) \/ DeleteMember(t)
    <2>1. PICK after \in SUBSET Member : ChangeTarget(t, after) /\ Overwrites(t, after)
      BY <1>1, <1>7, ChangesOverwrite
    <2>2. QED
      BY <1>1, <2>1, ChangeUnique, ChangeKeepsOwner DEF RowsInvariant
  <1>8. CASE DeleteUser(t)
    <2>1. members' \subseteq members /\ serial' = serial
      BY <1>8 DEF DeleteUser
    <2>2. QED
      BY <1>1, <1>8, <2>1, DeleteUserKeepsOwner DEF RowsInvariant, IdsUnique, RowsKept
  <1>9. QED
    BY <1>3, <1>4, <1>5, <1>6, <1>7, <1>8 DEF Step

\* A request that finds its target has found a row of its organization, and
\* goes on to write an owner's only when the owners counted are not one.
LEMMA OwnTargetCounted ==
  ASSUME TypeInvariant, OwnerInvariant, NEW t \in Threads, Step(t)
  PROVE  TargetCounted(t)'
  <1> USE FieldTypes
  <1>1. TypeOK /\ IdsUnique /\ TargetCounted(t)
    BY DEF TypeInvariant, OwnerInvariant
  <1>2. CASE thread'[t].pc \notin {"count", "write"}
    BY <1>2 DEF TargetCounted
  <1>3. CASE Finish(t)
    BY <1>1, <1>2, <1>3 DEF Finish, Idle, TypeOK
  <1>4. CASE ~Finish(t) /\ GetTarget(t)
    <2>1. PICK m \in members, pc \in {"count", "write"} :
             /\ thread' = [thread EXCEPT ![t].target = m, ![t].pc = pc]
             /\ m.role = "owner" => pc = "count"
      BY <1>4 DEF GetTarget, MembersOf
    <2>2. thread'[t].target = m /\ thread'[t].pc = pc
      BY <1>1, <2>1 DEF TypeOK, ThreadState
    <2>3. serial' = serial /\ members' = members
      BY <1>4 DEF GetTarget
    <2>4. QED
      BY <1>1, <2>1, <2>2, <2>3 DEF TargetCounted, IdsUnique
  <1>5. CASE ~Finish(t) /\ CountOwners(t)
    <2> DEFINE owners == OwnersOf(thread[t].org)
    <2>1. /\ thread' = [thread EXCEPT ![t].counted = owners, ![t].pc = "write"]
          /\ ~IsSingleton(owners) /\ thread[t].pc = "count"
      BY <1>5 DEF CountOwners
    <2>2. thread'[t].target = thread[t].target /\ thread'[t].counted = owners
      BY <1>1, <2>1 DEF TypeOK, ThreadState
    <2>3. serial' = serial /\ members' = members
      BY <1>5 DEF CountOwners
    <2> HIDE DEF owners
    <2>4. QED
      BY <1>1, <2>1, <2>2, <2>3 DEF TargetCounted, IsSingleton
  <1>6. CASE ~Finish(t) /\ ~GetTarget(t) /\ ~CountOwners(t)
    <2>1. CASE Visit(t)
      BY <1>1, <1>2, <2>1 DEF Visit, Idle, TypeOK
    <2>2. CASE UniqueSlug(t)
      BY <1>1, <1>2, <2>2 DEF UniqueSlug, TypeOK, ThreadState
    <2>3. CASE CreateOrg(t)
      BY <1>1, <1>2, <1>6, <2>3 DEF CreateOrg, TypeOK, ThreadState
    <2>4. CASE RequireRole(t)
      <3>1. PICK op \in {"invite", "change"}, m \in members :
               thread' = [thread EXCEPT ![t] =
                            [Idle EXCEPT !.op = op, !.pc = NextStep(op), !.user = m.user,
                                         !.org = m.org, !.actor = m.role]]
        BY <2>4 DEF RequireRole
      <3>2. thread'[t].pc = NextStep(op)
        BY <1>1, <3>1 DEF TypeOK, Idle
      <3>3. QED
        BY <1>2, <3>2 DEF NextStep
    <2>5. CASE LookUpUser(t)
      BY <1>1, <1>2, <1>6, <2>5 DEF LookUpUser, TypeOK, ThreadState
    <2>6. CASE ListOwned(t)
      BY <1>1, <1>2, <2>6 DEF ListOwned, Idle, TypeOK
    <2>7. CASE OtherOwners(t)
      <3>1. thread'[t].pc \in {"delete_user", "other_owners", "other_members"}
        <4>1. \/ thread' = [thread EXCEPT ![t].pc = "delete_user"]
              \/ \E o : thread' = [thread EXCEPT ![t].todo = @ \ {o}, ![t].shared = @ \cup {o}]
              \/ \E o : thread' = [thread EXCEPT ![t].org = o, ![t].pc = "other_members"]
          BY <2>7 DEF OtherOwners, Goto
        <4>2. thread[t].pc = "other_owners"
          BY <2>7 DEF OtherOwners
        <4>3. QED
          BY <1>1, <4>1, <4>2, ZenonT(40) DEF TypeOK, ThreadState
      <3>2. QED
        BY <1>2, <3>1
    <2>8. CASE OtherMembers(t)
      BY <1>1, <1>2, <1>6, <2>8 DEF OtherMembers, TypeOK, ThreadState
    <2>9. CASE CreateOwner(t) \/ Invite(t) \/ WriteRole(t) \/ DeleteMember(t) \/ DeleteUser(t)
               \/ Crash(t)
      BY <1>6, <2>9 DEF CreateOwner, Invite, WriteRole, DeleteMember, ChangeTarget, DeleteUser,
                        Crash
    <2>10. QED
      BY <1>6, <2>1, <2>2, <2>3, <2>4, <2>5, <2>6, <2>7, <2>8, <2>9 DEF Step
  <1>7. QED
    BY <1>3, <1>4, <1>5, <1>6

\* A request touches its own thread only.
LEMMA OtherThreads ==
  ASSUME TypeOK, NEW t \in Threads, Step(t), NEW s \in Threads, s # t
  PROVE  thread'[s] = thread[s]
  <1>1. CASE Finish(t)
    BY <1>1 DEF Finish, TypeOK
  <1>2. CASE ~Finish(t) /\ ~GetTarget(t) /\ ~OtherOwners(t)
    BY <1>2 DEF Step, Visit, UniqueSlug, CreateOrg, CreateOwner, RequireRole, LookUpUser, Invite,
                CountOwners, WriteRole, DeleteMember, ChangeTarget, ListOwned, OtherMembers,
                DeleteUser, Crash, TypeOK
  <1>3. CASE ~Finish(t) /\ GetTarget(t)
    BY <1>3 DEF GetTarget, TypeOK
  <1>4. CASE OtherOwners(t)
    BY <1>4 DEF OtherOwners, Goto, TypeOK
  <1>5. QED
    BY <1>1, <1>2, <1>3, <1>4

\* An operator who makes a member an owner leaves the organization with one.
LEMMA GrantKeepsInvariant ==
  ASSUME TypeOK, OwnerInvariant, GrantOwnership
  PROVE  OwnerInvariant'
  <1>1. PICK m \in members : /\ m.role # "owner"
                             /\ members' = (members \ {m}) \cup {[m EXCEPT !.role = "owner"]}
                             /\ stale' = stale \ {m.org}
    BY DEF GrantOwnership
  <1> DEFINE w == [m EXCEPT !.role = "owner"]
  <1>2. w.id = m.id /\ w.org = m.org /\ w.role = "owner"
    BY DEF TypeOK, Member
  <1>3. members' = (members \ {m}) \cup {w} /\ serial' = serial /\ thread' = thread
    BY <1>1 DEF GrantOwnership
  <1> HIDE DEF w
  <1>4. IdsUnique'
    BY <1>2, <1>3 DEF OwnerInvariant, IdsUnique
  <1>5. ASSUME NEW x \in members'
        PROVE  (\E v \in members' : v.org = x.org /\ v.role = "owner") \/ x.org \in stale'
    <2>1. CASE x.org = m.org
      BY <1>2, <1>3, <2>1
    <2>2. CASE x.org # m.org
      <3>1. x \in members
        BY <1>2, <1>3, <2>2
      <3>2. (\E v \in members : v.org = x.org /\ v.role = "owner") \/ x.org \in stale
        BY <3>1 DEF OwnerInvariant, OwnerKept, OwnersOf, MembersOf
      <3>3. QED
        BY <1>1, <1>3, <2>2, <3>2
    <2>3. QED
      BY <2>1, <2>2
  <1>6. OwnerKept'
    BY <1>5 DEF OwnerKept, OwnersOf, MembersOf
  <1>7. ASSUME NEW s \in Threads PROVE TargetCounted(s)'
    BY <1>2, <1>3 DEF OwnerInvariant, TargetCounted, IsSingleton
  <1>8. QED
    BY <1>4, <1>6, <1>7 DEF OwnerInvariant
-----------------------------------------------------------------------------
LEMMA OwnersCountedInductive ==
  TypeInvariant /\ OwnerInvariant /\ [Next]_vars => OwnerInvariant'
  <1> SUFFICES ASSUME TypeInvariant, OwnerInvariant, [Next]_vars PROVE OwnerInvariant'
    OBVIOUS
  <1>1. CASE UNCHANGED vars
    BY <1>1 DEF vars, OwnerInvariant, IdsUnique, OwnerKept, OwnersOf, MembersOf, TargetCounted,
                IsSingleton
  <1>2. CASE GrantOwnership
    BY <1>2, GrantKeepsInvariant DEF TypeInvariant
  <1>3. ASSUME NEW t \in Threads, Step(t) PROVE OwnerInvariant'
    <2>1. RowsInvariant' /\ RowsKept /\ serial'.member \in Nat /\ serial'.member >= serial.member
      BY <1>3, RowsInductive
    <2>2. ASSUME NEW s \in Threads, s # t PROVE TargetCounted(s)'
      BY <1>3, <2>1, <2>2, OtherThreads, TargetStays DEF TypeInvariant, OwnerInvariant
    <2>3. TargetCounted(t)'
      BY <1>3, OwnTargetCounted
    <2>4. QED
      BY <2>1, <2>2, <2>3 DEF RowsInvariant, OwnerInvariant
  <1>4. QED
    BY <1>1, <1>2, <1>3 DEF Next

(***************************************************************************)
(* An organization with members has an owner unless a request wrote on the *)
(* strength of a reading that no longer held: the two checks of            *)
(* member_role and member_remove, and the two of delete_account, are       *)
(* enough for requests that do not overlap.                                *)
(***************************************************************************)
THEOREM OwnerNeverLost == Spec => []OwnerKept
  <1>1. Init => OwnerInvariant
    BY DEF Init, Idle, OwnerInvariant, IdsUnique, OwnerKept, TargetCounted
  <1>2. TypeInvariant /\ OwnerInvariant /\ [Next]_vars => OwnerInvariant'
    BY OwnersCountedInductive
  <1>3. OwnerInvariant => OwnerKept
    BY DEF OwnerInvariant
  <1>4. QED
    BY <1>1, <1>2, <1>3, TypeInvariantAlways, PTL DEF Spec
-----------------------------------------------------------------------------
\* A request that has found its target found it in its own organization, and
\* goes on with an owner's membership for an owner only.
TargetChecked(t) ==
  LET r == thread[t]
  IN r.pc \in {"count", "write"} =>
       /\ r.target.org = r.org
       /\ r.target.role = "owner" => r.actor = "owner"

AllChecked == \A t \in Threads : TargetChecked(t)

\* Only finding the target begins this part of a request; counting continues it.
LEMMA PathToWrite ==
  ASSUME TypeOK, NEW t \in Threads, Step(t), ~GetTarget(t), ~CountOwners(t)
  PROVE  thread'[t].pc \notin {"count", "write"}
  <1> USE FieldTypes
  <1>1. CASE Finish(t)
    BY <1>1 DEF Finish, Idle, TypeOK
  <1>2. CASE Visit(t)
    BY <1>2 DEF Visit, Idle, TypeOK
  <1>3. CASE UniqueSlug(t)
    BY <1>3 DEF UniqueSlug, TypeOK, ThreadState
  <1>4. CASE ~Finish(t) /\ (CreateOrg(t) \/ LookUpUser(t) \/ OtherMembers(t))
    <2>1. CASE CreateOrg(t)
      BY <1>4, <2>1 DEF CreateOrg, TypeOK, ThreadState
    <2>2. CASE LookUpUser(t)
      BY <1>4, <2>2 DEF LookUpUser, TypeOK, ThreadState
    <2>3. CASE OtherMembers(t)
      BY <1>4, <2>3 DEF OtherMembers, TypeOK, ThreadState
    <2>4. QED
      BY <1>4, <2>1, <2>2, <2>3
  <1>5. CASE RequireRole(t)
    <2>1. PICK op \in {"invite", "change"}, m \in members :
             thread' = [thread EXCEPT ![t] =
                          [Idle EXCEPT !.op = op, !.pc = NextStep(op), !.user = m.user,
                                       !.org = m.org, !.actor = m.role]]
      BY <1>5 DEF RequireRole
    <2>2. thread'[t].pc = NextStep(op)
      BY <2>1 DEF TypeOK, Idle
    <2>3. QED
      BY <2>2 DEF NextStep
  <1>6. CASE ListOwned(t)
    BY <1>6 DEF ListOwned, Idle, TypeOK
  <1>7. CASE OtherOwners(t)
    <2>1. \/ thread' = [thread EXCEPT ![t].pc = "delete_user"]
          \/ \E o : thread' = [thread EXCEPT ![t].todo = @ \ {o}, ![t].shared = @ \cup {o}]
          \/ \E o : thread' = [thread EXCEPT ![t].org = o, ![t].pc = "other_members"]
      BY <1>7 DEF OtherOwners, Goto
    <2>2. thread[t].pc = "other_owners"
      BY <1>7 DEF OtherOwners
    <2>3. thread'[t].pc \in {"delete_user", "other_owners", "other_members"}
      BY <2>1, <2>2, ZenonT(40) DEF TypeOK, ThreadState
    <2>4. QED
      BY <2>3
  <1>8. CASE ~Finish(t) /\ (CreateOwner(t) \/ Invite(t) \/ WriteRole(t) \/ DeleteMember(t)
                            \/ DeleteUser(t) \/ Crash(t))
    BY <1>8 DEF CreateOwner, Invite, WriteRole, DeleteMember, ChangeTarget, DeleteUser, Crash
  <1>9. QED
    BY <1>1, <1>2, <1>3, <1>4, <1>5, <1>6, <1>7, <1>8 DEF Step

LEMMA OwnTargetChecked ==
  ASSUME TypeOK, NEW t \in Threads, TargetChecked(t), Step(t)
  PROVE  TargetChecked(t)'
  <1> USE FieldTypes
  <1>1. CASE thread'[t].pc \notin {"count", "write"}
    BY <1>1 DEF TargetChecked
  <1>2. CASE Finish(t)
    BY <1>1, <1>2 DEF Finish, Idle, TypeOK
  <1>3. CASE ~Finish(t) /\ GetTarget(t)
    <2>1. PICK m \in members, pc \in {"count", "write"} :
             /\ thread' = [thread EXCEPT ![t].target = m, ![t].pc = pc]
             /\ m.org = thread[t].org
             /\ m.role = "owner" => thread[t].actor = "owner"
      BY <1>3 DEF GetTarget, MembersOf
    <2>2. /\ thread'[t].target = m
          /\ thread'[t].org = thread[t].org /\ thread'[t].actor = thread[t].actor
      BY <2>1 DEF TypeOK, ThreadState
    <2>3. QED
      BY <2>1, <2>2 DEF TargetChecked
  <1>4. CASE ~Finish(t) /\ CountOwners(t)
    <2>1. PICK owners : thread' = [thread EXCEPT ![t].counted = owners, ![t].pc = "write"]
      BY <1>4 DEF CountOwners
    <2>2. /\ thread'[t].target = thread[t].target
          /\ thread'[t].org = thread[t].org /\ thread'[t].actor = thread[t].actor
      BY <2>1 DEF TypeOK, ThreadState
    <2>3. thread[t].pc = "count"
      BY <1>4 DEF CountOwners
    <2>4. QED
      BY <2>2, <2>3 DEF TargetChecked
  <1>5. QED
    BY <1>1, <1>2, <1>3, <1>4, PathToWrite

LEMMA ChecksInductive == TypeInvariant /\ AllChecked /\ [Next]_vars => AllChecked'
  <1> SUFFICES ASSUME TypeOK, AllChecked, [Next]_vars, NEW s \in Threads
               PROVE  TargetChecked(s)'
    BY DEF TypeInvariant, AllChecked
  <1>1. TargetChecked(s)
    BY DEF AllChecked
  <1>2. CASE thread'[s] = thread[s]
    BY <1>1, <1>2 DEF TargetChecked
  <1>3. CASE UNCHANGED vars \/ GrantOwnership
    BY <1>2, <1>3 DEF vars, GrantOwnership
  <1>4. ASSUME NEW t \in Threads, Step(t) PROVE TargetChecked(s)'
    BY <1>1, <1>2, <1>4, OtherThreads, OwnTargetChecked
  <1>5. QED
    BY <1>3, <1>4 DEF Next

\* A membership that one step changes or takes away, and on whose word.
Authorized(m) ==
  \/ m.user \notin users'
  \/ [m EXCEPT !.role = "owner"] \in members'
  \/ \E t \in Threads : Writes(t, m)
        /\ (m.role = "owner" => thread[t].actor = "owner" \/ m.org \in stale')

\* A write that finds its target an owner's, although it was not when it was
\* read, is outdated.
LEMMA TargetAuthorized ==
  ASSUME TypeInvariant, OwnerInvariant, AllChecked, NEW t \in Threads,
         NEW after \in SUBSET Member, ChangeTarget(t, after), NEW m \in members \ members'
  PROVE  Authorized(m)
  <1> DEFINE target == thread[t].target
  <1>1. /\ thread[t].pc = "write" /\ thread'[t] = Idle
        /\ stale' = IF Outdated(t) THEN stale \cup {target.org} ELSE stale
    BY DEF ChangeTarget, Finish, TypeInvariant, TypeOK
  <1>2. m.id = target.id
    BY DEF ChangeTarget
  <1>3. m.org = target.org /\ target.org = thread[t].org
    BY <1>1, <1>2 DEF OwnerInvariant, TargetCounted, AllChecked, TargetChecked
  <1>4. m.role = "owner" => thread[t].actor = "owner" \/ m.org \in stale'
    <2>1. CASE target.role = "owner"
      BY <1>1, <2>1 DEF AllChecked, TargetChecked
    <2>2. CASE target.role # "owner" /\ m.role = "owner"
      <3>1. Outdated(t)
        BY <1>2, <1>3, <2>2 DEF Outdated, OwnersOf, MembersOf
      <3>2. QED
        BY <1>1, <1>3, <3>1
    <2>3. QED
      BY <2>1, <2>2
  <1>5. QED
    BY <1>1, <1>3, <1>4 DEF Authorized, Writes

LEMMA StepsAuthorized ==
  ASSUME TypeInvariant, OwnerInvariant, AllChecked, [Next]_vars, NEW m \in members \ members'
  PROVE  Authorized(m)
  <1> USE FieldTypes DEF TypeInvariant
  <1>1. CASE UNCHANGED vars
    BY <1>1 DEF vars
  <1>2. CASE GrantOwnership
    BY <1>2 DEF GrantOwnership, Authorized
  <1>3. ASSUME NEW t \in Threads, Step(t) PROVE Authorized(m)
    <2>1. CASE UNCHANGED members
      BY <2>1
    <2>2. CASE \/ Visit(t) \/ UniqueSlug(t) \/ CreateOrg(t) \/ RequireRole(t) \/ LookUpUser(t)
               \/ GetTarget(t) \/ CountOwners(t) \/ ListOwned(t) \/ OtherOwners(t)
               \/ OtherMembers(t) \/ Crash(t)
      BY <2>1, <2>2 DEF Visit, UniqueSlug, CreateOrg, RequireRole, LookUpUser, GetTarget,
                        CountOwners, ListOwned, OtherOwners, OtherMembers, Crash
    <2>3. CASE CreateOwner(t) \/ Invite(t)
      BY <2>3 DEF CreateOwner, Invite, InsertMembership
    <2>4. CASE WriteRole(t) \/ DeleteMember(t)
      <3>1. PICK after \in SUBSET Member : ChangeTarget(t, after)
        BY <2>4, ChangesOverwrite DEF OwnerInvariant
      <3>2. QED
        BY <3>1, TargetAuthorized DEF TypeInvariant
    <2>5. CASE DeleteUser(t)
      <3>1. m.user \notin users'
        BY <2>5 DEF DeleteUser
      <3>2. QED
        BY <3>1 DEF Authorized
    <2>6. QED
      BY <1>3, <2>2, <2>3, <2>4, <2>5 DEF Step
  <1>4. QED
    BY <1>1, <1>2, <1>3 DEF Next

(***************************************************************************)
(* No request changes or removes a membership of another organization, and *)
(* none but an owner's an owner's, whatever other requests do between its  *)
(* check of the role and its write; a member made an owner in between is   *)
(* the one exception, and counted as such.                                 *)
(***************************************************************************)
THEOREM ChangesStayAuthorized == Spec => ChangesAuthorized
  <1>1. Init => OwnerInvariant /\ AllChecked
    BY DEF Init, Idle, OwnerInvariant, IdsUnique, OwnerKept, TargetCounted, AllChecked,
           TargetChecked
  <1>2. TypeInvariant /\ OwnerInvariant /\ [Next]_vars => OwnerInvariant'
    BY OwnersCountedInductive
  <1>3. TypeInvariant /\ AllChecked /\ [Next]_vars => AllChecked'
    BY ChecksInductive
  <1>4. TypeInvariant /\ OwnerInvariant /\ AllChecked /\ [Next]_vars =>
          [\A m \in members \ members' :
             \/ m.user \notin users'
             \/ [m EXCEPT !.role = "owner"] \in members'
             \/ \E t \in Threads : Writes(t, m)
                   /\ (m.role = "owner" => thread[t].actor = "owner" \/ m.org \in stale')]_vars
    BY StepsAuthorized DEF Authorized
  <1>5. QED
    BY <1>1, <1>2, <1>3, <1>4, TypeInvariantAlways, PTL DEF Spec, ChangesAuthorized
=============================================================================
