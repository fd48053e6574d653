----------------------------- MODULE AccountProof -----------------------------
(***************************************************************************)
(* Proofs about Account, for any number of browsers and threads, any       *)
(* spellings and any bounds.                                               *)
(***************************************************************************)
EXTENDS Account, FiniteSetTheorems, TLAPS

(***************************************************************************)
(* What types alone do not say: who made a request and which user it is    *)
(* about; that only users ever created have rows and sessions; and that a  *)
(* primary key and a password are left for each request that will take one.*)
(***************************************************************************)
AboutUser == {"save_terms", "token", "send_mail", "save_verified", "delete_token",
              "save_password", "respond"}

Known(t) ==
  /\ thread[t].pc = "create_user" => thread[t].op = "signup" /\ thread[t].row.name # 0
  /\ thread[t].pc \in {"save_terms", "token", "send_mail"} => thread[t].op = "signup"
  /\ thread[t].pc = "save_password" => thread[t].op = "settings"
  /\ thread[t].op = "signup" => thread[t].browser \in Browsers
  /\ thread[t].pc \in AboutUser =>
       /\ thread[t].user \in Users /\ thread[t].user < serial.user
       /\ thread[t].row.name # 0

RequestsKnown == \A t \in Threads : Known(t)

UsersIssued ==
  /\ \A u \in Users : Exists(u) => u < serial.user
  /\ \A b \in Browsers :
       session[b].step # "none" => session[b].user \in Users /\ session[b].user < serial.user

Creating == {t \in Threads : thread[t].pc = "create_user"}
Choosing == {t \in Threads : thread[t].pc \in {"create_user", "save_password"}}

RoomKept ==
  /\ serial.user + Cardinality(Creating) <= MaxUsers + 1
  /\ serial.password + Cardinality(Choosing) <= MaxPasswords + 1

TypeInvariant == TypeOK /\ RequestsKnown /\ UsersIssued /\ RoomKept

(***************************************************************************)
(* A copy that is going to be saved is the row, and nobody else holds one, *)
(* unless the user is in overlap.                                          *)
(***************************************************************************)
CopiesTrue ==
  \A t \in Threads, u \in Users :
    Holds(t, u) /\ u \notin ghost.overlap =>
      /\ thread[t].row = users[u]
      /\ \A v \in Threads : Holds(v, u) => v = t

RowInvariant == RowsAsWanted /\ CopiesTrue

\* A session's password is the one that was typed, or the user's own.
SessionsTrue ==
  \A b \in Browsers :
    \/ b \in ghost.carried \/ session[b].user \in ghost.overlap
    \/ /\ session[b].step = "signed" => session[b].password = session[b].proved
       /\ session[b].step = "pending" /\ Exists(session[b].user) =>
            session[b].proved = users[session[b].user].password

\* A signup about to create its user is the only one, and there is no user yet.
SignupsAlone ==
  \A t \in Creating :
    \/ ghost.rivals
    \/ /\ \A v \in Creating : v = t
       /\ \A u \in Users : Exists(u) => u \in ghost.overlap
-----------------------------------------------------------------------------
\* Counting: a set that gains one element at most, none, or loses one.
LEMMA Joins ==
  ASSUME NEW S, NEW T, NEW x, IsFiniteSet(S), T \subseteq S \cup {x}
  PROVE  Cardinality(T) \in Nat /\ Cardinality(T) <= Cardinality(S) + 1
  <1> Cardinality(S) \in Nat
    BY FS_CardinalityType
  <1>1. IsFiniteSet(S \cup {x}) /\ Cardinality(S \cup {x}) <= Cardinality(S) + 1
    BY FS_AddElement
  <1>2. IsFiniteSet(T) /\ Cardinality(T) <= Cardinality(S \cup {x})
    BY <1>1, FS_Subset
  <1>3. QED
    BY <1>1, <1>2, FS_CardinalityType

LEMMA Stays ==
  ASSUME NEW S, NEW T, IsFiniteSet(S), T \subseteq S
  PROVE  Cardinality(T) \in Nat /\ Cardinality(S) \in Nat /\ Cardinality(T) <= Cardinality(S)
  BY FS_Subset, FS_CardinalityType

LEMMA Leaves ==
  ASSUME NEW S, NEW T, NEW x \in S, IsFiniteSet(S), T \subseteq S \ {x}
  PROVE  Cardinality(T) \in Nat /\ Cardinality(S) \in Nat /\ Cardinality(T) + 1 <= Cardinality(S)
  <1>1. IsFiniteSet(S \ {x}) /\ Cardinality(S \ {x}) = Cardinality(S) - 1
    BY FS_RemoveElement
  <1>2. IsFiniteSet(T) /\ Cardinality(T) <= Cardinality(S \ {x})
    BY <1>1, FS_Subset
  <1>3. QED
    BY <1>1, <1>2, FS_CardinalityType

LEMMA ThreadsFinite ==
  /\ IsFiniteSet(Creating) /\ IsFiniteSet(Choosing)
  /\ Cardinality(Creating) \in Nat /\ Cardinality(Choosing) \in Nat
  /\ \A ops : IsFiniteSet({t \in Threads : thread[t].op \in ops})
  <1>1. /\ Creating \subseteq Threads /\ Choosing \subseteq Threads
        /\ \A ops : {t \in Threads : thread[t].op \in ops} \subseteq Threads
    BY DEF Creating, Choosing
  <1>2. \A S \in SUBSET Threads : IsFiniteSet(S)
    BY ThreadsAssumption, FS_Subset
  <1>3. QED
    BY <1>1, <1>2, FS_CardinalityType

\* A request may begin: a key or a password is left for it.
LEMMA RoomToBegin ==
  ASSUME TypeInvariant
  PROVE  /\ UserRoom => serial.user + Cardinality(Creating) <= MaxUsers
         /\ PasswordRoom => serial.password + Cardinality(Choosing) <= MaxPasswords
  <1>1. /\ Creating \subseteq {t \in Threads : thread[t].op \in {"signup"}}
        /\ Choosing \subseteq {t \in Threads : thread[t].op \in {"signup", "settings"}}
    BY DEF TypeInvariant, RequestsKnown, Known, Creating, Choosing
  <1>2. /\ Cardinality(Creating) <= Doing({"signup"})
        /\ Cardinality(Choosing) <= Doing({"signup", "settings"})
        /\ Doing({"signup"}) \in Nat /\ Doing({"signup", "settings"}) \in Nat
    BY <1>1, ThreadsFinite, Stays DEF Doing
  <1>3. serial.user \in Nat /\ serial.password \in Nat
    BY BoundsAssumption DEF TypeInvariant, TypeOK
  <1>4. QED
    BY <1>2, <1>3, ThreadsFinite, BoundsAssumption DEF UserRoom, PasswordRoom
-----------------------------------------------------------------------------
\* The records a thread, a row and a session start from have their types.
LEMMA InitialRecords ==
  Idle \in ThreadState /\ NoUser \in User /\ Anonymous \in Session
  BY DEF Idle, ThreadState, OpNames, Pcs, NoUser, User, Anonymous, Session

\* Fields read from well-typed records.
LEMMA FieldTypes ==
  ASSUME TypeOK
  PROVE  /\ serial.user \in 1..(MaxUsers + 1) /\ serial.password \in 1..(MaxPasswords + 1)
         /\ serial.switch \in 0..MaxSwitches
         /\ \A t \in Threads : /\ thread[t] \in ThreadState /\ thread[t].row \in User
                               /\ thread[t].user \in Users \cup {0}
                               /\ thread[t].browser \in Browsers \cup {NoBrowser}
                               /\ thread[t].row.password \in Passwords \cup {0}
         /\ \A u \in Users : users[u] \in User /\ users[u].password \in Passwords \cup {0}
         /\ \A b \in Browsers : /\ session[b] \in Session
                                /\ session[b].user \in Users \cup {0}
                                /\ session[b].password \in Passwords \cup {0}
                                /\ session[b].proved \in Passwords \cup {0}
  <1>1. /\ \A t \in Threads : thread[t] \in ThreadState
        /\ \A u \in Users : users[u] \in User
        /\ \A b \in Browsers : session[b] \in Session
    BY DEF TypeOK
  <1>2. QED
    BY <1>1 DEF TypeOK, ThreadState, User, Session

\* Ending a request and moving on keep the threads' types.
LEMMA ThreadMoves ==
  ASSUME TypeOK, NEW t \in Threads
  PROVE  /\ Finish(t) => thread' \in [Threads -> ThreadState]
         /\ \A pc \in Pcs : Goto(t, pc) => thread' \in [Threads -> ThreadState]
  <1>1. \A pc \in Pcs : [thread[t] EXCEPT !.pc = pc] \in ThreadState
    BY FieldTypes DEF ThreadState
  <1>2. QED
    BY <1>1, InitialRecords DEF TypeOK, Finish, Goto

\* The fields of the history have their types, and so has it when they are replaced.
LEMMA HistoryTypes ==
  ASSUME TypeOK
  PROVE  /\ ghost \in GhostState
         /\ ghost.wanted \in [Users -> User] /\ ghost.overlap \in SUBSET Users
         /\ ghost.rivals \in BOOLEAN /\ ghost.carried \in SUBSET Browsers
  BY DEF TypeOK, GhostState

\* Loading a row into a copy.
LEMMA LoadTypes ==
  ASSUME TypeOK, NEW t \in Threads, NEW op \in OpNames, NEW pc \in Pcs,
         NEW b \in Browsers \cup {NoBrowser}, NEW u \in Users, Load(t, op, pc, b, u)
  PROVE  thread' \in [Threads -> ThreadState] /\ ghost' \in GhostState
  <1>1. [Idle EXCEPT !.op = op, !.pc = pc, !.browser = b, !.user = u, !.row = users[u]]
          \in ThreadState
    BY FieldTypes, InitialRecords DEF ThreadState
  <1>2. Loaded(t, u) \in SUBSET Users
    BY HistoryTypes DEF Loaded
  <1>3. QED
    BY <1>1, <1>2, HistoryTypes DEF Load, TypeOK, GhostState

\* Saving one.
LEMMA SaveTypes ==
  ASSUME TypeOK, NEW t \in Threads, NEW row \in User, NEW next \in Pcs, NEW g \in GhostState,
         thread[t].user \in Users, SaveUser(t, row, next, g)
  PROVE  /\ users' \in [Users -> User] /\ thread' \in [Threads -> ThreadState]
         /\ ghost' \in GhostState
  <1>1. [thread[t] EXCEPT !.row = row, !.pc = next] \in ThreadState
    BY FieldTypes DEF ThreadState
  <1>2. CASE NameTaken(thread[t].user, row)
    BY <1>2, ThreadMoves, HistoryTypes DEF SaveUser, TypeOK
  <1>3. CASE ~NameTaken(thread[t].user, row)
    <2>1. /\ users' = [users EXCEPT ![thread[t].user] = row] /\ ghost' = g
          /\ thread' = [thread EXCEPT ![t].row = row, ![t].pc = next]
      BY <1>3 DEF SaveUser
    <2>2. QED
      BY <1>1, <2>1 DEF TypeOK
  <1>4. QED
    BY <1>2, <1>3
-----------------------------------------------------------------------------
\* A request that is going to take a primary key or a password finds one left.
LEMMA RoomToTake ==
  ASSUME TypeInvariant, NEW t \in Threads
  PROVE  /\ t \in Creating => serial.user \in Users
         /\ t \in Choosing => serial.password \in Passwords
  <1>1. \A S : IsFiniteSet(S) /\ t \in S => 1 <= Cardinality(S)
    BY FS_EmptySet, FS_CardinalityType
  <1>2. QED
    BY <1>1, ThreadsFinite, FieldTypes, BoundsAssumption
    DEF TypeInvariant, RoomKept, Users, Passwords

\* Steps of a signup.
LEMMA SignupKeepsTypes ==
  ASSUME TypeInvariant, NEW t \in Threads,
         StartSignup(t) \/ CreateUser(t) \/ SaveTerms(t) \/ StoreToken(t) \/ SendMail(t)
  PROVE  TypeOK'
  <1> TypeOK /\ RequestsKnown
    BY DEF TypeInvariant
  <1> USE FieldTypes
  <1>1. CASE StartSignup(t)
    <2>1. PICK b \in Browsers, name \in Spellings :
             /\ thread' = [thread EXCEPT ![t] = [Idle EXCEPT !.op = "signup", !.pc = "create_user",
                    !.browser = b, !.row = [NoUser EXCEPT !.name = name, !.is_active = TRUE]]]
             /\ ghost' = [ghost EXCEPT !.rivals =
                            @ \/ \E v \in Threads : thread[v].pc = "create_user"]
      BY <1>1 DEF StartSignup
    <2>2. [NoUser EXCEPT !.name = name, !.is_active = TRUE] \in User
      BY InitialRecords DEF User, NoUser
    <2>3. [Idle EXCEPT !.op = "signup", !.pc = "create_user", !.browser = b,
                       !.row = [NoUser EXCEPT !.name = name, !.is_active = TRUE]] \in ThreadState
      BY <2>2, InitialRecords DEF ThreadState, OpNames, Pcs
    <2>4. ghost' \in GhostState
      BY <2>1, HistoryTypes DEF GhostState
    <2>5. QED
      BY <1>1, <2>1, <2>3, <2>4 DEF StartSignup, TypeOK, Exists
  <1>2. CASE CreateUser(t)
    <2> DEFINE row == [thread[t].row EXCEPT !.password = serial.password]
    <2>1. t \in Creating /\ t \in Choosing
      BY <1>2 DEF CreateUser, Creating, Choosing
    <2>2. serial.user \in Users /\ serial.password \in Passwords
      BY <2>1, RoomToTake
    <2>3. row \in User /\ row.name # 0
      BY <2>2, <1>2 DEF User, RequestsKnown, Known, CreateUser
    <2>4. CASE \E u \in Users : users[u].name = row.name
      BY <1>2, <2>4, ThreadMoves DEF CreateUser, TypeOK, Exists
    <2>5. CASE ~\E u \in Users : users[u].name = row.name
      <3>1. /\ users' = [users EXCEPT ![serial.user] = row]
            /\ serial' = [serial EXCEPT !.user = @ + 1, !.password = @ + 1]
            /\ thread' = [thread EXCEPT ![t].user = serial.user, ![t].row = row,
                                        ![t].pc = "save_terms"]
            /\ ghost' = [ghost EXCEPT !.wanted[serial.user] = row]
            /\ mailed' = mailed /\ session' = session
        BY <1>2, <2>5 DEF CreateUser
      <3>2. [thread[t] EXCEPT !.user = serial.user, !.row = row, !.pc = "save_terms"]
              \in ThreadState
        BY <2>2, <2>3 DEF ThreadState, Pcs
      <3>3. users' \in [Users -> User] /\ thread' \in [Threads -> ThreadState]
        BY <3>1, <3>2, <2>3 DEF TypeOK
      <3>4. serial' \in [user: 1..(MaxUsers + 1), password: 1..(MaxPasswords + 1),
                         switch: 0..MaxSwitches]
        <4>1. serial.user + 1 \in 1..(MaxUsers + 1) /\ serial.password + 1 \in 1..(MaxPasswords + 1)
          BY <2>2, BoundsAssumption DEF Users, Passwords
        <4>2. QED
          BY <3>1, <4>1 DEF TypeOK
      <3>5. ghost' \in GhostState
        BY <3>1, <2>3, HistoryTypes DEF GhostState
      <3>6. mailed' \subseteq {u \in Users : Exists(u)}'
        BY <3>1, <2>2, <2>3 DEF TypeOK, Exists
      <3>7. QED
        BY <3>1, <3>3, <3>4, <3>5, <3>6 DEF TypeOK
    <2>6. QED
      BY <2>4, <2>5
  <1>3. CASE SaveTerms(t)
    <2>1. thread[t].user \in Users /\ thread[t].row.name # 0
      BY <1>3 DEF SaveTerms, RequestsKnown, Known, AboutUser
    <2>2. /\ users' \in [Users -> User] /\ thread' \in [Threads -> ThreadState]
          /\ ghost' \in GhostState
      <3>1. thread[t].row \in User /\ "token" \in Pcs /\ SaveUser(t, thread[t].row, "token", ghost)
        BY <1>3 DEF SaveTerms, Pcs
      <3>2. QED
        BY <3>1, <2>1, SaveTypes, HistoryTypes
    <2>3. mailed' \subseteq {u \in Users : Exists(u)}'
      BY <1>3, <2>1 DEF SaveTerms, SaveUser, TypeOK, Exists
    <2>4. QED
      BY <1>3, <2>2, <2>3 DEF SaveTerms, TypeOK
  <1>4. CASE StoreToken(t)
    <2>1. thread' \in [Threads -> ThreadState]
      BY <1>4, ThreadMoves DEF StoreToken, Pcs
    <2>2. mailed' \subseteq {u \in Users : Exists(u)}'
      BY <1>4 DEF StoreToken, TypeOK, Exists, RequestsKnown, Known, AboutUser
    <2>3. QED
      BY <1>4, <2>1, <2>2 DEF StoreToken, TypeOK
  <1>5. CASE SendMail(t)
    <2>1. thread[t].browser \in Browsers
      BY <1>5 DEF SendMail, RequestsKnown, Known
    <2>2. thread' \in [Threads -> ThreadState]
      BY <1>5, ThreadMoves DEF SendMail
    <2>3. [user |-> thread[t].user, step |-> "pending", password |-> 0,
           proved |-> thread[t].row.password] \in Session
      BY DEF Session
    <2>4. session' \in [Browsers -> Session]
      BY <1>5, <2>3 DEF SendMail, TypeOK
    <2>5. ghost' \in GhostState
      <3>1. \A S \in SUBSET Browsers : [ghost EXCEPT !.carried = S] \in GhostState
        BY HistoryTypes DEF GhostState
      <3>2. ghost' = ghost \/ \E S \in SUBSET Browsers : ghost' = [ghost EXCEPT !.carried = S]
        BY <1>5, <2>1, HistoryTypes DEF SendMail
      <3>3. QED
        BY <3>1, <3>2, HistoryTypes
    <2>6. QED
      BY <1>5, <2>2, <2>4, <2>5 DEF SendMail, TypeOK, Exists
  <1>6. QED
    BY <1>1, <1>2, <1>3, <1>4, <1>5

\* Steps of an email verification and of a change of password.
LEMMA RequestsKeepTypes ==
  ASSUME TypeInvariant, NEW t \in Threads,
         StartVerifyEmail(t) \/ SaveVerified(t) \/ DeleteToken(t) \/ StartSettings(t)
         \/ SavePassword(t) \/ Respond(t) \/ Crash(t)
  PROVE  TypeOK'
  <1> TypeOK /\ RequestsKnown /\ UsersIssued
    BY DEF TypeInvariant
  <1> USE FieldTypes
  <1>1. CASE StartVerifyEmail(t)
    <2>1. PICK u \in mailed : Load(t, "verify_email", "save_verified", NoBrowser, u)
      BY <1>1 DEF StartVerifyEmail
    <2>2. u \in Users
      BY DEF TypeOK
    <2>3. thread' \in [Threads -> ThreadState] /\ ghost' \in GhostState
      BY <2>1, <2>2, LoadTypes DEF OpNames, Pcs
    <2>4. QED
      BY <1>1, <2>3 DEF StartVerifyEmail, TypeOK, Exists
  <1>2. CASE SaveVerified(t)
    <2> DEFINE row == [thread[t].row EXCEPT !.email_verified = TRUE]
               g == [ghost EXCEPT !.wanted[thread[t].user].email_verified = TRUE]
    <2>1. thread[t].user \in Users /\ thread[t].row.name # 0
      BY <1>2 DEF SaveVerified, RequestsKnown, Known, AboutUser
    <2>2. row \in User /\ row.name # 0
      BY <2>1 DEF User
    <2>3. g \in GhostState
      <3>1. [ghost.wanted[thread[t].user] EXCEPT !.email_verified = TRUE] \in User
        <4>1. ghost.wanted[thread[t].user] \in User
          BY <2>1, HistoryTypes
        <4>2. QED
          BY <4>1 DEF User
      <3>2. QED
        BY <2>1, <3>1, HistoryTypes DEF GhostState
    <2>4. SaveUser(t, row, "delete_token", g)
      BY <1>2 DEF SaveVerified
    <2>5. /\ users' \in [Users -> User] /\ thread' \in [Threads -> ThreadState]
          /\ ghost' \in GhostState
      <3> HIDE DEF row, g
      <3>1. QED
        BY <2>1, <2>2, <2>3, <2>4, SaveTypes DEF Pcs
    <2>6. mailed' \subseteq {u \in Users : Exists(u)}'
      <3>1. mailed' = mailed
        BY <1>2 DEF SaveVerified
      <3> HIDE DEF row, g
      <3>2. QED
        BY <2>1, <2>2, <2>4, <3>1 DEF SaveUser, TypeOK, Exists
    <2>7. QED
      BY <1>2, <2>5, <2>6 DEF SaveVerified, TypeOK
  <1>3. CASE DeleteToken(t)
    BY <1>3, ThreadMoves DEF DeleteToken, TypeOK, Exists
  <1>4. CASE StartSettings(t)
    <2>1. PICK b \in Browsers :
             SignedIn(b) /\ Load(t, "settings", "save_password", b, session[b].user)
      BY <1>4 DEF StartSettings
    <2>2. session[b].user \in Users
      BY <2>1 DEF SignedIn, UsersIssued
    <2>3. thread' \in [Threads -> ThreadState] /\ ghost' \in GhostState
      BY <2>1, <2>2, LoadTypes DEF OpNames, Pcs
    <2>4. QED
      BY <1>4, <2>3 DEF StartSettings, TypeOK, Exists
  <1>5. CASE SavePassword(t)
    <2> DEFINE u == thread[t].user
               row == [thread[t].row EXCEPT !.password = serial.password]
               late == {b \in Browsers : session[b].user = u /\ session[b].step = "pending"}
               g == [ghost EXCEPT !.wanted[u] = [@ EXCEPT !.password = serial.password],
                                  !.carried = @ \cup late]
    <2>1. thread[t].user \in Users /\ thread[t].row.name # 0 /\ serial.password \in Passwords
      BY <1>5, RoomToTake DEF SavePassword, RequestsKnown, Known, AboutUser, Choosing
    <2>2. row \in User /\ row.name # 0
      BY <2>1 DEF User
    <2>3. g \in GhostState
      <3>1. [ghost.wanted[u] EXCEPT !.password = serial.password] \in User
        BY <2>1, HistoryTypes DEF User
      <3>2. ghost.carried \cup late \in SUBSET Browsers
        BY HistoryTypes
      <3>3. QED
        BY <2>1, <3>1, <3>2, HistoryTypes DEF GhostState
    <2>4. SaveUser(t, row, "respond", g)
      BY <1>5 DEF SavePassword
    <2>5. /\ users' \in [Users -> User] /\ thread' \in [Threads -> ThreadState]
          /\ ghost' \in GhostState
      <3> HIDE DEF row, g
      <3>1. QED
        BY <2>1, <2>2, <2>3, <2>4, SaveTypes DEF Pcs
    <2>6. mailed' \subseteq {v \in Users : Exists(v)}'
      <3>1. mailed' = mailed
        BY <1>5 DEF SavePassword
      <3> HIDE DEF row, g
      <3>2. QED
        BY <2>1, <2>2, <2>4, <3>1 DEF SaveUser, TypeOK, Exists
    <2>7. serial' \in [user: 1..(MaxUsers + 1), password: 1..(MaxPasswords + 1),
                       switch: 0..MaxSwitches]
      <3>1. serial.password + 1 \in 1..(MaxPasswords + 1)
        BY <2>1, BoundsAssumption DEF Passwords
      <3>2. serial' = [serial EXCEPT !.password = @ + 1]
        BY <1>5 DEF SavePassword
      <3>3. QED
        BY <3>1, <3>2 DEF TypeOK
    <2>8. QED
      BY <1>5, <2>5, <2>6, <2>7 DEF SavePassword, TypeOK
  <1>6. CASE Respond(t)
    <2>1. [user |-> thread[t].user, step |-> "signed", password |-> thread[t].row.password,
           proved |-> thread[t].row.password] \in Session
      BY DEF Session
    <2>2. session' \in [Browsers -> Session]
      BY <1>6, <2>1 DEF Respond, TypeOK
    <2>3. ghost' \in GhostState
      BY <1>6, HistoryTypes DEF Respond, GhostState
    <2>4. QED
      BY <1>6, <2>2, <2>3, ThreadMoves DEF Respond, TypeOK, Exists
  <1>7. CASE Crash(t)
    BY <1>7, ThreadMoves DEF Crash, TypeOK, Exists
  <1>8. QED
    BY <1>1, <1>2, <1>3, <1>4, <1>5, <1>6, <1>7

\* What happens in one statement: to sessions, and by the administrator.
LEMMA SessionsKeepTypes ==
  ASSUME TypeInvariant, NEW b \in Browsers,
         DeleteAccount(b) \/ Login(b) \/ CompleteLogin(b) \/ Logout(b)
  PROVE  TypeOK'
  <1> TypeOK /\ UsersIssued
    BY DEF TypeInvariant
  <1> USE FieldTypes
  <1>0. /\ \A s \in Session : session' = [session EXCEPT ![b] = s]
                              => session' \in [Browsers -> Session]
        /\ [ghost EXCEPT !.carried = @ \ {b}] \in GhostState
    BY HistoryTypes DEF TypeOK, GhostState
  <1>1. CASE DeleteAccount(b)
    <2>1. session[b].user \in Users
      BY <1>1 DEF DeleteAccount, SignedIn, UsersIssued
    <2>2. users' \in [Users -> User]
      BY <1>1, InitialRecords DEF DeleteAccount, TypeOK
    <2>3. mailed' \subseteq {u \in Users : Exists(u)}'
      BY <1>1, <2>1 DEF DeleteAccount, TypeOK, Exists
    <2>4. ghost' \in GhostState
      <3>1. [ghost.wanted EXCEPT ![session[b].user] = NoUser] \in [Users -> User]
        BY HistoryTypes, InitialRecords
      <3>2. QED
        BY <1>1, <2>1, <3>1, HistoryTypes DEF DeleteAccount, GhostState
    <2>5. QED
      BY <1>0, <1>1, <2>2, <2>3, <2>4, InitialRecords DEF DeleteAccount, TypeOK
  <1>2. CASE Login(b)
    <2>1. PICK u \in Users, password \in 1..(serial.password - 1) :
             session' = [session EXCEPT ![b] =
               [user |-> u, step |-> "pending", password |-> 0, proved |-> password]]
      BY <1>2 DEF Login
    <2>2. password \in Passwords
      BY BoundsAssumption DEF Passwords
    <2>3. [user |-> u, step |-> "pending", password |-> 0, proved |-> password] \in Session
      BY <2>2 DEF Session
    <2>4. QED
      BY <1>0, <1>2, <2>1, <2>3 DEF Login, TypeOK, Exists
  <1>3. CASE CompleteLogin(b)
    <2>1. session[b].user \in Users
      BY <1>3 DEF CompleteLogin, UsersIssued
    <2>2. [session[b] EXCEPT !.step = "signed", !.password = users[session[b].user].password]
            \in Session
      BY <2>1 DEF Session
    <2>3. session' \in [Browsers -> Session]
      BY <1>3, <2>2 DEF CompleteLogin, TypeOK
    <2>4. QED
      BY <1>3, <2>3 DEF CompleteLogin, TypeOK, Exists
  <1>4. CASE Logout(b)
    BY <1>0, <1>4, InitialRecords DEF Logout, TypeOK, Exists
  <1>5. QED
    BY <1>1, <1>2, <1>3, <1>4

LEMMA SwitchKeepsTypes ==
  ASSUME TypeInvariant, NEW u \in Users, SwitchActive(u)
  PROVE  TypeOK'
  <1> TypeOK
    BY DEF TypeInvariant
  <1> USE FieldTypes
  <1>1. [users[u] EXCEPT !.is_active = ~@] \in User
    BY DEF User
  <1>2. users' \in [Users -> User]
    BY <1>1 DEF SwitchActive, TypeOK
  <1>3. mailed' \subseteq {v \in Users : Exists(v)}'
    BY DEF SwitchActive, TypeOK, Exists, User
  <1>4. serial' \in [user: 1..(MaxUsers + 1), password: 1..(MaxPasswords + 1),
                     switch: 0..MaxSwitches]
    <2>1. serial.switch + 1 \in 0..MaxSwitches
      BY BoundsAssumption DEF SwitchActive
    <2>2. QED
      BY <2>1 DEF SwitchActive, TypeOK
  <1>5. ghost' \in GhostState
    <2>1. [ghost.wanted[u] EXCEPT !.is_active = ~users[u].is_active] \in User
      BY HistoryTypes DEF User
    <2>2. QED
      BY <2>1, HistoryTypes DEF SwitchActive, GhostState
  <1>6. QED
    BY <1>2, <1>3, <1>4, <1>5 DEF SwitchActive, TypeOK
-----------------------------------------------------------------------------
\* A step of one thread leaves the others as they are; the rest leave all of them.
LEMMA OtherThreads ==
  ASSUME TypeOK, NEW t \in Threads, Step(t)
  PROVE  /\ \A v \in Threads : v # t => thread'[v] = thread[v]
         /\ DOMAIN thread' = Threads
  BY DEF TypeOK, Step, StartSignup, CreateUser, SaveTerms, StoreToken, SendMail,
         StartVerifyEmail, SaveVerified, DeleteToken, StartSettings, SavePassword, Respond, Crash,
         Finish, Goto, Load, SaveUser

LEMMA ThreadsRest ==
  ASSUME TypeOK,
         \/ \E b \in Browsers : DeleteAccount(b) \/ Login(b) \/ CompleteLogin(b) \/ Logout(b)
         \/ \E u \in Users : SwitchActive(u)
         \/ UNCHANGED vars
  PROVE  thread' = thread /\ serial'.user = serial.user /\ serial'.password = serial.password
  BY DEF DeleteAccount, Login, CompleteLogin, Logout, SwitchActive, vars, TypeOK

\* Where a thread's step takes it, and what it issues: a request that begins,
\* a user created, a password chosen, or none of these.
Begins(t, pc) ==
  thread[t].pc = "idle" /\ thread'[t].pc = pc /\ UNCHANGED serial

Elsewhere(t) ==
  /\ thread'[t].pc \notin {"create_user", "save_password"}
  /\ UNCHANGED serial

LEMMA Destinations ==
  ASSUME TypeOK, NEW t \in Threads
  PROVE  /\ StartSignup(t) => Begins(t, "create_user")
         /\ StartSettings(t) => Begins(t, "save_password")
         /\ CreateUser(t) => /\ t \in Creating /\ thread'[t].pc \in {"idle", "save_terms"}
                             /\ serial'.user \in {serial.user, serial.user + 1}
                             /\ serial'.password \in {serial.password, serial.password + 1}
         /\ SavePassword(t) => /\ thread[t].pc = "save_password"
                               /\ thread'[t].pc \in {"idle", "respond"}
                               /\ serial'.user = serial.user
                               /\ serial'.password = serial.password + 1
         /\ SaveTerms(t) \/ StoreToken(t) \/ SendMail(t) \/ StartVerifyEmail(t)
            \/ SaveVerified(t) \/ DeleteToken(t) \/ Respond(t) \/ Crash(t) => Elsewhere(t)
  <1> USE DEF TypeOK, Finish, Goto, Load, Idle, IsIdle
  <1>1. StartSignup(t) => Begins(t, "create_user")
    BY DEF StartSignup, Begins
  <1>2. StartSettings(t) => Begins(t, "save_password")
    BY DEF StartSettings, Begins
  <1>3. CreateUser(t) => /\ t \in Creating /\ thread'[t].pc \in {"idle", "save_terms"}
                         /\ serial'.user \in {serial.user, serial.user + 1}
                         /\ serial'.password \in {serial.password, serial.password + 1}
    <2> SUFFICES ASSUME CreateUser(t)
                 PROVE  /\ t \in Creating /\ thread'[t].pc \in {"idle", "save_terms"}
                        /\ serial'.user \in {serial.user, serial.user + 1}
                        /\ serial'.password \in {serial.password, serial.password + 1}
      OBVIOUS
    <2>1. t \in Creating
      BY DEF CreateUser, Creating
    <2>2. CASE Finish(t) /\ serial' = serial
      BY <2>1, <2>2
    <2>3. ASSUME NEW r, serial' = [serial EXCEPT !.user = @ + 1, !.password = @ + 1],
                 thread' = [thread EXCEPT ![t].user = serial.user, ![t].row = r,
                                          ![t].pc = "save_terms"]
          PROVE  /\ thread'[t].pc = "save_terms" /\ serial'.user = serial.user + 1
                 /\ serial'.password = serial.password + 1
      BY <2>3
    <2>4. QED
      BY <2>1, <2>2, <2>3 DEF CreateUser
  <1>4. SavePassword(t) => /\ thread[t].pc = "save_password"
                           /\ thread'[t].pc \in {"idle", "respond"}
                           /\ serial'.user = serial.user
                           /\ serial'.password = serial.password + 1
    <2>1. ASSUME SavePassword(t) PROVE thread'[t].pc \in {"idle", "respond"}
      <3>1. PICK row, g : SaveUser(t, row, "respond", g)
        BY <2>1 DEF SavePassword
      <3>2. QED
        BY <3>1, FieldTypes DEF SaveUser, ThreadState
    <2>2. QED
      BY <2>1, FieldTypes DEF SavePassword
  <1>5. ASSUME SaveTerms(t) \/ StoreToken(t) \/ SendMail(t) \/ StartVerifyEmail(t)
               \/ SaveVerified(t) \/ DeleteToken(t) \/ Respond(t) \/ Crash(t)
        PROVE  Elsewhere(t)
    <2>1. CASE SaveTerms(t) \/ SaveVerified(t)
      <3>1. PICK row, g, next : SaveUser(t, row, next, g) /\ next \in {"token", "delete_token"}
        BY <2>1 DEF SaveTerms, SaveVerified
      <3>2. thread'[t].pc \in {"idle", "token", "delete_token"}
        BY <3>1, FieldTypes DEF SaveUser, ThreadState
      <3>3. QED
        BY <2>1, <3>2 DEF SaveTerms, SaveVerified, Elsewhere
    <2>2. CASE SendMail(t) \/ DeleteToken(t) \/ Respond(t) \/ Crash(t)
      BY <2>2 DEF SendMail, DeleteToken, Respond, Crash, Elsewhere
    <2>5. CASE StoreToken(t)
      BY <2>5 DEF StoreToken, Elsewhere, ThreadState
    <2>3. CASE StartVerifyEmail(t)
      BY <2>3 DEF StartVerifyEmail, Elsewhere
    <2>4. QED
      BY <1>5, <2>1, <2>2, <2>3, <2>5
  <1>6. QED
    BY <1>1, <1>2, <1>3, <1>4, <1>5

LEMMA RoomStays ==
  ASSUME TypeInvariant, NEW t \in Threads, Step(t)
  PROVE  RoomKept'
  <1> TypeOK /\ RoomKept
    BY DEF TypeInvariant
  <1>0. /\ serial.user \in Nat /\ serial.password \in Nat /\ MaxUsers \in Nat
        /\ MaxPasswords \in Nat
    BY FieldTypes, BoundsAssumption
  <1> USE <1>0
  <1>1. \A v \in Threads : v # t => (v \in Creating' <=> v \in Creating)
                                    /\ (v \in Choosing' <=> v \in Choosing)
    BY OtherThreads DEF Creating, Choosing
  <1>2. Creating' \subseteq Threads /\ Choosing' \subseteq Threads
    BY DEF Creating, Choosing
  <1>3. CASE StartSignup(t)
    <2>1. Creating' \subseteq Creating \cup {t} /\ Choosing' \subseteq Choosing \cup {t}
      BY <1>1, <1>2
    <2>2. /\ Cardinality(Creating') \in Nat /\ Cardinality(Creating') <= Cardinality(Creating) + 1
          /\ Cardinality(Choosing') \in Nat /\ Cardinality(Choosing') <= Cardinality(Choosing) + 1
      BY <2>1, ThreadsFinite, Joins
    <2>3. /\ serial.user + Cardinality(Creating) <= MaxUsers
          /\ serial.password + Cardinality(Choosing) <= MaxPasswords
      BY <1>3, RoomToBegin DEF StartSignup
    <2>4. serial' = serial
      BY <1>3 DEF StartSignup
    <2>5. QED
      BY <2>2, <2>3, <2>4, ThreadsFinite DEF RoomKept
  <1>4. CASE StartSettings(t)
    <2>1. Creating' \subseteq Creating /\ Choosing' \subseteq Choosing \cup {t}
      BY <1>1, <1>2, <1>4, Destinations DEF Begins, Creating
    <2>2. /\ Cardinality(Creating') \in Nat /\ Cardinality(Creating') <= Cardinality(Creating)
          /\ Cardinality(Choosing') \in Nat /\ Cardinality(Choosing') <= Cardinality(Choosing) + 1
      BY <2>1, ThreadsFinite, Joins, Stays
    <2>3. serial.password + Cardinality(Choosing) <= MaxPasswords
      BY <1>4, RoomToBegin DEF StartSettings
    <2>4. serial' = serial
      BY <1>4 DEF StartSettings
    <2>5. QED
      BY <2>2, <2>3, <2>4, ThreadsFinite DEF RoomKept
  <1>5. CASE CreateUser(t)
    <2>1. t \in Creating /\ t \in Choosing
      BY <1>5, Destinations DEF Creating, Choosing
    <2>2. Creating' \subseteq Creating \ {t} /\ Choosing' \subseteq Choosing \ {t}
      BY <1>1, <1>2, <1>5, Destinations DEF Creating, Choosing
    <2>3. /\ Cardinality(Creating') \in Nat /\ Cardinality(Creating') + 1 <= Cardinality(Creating)
          /\ Cardinality(Choosing') \in Nat /\ Cardinality(Choosing') + 1 <= Cardinality(Choosing)
      BY <2>1, <2>2, ThreadsFinite, Leaves
    <2>4. QED
      BY <1>5, <2>3, ThreadsFinite, Destinations DEF RoomKept
  <1>6. CASE SavePassword(t)
    <2>1. t \in Choosing
      BY <1>6, Destinations DEF Choosing
    <2>2. Creating' \subseteq Creating /\ Choosing' \subseteq Choosing \ {t}
      BY <1>1, <1>2, <1>6, Destinations DEF Creating, Choosing
    <2>3. /\ Cardinality(Creating') \in Nat /\ Cardinality(Creating') <= Cardinality(Creating)
          /\ Cardinality(Choosing') \in Nat /\ Cardinality(Choosing') + 1 <= Cardinality(Choosing)
      BY <2>1, <2>2, ThreadsFinite, Leaves, Stays
    <2>4. QED
      BY <1>6, <2>3, ThreadsFinite, Destinations DEF RoomKept
  <1>7. CASE SaveTerms(t) \/ StoreToken(t) \/ SendMail(t) \/ StartVerifyEmail(t)
             \/ SaveVerified(t) \/ DeleteToken(t) \/ Respond(t) \/ Crash(t)
    <2>1. Elsewhere(t)
      BY <1>7, Destinations
    <2>2. Creating' \subseteq Creating /\ Choosing' \subseteq Choosing
      BY <1>1, <1>2, <2>1 DEF Elsewhere, Creating, Choosing
    <2>3. /\ Cardinality(Creating') \in Nat /\ Cardinality(Creating') <= Cardinality(Creating)
          /\ Cardinality(Choosing') \in Nat /\ Cardinality(Choosing') <= Cardinality(Choosing)
      BY <2>2, ThreadsFinite, Stays
    <2>4. QED
      BY <2>1, <2>3, ThreadsFinite DEF RoomKept, Elsewhere
  <1>8. QED
    BY <1>3, <1>4, <1>5, <1>6, <1>7 DEF Step
-----------------------------------------------------------------------------
\* What is known of a request stays known while others work.
LEMMA KnownStays ==
  ASSUME NEW v \in Threads, Known(v), thread'[v] = thread[v],
         serial.user \in Nat, serial'.user \in Nat, serial.user <= serial'.user
  PROVE  Known(v)'
  BY DEF Known, AboutUser, Users

LEMMA SerialGrows ==
  ASSUME TypeInvariant, NEW t \in Threads, Step(t)
  PROVE  serial.user \in Nat /\ serial'.user \in Nat /\ serial.user <= serial'.user
  <1> TypeOK
    BY DEF TypeInvariant
  <1>1. serial.user \in Nat /\ serial.password \in Nat
    BY FieldTypes, BoundsAssumption
  <1>2. CASE CreateUser(t)
    BY <1>1, <1>2, Destinations
  <1>3. CASE SavePassword(t)
    BY <1>1, <1>3, Destinations
  <1>4. CASE StartSignup(t) \/ StartSettings(t)
    BY <1>1, <1>4, Destinations DEF Begins
  <1>5. CASE SaveTerms(t) \/ StoreToken(t) \/ SendMail(t) \/ StartVerifyEmail(t)
             \/ SaveVerified(t) \/ DeleteToken(t) \/ Respond(t) \/ Crash(t)
    BY <1>1, <1>5, Destinations DEF Elsewhere
  <1>6. QED
    BY <1>2, <1>3, <1>4, <1>5 DEF Step

\* An idle thread has nothing to be known; a row loaded from an existing user suffices.
LEMMA IdleKnown ==
  ASSUME TypeOK, NEW t \in Threads, thread'[t] = Idle
  PROVE  Known(t)'
  BY DEF Known, Idle, AboutUser

LEMMA LoadKnown ==
  ASSUME TypeOK, UsersIssued, NEW t \in Threads, NEW op \in {"verify_email", "settings"},
         NEW pc \in {"save_verified", "save_password"}, op = "settings" <=> pc = "save_password",
         NEW b, NEW u \in Users, Exists(u), Load(t, op, pc, b, u), serial' = serial
  PROVE  Known(t)'
  <1>1. thread'[t] = [Idle EXCEPT !.op = op, !.pc = pc, !.browser = b, !.user = u,
                                  !.row = users[u]]
    BY DEF Load, TypeOK
  <1>2. users[u].name # 0 /\ u < serial'.user
    BY DEF Exists, UsersIssued
  <1>3. QED
    BY <1>1, <1>2 DEF Known, Idle, AboutUser

\* A copy is saved with a name.
LEMMA SaveKnown ==
  ASSUME TypeOK, NEW t \in Threads, Known(t), NEW row, NEW g, row.name # 0,
         NEW next \in {"token", "delete_token", "respond"},
         thread[t].pc \in AboutUser, next = "token" => thread[t].op = "signup",
         SaveUser(t, row, next, g),
         serial'.user = serial.user
  PROVE  Known(t)'
  <1>0. thread[t] \in ThreadState
    BY FieldTypes
  <1>1. CASE thread'[t] = Idle
    BY <1>1, IdleKnown
  <1>2. CASE thread'[t] = [thread[t] EXCEPT !.row = row, !.pc = next]
    <2>1. /\ thread'[t].pc = next /\ thread'[t].row = row /\ thread'[t].user = thread[t].user
          /\ thread'[t].op = thread[t].op /\ thread'[t].browser = thread[t].browser
      BY <1>0, <1>2 DEF ThreadState
    <2>2. QED
      BY <2>1 DEF Known, AboutUser
  <1>3. QED
    BY <1>1, <1>2 DEF SaveUser, Finish, TypeOK

LEMMA KnownNext ==
  ASSUME TypeInvariant, NEW t \in Threads, Step(t)
  PROVE  Known(t)'
  <1> TypeOK /\ RequestsKnown /\ UsersIssued /\ Known(t)
    BY DEF TypeInvariant, RequestsKnown
  <1>0. /\ thread[t] \in ThreadState /\ thread \in [Threads -> ThreadState]
        /\ serial.user \in Nat /\ serial'.user \in Nat /\ serial.user <= serial'.user
    BY FieldTypes, SerialGrows DEF TypeOK
  <1>1. CASE StartSignup(t)
    <2>1. PICK b \in Browsers, name \in Spellings :
             thread' = [thread EXCEPT ![t] = [Idle EXCEPT !.op = "signup", !.pc = "create_user",
                    !.browser = b, !.row = [NoUser EXCEPT !.name = name, !.is_active = TRUE]]]
      BY <1>1 DEF StartSignup
    <2>2. /\ thread'[t].op = "signup" /\ thread'[t].pc = "create_user"
          /\ thread'[t].browser = b /\ thread'[t].row.name = name
      BY <1>0, <2>1 DEF Idle, NoUser
    <2>3. QED
      BY <2>2, NoneAssumption DEF Known, AboutUser
  <1>2. CASE CreateUser(t)
    <2>1. CASE thread'[t] = Idle
      BY <2>1, IdleKnown
    <2>2. CASE ~(thread'[t] = Idle)
      <3> DEFINE row == [thread[t].row EXCEPT !.password = serial.password]
      <3>1. /\ thread' = [thread EXCEPT ![t].user = serial.user, ![t].row = row,
                                        ![t].pc = "save_terms"]
            /\ serial' = [serial EXCEPT !.user = @ + 1, !.password = @ + 1]
        BY <1>0, <1>2, <2>2 DEF CreateUser, Finish
      <3>2. row.name = thread[t].row.name /\ thread[t].row.name # 0 /\ thread[t].op = "signup"
        BY <1>2, FieldTypes DEF CreateUser, Known, User
      <3>3. /\ thread'[t].user = serial.user /\ thread'[t].row.name # 0
            /\ thread'[t].pc = "save_terms" /\ thread'[t].op = "signup"
            /\ thread'[t].browser = thread[t].browser
        BY <1>0, <3>1, <3>2 DEF ThreadState
      <3>4. serial.user \in Users /\ serial'.user = serial.user + 1
        BY <1>2, <3>1, FieldTypes, RoomToTake DEF CreateUser, Creating, TypeOK
      <3>5. QED
        BY <1>0, <3>2, <3>3, <3>4 DEF Known, AboutUser
    <2>3. QED
      BY <2>1, <2>2
  <1>3. CASE SaveTerms(t)
    <2>1. SaveUser(t, thread[t].row, "token", ghost) /\ serial' = serial
      BY <1>3 DEF SaveTerms
    <2>2. thread[t].pc = "save_terms" /\ thread[t].op = "signup" /\ thread[t].row.name # 0
      BY <1>3 DEF SaveTerms, Known, AboutUser
    <2>3. QED
      BY <2>1, <2>2, SaveKnown DEF AboutUser
  <1>4. CASE StoreToken(t)
    BY <1>0, <1>4, IdleKnown DEF StoreToken, Known, AboutUser, Goto, Finish, ThreadState, Users
  <1>5. CASE SendMail(t) \/ DeleteToken(t) \/ Respond(t) \/ Crash(t)
    BY <1>0, <1>5, IdleKnown DEF SendMail, DeleteToken, Respond, Crash, Finish
  <1>6. CASE StartVerifyEmail(t)
    <2>1. PICK u \in mailed : Load(t, "verify_email", "save_verified", NoBrowser, u)
      BY <1>6 DEF StartVerifyEmail
    <2>2. u \in Users /\ Exists(u) /\ serial' = serial
      BY <1>6 DEF TypeOK, StartVerifyEmail
    <2>3. QED
      BY <2>1, <2>2, LoadKnown
  <1>7. CASE SaveVerified(t)
    <2> DEFINE row == [thread[t].row EXCEPT !.email_verified = TRUE]
               g == [ghost EXCEPT !.wanted[thread[t].user].email_verified = TRUE]
    <2>1. thread[t].pc = "save_verified" /\ serial' = serial /\ SaveUser(t, row, "delete_token", g)
      BY <1>7 DEF SaveVerified
    <2>2. row.name # 0
      BY <2>1, FieldTypes DEF Known, AboutUser, User
    <2> HIDE DEF row, g
    <2>3. QED
      BY <2>1, <2>2, SaveKnown DEF AboutUser
  <1>8. CASE StartSettings(t)
    <2>1. PICK b \in Browsers :
             SignedIn(b) /\ Load(t, "settings", "save_password", b, session[b].user)
      BY <1>8 DEF StartSettings
    <2>2. session[b].user \in Users /\ Exists(session[b].user) /\ serial' = serial
      BY <1>8, <2>1 DEF SignedIn, UsersIssued, StartSettings
    <2>3. QED
      BY <2>1, <2>2, LoadKnown
  <1>9. CASE SavePassword(t)
    <2> DEFINE row == [thread[t].row EXCEPT !.password = serial.password]
    <2>1. PICK g : SaveUser(t, row, "respond", g)
      BY <1>9 DEF SavePassword
    <2>2. thread[t].pc = "save_password" /\ serial'.user = serial.user
      BY <1>9, Destinations
    <2>3. row.name # 0
      BY <2>2, FieldTypes DEF Known, AboutUser, User
    <2> HIDE DEF row
    <2>4. QED
      BY <2>1, <2>2, <2>3, SaveKnown DEF AboutUser
  <1>10. QED
    BY <1>1, <1>2, <1>3, <1>4, <1>5, <1>6, <1>7, <1>8, <1>9 DEF Step
-----------------------------------------------------------------------------
\* Rows are written, and sessions made, for users that have been created.
LEMMA IssuedStay ==
  ASSUME TypeOK, UsersIssued, serial.user \in Nat, serial'.user \in Nat,
         serial.user <= serial'.user,
         \A u \in Users : users'[u] = users[u] \/ u < serial'.user \/ users'[u].name = 0,
         \A b \in Browsers : session'[b].step # "none" =>
           \/ session'[b].user = session[b].user /\ session[b].step # "none"
           \/ session'[b].user \in Users /\ session'[b].user < serial'.user
  PROVE  UsersIssued'
  <1>1. Users \subseteq Nat
    BY DEF Users
  <1>2. \A u \in Users : Exists(u)' => u < serial'.user
    <2>1. ASSUME NEW u \in Users, Exists(u)'
          PROVE  u < serial'.user
      <3>1. u \in Nat
        BY <1>1
      <3>2. CASE users'[u] = users[u]
        <4>1. u < serial.user
          BY <2>1, <3>2 DEF UsersIssued, Exists
        <4>2. QED
          BY <3>1, <4>1
      <3>3. QED
        BY <2>1, <3>2 DEF Exists
    <2>2. QED
      BY <2>1
  <1>3. ASSUME NEW b \in Browsers, session'[b].step # "none"
        PROVE  session'[b].user \in Users /\ session'[b].user < serial'.user
    <2>1. CASE session'[b].user = session[b].user /\ session[b].step # "none"
      <3>1. session[b].user \in Users /\ session[b].user < serial.user
        BY <2>1 DEF UsersIssued
      <3>2. session[b].user \in Nat
        BY <1>1, <3>1
      <3>3. QED
        BY <2>1, <3>1, <3>2
    <2>2. QED
      BY <1>3, <2>1
  <1>4. QED
    BY <1>2, <1>3 DEF UsersIssued, Users

LEMMA IssuedNext ==
  ASSUME TypeInvariant, NEW t \in Threads, Step(t)
  PROVE  UsersIssued'
  <1> TypeOK /\ RequestsKnown /\ UsersIssued /\ Known(t)
    BY DEF TypeInvariant, RequestsKnown
  <1>0. /\ users \in [Users -> User] /\ session \in [Browsers -> Session]
        /\ serial.user \in Nat /\ serial'.user \in Nat /\ serial.user <= serial'.user
    BY FieldTypes, SerialGrows DEF TypeOK
  <1>1. CASE CreateUser(t)
    <2>1. session' = session
      BY <1>1 DEF CreateUser
    <2>2. CASE users' = users
      BY <1>0, <2>1, <2>2, IssuedStay
    <2>3. CASE users' # users
      <3>1. PICK row : users' = [users EXCEPT ![serial.user] = row]
        BY <1>1, <2>3 DEF CreateUser
      <3>2. serial' = [serial EXCEPT !.user = @ + 1, !.password = @ + 1]
        BY <1>1, <2>3 DEF CreateUser
      <3>3. serial'.user = serial.user + 1
        BY <3>2 DEF TypeOK
      <3>4. \A u \in Users : users'[u] = users[u] \/ u < serial'.user
        BY <1>0, <3>1, <3>3
      <3>5. QED
        BY <1>0, <2>1, <3>4, IssuedStay
    <2>4. QED
      BY <2>2, <2>3
  <1>2. CASE SaveTerms(t) \/ SaveVerified(t) \/ SavePassword(t)
    <2>1. session' = session /\ thread[t].pc \in AboutUser
      BY <1>2 DEF SaveTerms, SaveVerified, SavePassword, AboutUser
    <2>2. thread[t].user \in Users /\ thread[t].user < serial.user
      BY <2>1 DEF Known
    <2>3. PICK row, next, g : SaveUser(t, row, next, g)
      BY <1>2 DEF SaveTerms, SaveVerified, SavePassword
    <2>4. \A u \in Users : users'[u] = users[u] \/ u = thread[t].user
      BY <1>0, <2>3 DEF SaveUser
    <2>5. \A u \in Users : users'[u] = users[u] \/ u < serial'.user
      BY <1>0, <2>2, <2>4 DEF Users
    <2>6. QED
      BY <1>0, <2>1, <2>5, IssuedStay
  <1>3. CASE SendMail(t) \/ Respond(t)
    <2>1. users' = users /\ thread[t].pc \in AboutUser
      BY <1>3 DEF SendMail, Respond, AboutUser
    <2>2. thread[t].user \in Users /\ thread[t].user < serial.user
      BY <2>1 DEF Known
    <2>3. \A b \in Browsers : session'[b] = session[b] \/ session'[b].user = thread[t].user
      BY <1>0, <1>3 DEF SendMail, Respond
    <2>4. \A b \in Browsers : session'[b].step # "none" =>
            \/ session'[b].user = session[b].user /\ session[b].step # "none"
            \/ session'[b].user \in Users /\ session'[b].user < serial'.user
      BY <1>0, <2>2, <2>3 DEF Users
    <2>5. QED
      BY <1>0, <2>1, <2>4, IssuedStay
  <1>4. CASE StartSignup(t) \/ StoreToken(t) \/ StartVerifyEmail(t) \/ DeleteToken(t)
             \/ StartSettings(t) \/ Crash(t)
    <2>1. users' = users /\ session' = session
      BY <1>4 DEF StartSignup, StoreToken, StartVerifyEmail, DeleteToken, StartSettings, Crash
    <2>2. QED
      BY <1>0, <2>1, IssuedStay
  <1>5. QED
    BY <1>1, <1>2, <1>3, <1>4 DEF Step

LEMMA IssuedElsewhere ==
  ASSUME TypeInvariant,
         \/ \E b \in Browsers : DeleteAccount(b) \/ Login(b) \/ CompleteLogin(b) \/ Logout(b)
         \/ \E u \in Users : SwitchActive(u)
         \/ UNCHANGED vars
  PROVE  UsersIssued'
  <1> TypeOK /\ UsersIssued
    BY DEF TypeInvariant
  <1>0. /\ users \in [Users -> User] /\ session \in [Browsers -> Session]
        /\ serial.user \in Nat /\ serial'.user = serial.user
        /\ NoUser.name = 0 /\ Anonymous.step = "none"
    BY FieldTypes, ThreadsRest DEF TypeOK, NoUser, Anonymous
  <1>1. ASSUME NEW b \in Browsers, DeleteAccount(b)
        PROVE  UsersIssued'
    <2>1. /\ users' = [users EXCEPT ![session[b].user] = NoUser]
          /\ session' = [session EXCEPT ![b] = Anonymous]
      BY <1>1 DEF DeleteAccount
    <2>2. /\ \A u \in Users : users'[u] = users[u] \/ users'[u].name = 0
          /\ \A c \in Browsers : session'[c] = session[c] \/ session'[c].step = "none"
      BY <1>0, <2>1
    <2>3. QED
      BY <1>0, <2>2, IssuedStay
  <1>2. ASSUME NEW b \in Browsers, Login(b)
        PROVE  UsersIssued'
    <2>1. PICK u \in Users : Exists(u) /\ \E password \in 1..(serial.password - 1) :
             session' = [session EXCEPT ![b] =
               [user |-> u, step |-> "pending", password |-> 0, proved |-> password]]
      BY <1>2 DEF Login
    <2>2. u < serial.user /\ users' = users
      BY <1>2, <2>1 DEF UsersIssued, Login
    <2>3. \A c \in Browsers : session'[c] = session[c] \/ session'[c].user = u
      BY <1>0, <2>1
    <2>4. QED
      BY <1>0, <2>2, <2>3, IssuedStay
  <1>3. ASSUME NEW b \in Browsers, CompleteLogin(b)
        PROVE  UsersIssued'
    <2>1. /\ users' = users /\ session[b].step # "none"
          /\ session' = [session EXCEPT ![b].step = "signed",
                                        ![b].password = users[session[b].user].password]
      BY <1>3 DEF CompleteLogin
    <2>2. ASSUME NEW c \in Browsers
          PROVE  session'[c] = session[c] \/ (session'[c].user = session[c].user /\ c = b)
      <3>1. session[c] \in Session
        BY <1>0
      <3>2. QED
        BY <1>0, <2>1, <3>1 DEF Session
    <2>3. QED
      BY <1>0, <2>1, <2>2, IssuedStay
  <1>4. ASSUME NEW b \in Browsers, Logout(b)
        PROVE  UsersIssued'
    BY <1>0, <1>4, IssuedStay DEF Logout
  <1>5. ASSUME NEW u \in Users, SwitchActive(u)
        PROVE  UsersIssued'
    <2>1. ASSUME NEW v \in Users
          PROVE  users'[v] = users[v] \/ users'[v].name = users[v].name
      <3>1. users[v] \in User /\ users' = [users EXCEPT ![u].is_active = ~@]
        BY <1>0, <1>5 DEF SwitchActive
      <3>2. QED
        BY <1>0, <3>1 DEF User
    <2>2. session' = session
      BY <1>5 DEF SwitchActive
    <2>3. \A v \in Users : users'[v] = users[v] \/ v < serial'.user \/ users'[v].name = 0
      BY <1>0, <2>1 DEF UsersIssued, Exists
    <2>4. QED
      BY <1>0, <2>2, <2>3, IssuedStay
  <1>6. CASE UNCHANGED vars
    BY <1>0, <1>6, IssuedStay DEF vars
  <1>7. QED
    BY <1>1, <1>2, <1>3, <1>4, <1>5, <1>6
-----------------------------------------------------------------------------
LEMMA TypeInvariantInductive == TypeInvariant /\ [Next]_vars => TypeInvariant'
  <1> SUFFICES ASSUME TypeInvariant, [Next]_vars
               PROVE  TypeInvariant'
    OBVIOUS
  <1> TypeOK /\ RequestsKnown /\ UsersIssued /\ RoomKept
    BY DEF TypeInvariant
  <1>1. ASSUME NEW t \in Threads, Step(t)
        PROVE  TypeInvariant'
    <2>1. TypeOK'
      BY <1>1, SignupKeepsTypes, RequestsKeepTypes DEF Step
    <2>2. ASSUME NEW v \in Threads
          PROVE  Known(v)'
      <3>1. CASE v = t
        BY <1>1, <3>1, KnownNext
      <3>2. CASE v # t
        BY <1>1, <3>2, OtherThreads, SerialGrows, KnownStays DEF RequestsKnown
      <3>3. QED
        BY <3>1, <3>2
    <2>3. QED
      BY <1>1, <2>1, <2>2, IssuedNext, RoomStays DEF TypeInvariant, RequestsKnown
  <1>2. CASE \/ \E b \in Browsers :
                  DeleteAccount(b) \/ Login(b) \/ CompleteLogin(b) \/ Logout(b)
             \/ \E u \in Users : SwitchActive(u)
             \/ UNCHANGED vars
    <2>1. TypeOK'
      <3>1. CASE UNCHANGED vars
        BY <3>1 DEF TypeOK, vars, Exists
      <3>2. QED
        BY <1>2, <3>1, SessionsKeepTypes, SwitchKeepsTypes
    <2>2. thread' = thread /\ serial'.user = serial.user /\ serial'.password = serial.password
      BY <1>2, ThreadsRest
    <2>3. RequestsKnown' /\ RoomKept'
      BY <2>2 DEF RequestsKnown, Known, AboutUser, Users, RoomKept, Creating, Choosing
    <2>4. QED
      BY <1>2, <2>1, <2>3, IssuedElsewhere DEF TypeInvariant
  <1>3. QED
    BY <1>1, <1>2 DEF Next

LEMMA TypeInvariantInitially == Init => TypeInvariant
  <1> SUFFICES ASSUME Init
               PROVE  TypeInvariant
    OBVIOUS
  <1>1. TypeOK
    BY InitialRecords, BoundsAssumption DEF Init, TypeOK, GhostState
  <1>2. RequestsKnown /\ UsersIssued
    BY NoneAssumption
       DEF Init, RequestsKnown, Known, UsersIssued, Idle, AboutUser, Exists, NoUser, Anonymous
  <1>3. RoomKept
    <2>1. Creating = {} /\ Choosing = {}
      BY DEF Init, Idle, Creating, Choosing
    <2>2. QED
      BY <2>1, FS_EmptySet, BoundsAssumption DEF Init, RoomKept
  <1>4. QED
    BY <1>1, <1>2, <1>3 DEF TypeInvariant

LEMMA TypeInvariantAlways == Spec => []TypeInvariant
  <1>1. QED
    BY TypeInvariantInitially, TypeInvariantInductive, PTL DEF Spec

\* Users, sessions, tokens and requests keep their types, and every verification
\* token has its user, whatever signups, deletions and deaths of workers overlap.
THEOREM AccountTypeCorrect == Spec => []TypeOK
  <1>1. TypeInvariant => TypeOK
    BY DEF TypeInvariant
  <1>2. QED
    BY <1>1, TypeInvariantAlways, PTL
-----------------------------------------------------------------------------
\* The records that users, wanted rows and the history are.
LEMMA Rows ==
  ASSUME TypeOK
  PROVE  /\ users \in [Users -> User] /\ ghost \in GhostState /\ thread \in [Threads -> ThreadState]
         /\ ghost.wanted \in [Users -> User]
  BY DEF TypeOK, GhostState

\* A request that has neither a row to save nor changed one leaves the rows as wanted.
LEMMA RowsRest ==
  ASSUME RowInvariant, NEW t \in Threads, users' = users, ghost'.wanted = ghost.wanted,
         ghost.overlap \subseteq ghost'.overlap,
         \A v \in Threads : v # t => thread'[v] = thread[v],
         \A u \in Users : ~Holds(t, u)'
  PROVE  RowInvariant'
  BY DEF RowInvariant, RowsAsWanted, CopiesTrue, Holds

\* Loading: the copy is the row; who holds one already puts the user in overlap.
LEMMA RowsLoaded ==
  ASSUME TypeOK, RowInvariant, NEW t \in Threads, NEW op, NEW pc, NEW b, NEW u \in Users,
         Load(t, op, pc, b, u), users' = users
  PROVE  RowInvariant'
  <1>1. thread' = [thread EXCEPT ![t] = [Idle EXCEPT !.op = op, !.pc = pc, !.browser = b,
                                                     !.user = u, !.row = users[u]]]
    BY DEF Load
  <1>2. /\ \A v \in Threads : v # t => thread'[v] = thread[v]
        /\ thread'[t].user = u /\ thread'[t].row = users[u]
    BY <1>1, Rows DEF Idle
  <1>3. /\ ghost'.wanted = ghost.wanted /\ ghost'.overlap = Loaded(t, u)
    BY Rows DEF Load, GhostState
  <1>4. /\ ghost.overlap \subseteq ghost'.overlap
        /\ \A v \in Threads \ {t} : Holds(v, u) => u \in ghost'.overlap
    BY <1>3 DEF Loaded
  <1>5. \A v \in Threads \ {t}, w \in Users : Holds(v, w)' <=> Holds(v, w)
    BY <1>2 DEF Holds
  <1>6. \A w \in Users : Holds(t, w)' => w = u
    BY <1>2 DEF Holds
  <1>7. ASSUME NEW v \in Threads, NEW w \in Users, Holds(v, w)', w \notin ghost'.overlap
        PROVE  thread'[v].row = users'[w] /\ \A x \in Threads : Holds(x, w)' => x = v
    <2>1. CASE v = t
      BY <1>2, <1>4, <1>5, <1>6, <1>7, <2>1
    <2>2. CASE v # t
      BY <1>2, <1>4, <1>5, <1>6, <1>7, <2>2 DEF RowInvariant, CopiesTrue
    <2>3. QED
      BY <2>1, <2>2
  <1>8. QED
    BY <1>3, <1>4, <1>7 DEF RowInvariant, RowsAsWanted, CopiesTrue

(***************************************************************************)
(* Saving: the copy was the row, which therefore becomes what its writer   *)
(* wants; whoever else holds a copy is in overlap already.                 *)
(***************************************************************************)
LEMMA RowsSaved ==
  ASSUME TypeOK, RowInvariant, NEW t \in Threads, Holds(t, thread[t].user),
         thread[t].user \in Users,
         NEW row, NEW g, NEW next \in {"token", "delete_token", "respond"},
         SaveUser(t, row, next, g),
         g.overlap = ghost.overlap,
         \A u \in Users : u # thread[t].user => g.wanted[u] = ghost.wanted[u],
         thread[t].row = ghost.wanted[thread[t].user] => row = g.wanted[thread[t].user]
  PROVE  RowInvariant'
  <1> DEFINE u == thread[t].user
  <1>0. thread[t] \in ThreadState
    BY Rows
  <1>1. CASE NameTaken(u, row)
    <2>1. users' = users /\ ghost' = ghost /\ thread' = [thread EXCEPT ![t] = Idle]
      BY <1>1 DEF SaveUser, Finish
    <2>2. thread'[t] = Idle /\ \A v \in Threads : v # t => thread'[v] = thread[v]
      BY <2>1, Rows
    <2>3. QED
      BY <2>1, <2>2, RowsRest DEF Holds, Idle
  <1>2. CASE ~NameTaken(u, row)
    <2>1. /\ users' = [users EXCEPT ![u] = row] /\ ghost' = g
          /\ thread' = [thread EXCEPT ![t].row = row, ![t].pc = next]
      BY <1>2 DEF SaveUser
    <2>2. /\ \A v \in Threads : v # t => thread'[v] = thread[v]
          /\ thread'[t].pc = next
          /\ users'[u] = row /\ \A w \in Users : w # u => users'[w] = users[w]
      BY <1>0, <2>1, Rows DEF ThreadState
    <2>3. \A w \in Users : ~Holds(t, w)'
      BY <2>2 DEF Holds
    <2>4. \A v \in Threads \ {t}, w \in Users : Holds(v, w)' <=> Holds(v, w)
      BY <2>2 DEF Holds
    <2>5. \A v \in Threads \ {t} : Holds(v, u) => u \in ghost.overlap
      BY DEF RowInvariant, CopiesTrue
    <2>6. users'[u] = ghost'.wanted[u] \/ u \in ghost'.overlap
      BY <2>1, <2>2 DEF RowInvariant, RowsAsWanted, CopiesTrue
    <2>7. RowsAsWanted'
      BY <2>1, <2>2, <2>6 DEF RowInvariant, RowsAsWanted
    <2>8. CopiesTrue'
      <3>1. ASSUME NEW v \in Threads, NEW w \in Users, Holds(v, w)', w \notin ghost'.overlap
            PROVE  thread'[v].row = users'[w] /\ \A x \in Threads : Holds(x, w)' => x = v
        <4>1. v # t /\ Holds(v, w) /\ w \notin ghost.overlap
          BY <2>1, <2>3, <2>4, <3>1
        <4>2. w # u
          BY <2>5, <4>1
        <4>3. thread[v].row = users[w] /\ \A x \in Threads : Holds(x, w) => x = v
          BY <4>1 DEF RowInvariant, CopiesTrue
        <4>4. QED
          BY <2>2, <2>3, <2>4, <4>1, <4>2, <4>3
      <3>2. QED
        BY <3>1 DEF CopiesTrue
    <2>9. QED
      BY <2>7, <2>8 DEF RowInvariant
  <1>3. QED
    BY <1>1, <1>2

LEMMA RowsInductive ==
  ASSUME TypeInvariant, RowInvariant, NEW t \in Threads, Step(t)
  PROVE  RowInvariant'
  <1> TypeOK /\ UsersIssued /\ RequestsKnown /\ Known(t)
    BY DEF TypeInvariant, RequestsKnown
  <1>0. /\ \A v \in Threads : v # t => thread'[v] = thread[v]
        /\ thread[t] \in ThreadState /\ thread \in [Threads -> ThreadState]
    BY OtherThreads, Rows
  <1>1. CASE StartSignup(t)
    <2>1. thread'[t].pc = "create_user"
      BY <1>1, Destinations DEF Begins
    <2>2. /\ users' = users /\ ghost'.wanted = ghost.wanted /\ ghost'.overlap = ghost.overlap
      BY <1>1, Rows DEF StartSignup, GhostState
    <2>3. QED
      BY <1>0, <2>1, <2>2, RowsRest DEF Holds
  <1>2. CASE CreateUser(t)
    <2>1. CASE users' = users /\ ghost' = ghost /\ thread'[t] = Idle
      BY <1>0, <2>1, RowsRest DEF Holds, Idle
    <2>2. CASE ~(users' = users /\ ghost' = ghost /\ thread'[t] = Idle)
      <3> DEFINE row == [thread[t].row EXCEPT !.password = serial.password]
                 u == serial.user
      <3>1. /\ users' = [users EXCEPT ![u] = row]
            /\ thread' = [thread EXCEPT ![t].user = u, ![t].row = row, ![t].pc = "save_terms"]
            /\ ghost' = [ghost EXCEPT !.wanted[u] = row]
        BY <1>0, <1>2, <2>2 DEF CreateUser, Finish
      <3> HIDE DEF row
      <3>2. /\ thread'[t].user = u /\ thread'[t].row = row /\ thread'[t].pc = "save_terms"
            /\ ghost'.overlap = ghost.overlap
        BY <1>0, <3>1, Rows DEF ThreadState, GhostState
      <3>3. u \in Users /\ \A w \in Users : Holds(t, w)' => w = u
        BY <1>2, <3>2, RoomToTake DEF CreateUser, Creating, Holds
      <3>4. /\ users'[u] = row /\ ghost'.wanted[u] = row
            /\ \A w \in Users : w # u => users'[w] = users[w] /\ ghost'.wanted[w] = ghost.wanted[w]
        BY <3>1, <3>3, Rows DEF GhostState
      <3>5. \A v \in Threads \ {t} : ~Holds(v, u)
        <4>1. ASSUME NEW v \in Threads, Holds(v, u) PROVE FALSE
          <5>1. Known(v) /\ thread[v].pc \in AboutUser /\ thread[v].user = u
            BY <4>1 DEF RequestsKnown, Holds, AboutUser
          <5>2. u < serial.user
            BY <5>1 DEF Known
          <5>3. QED
            BY <5>2, FieldTypes
        <4>2. QED
          BY <4>1
      <3>6. \A v \in Threads \ {t}, w \in Users : Holds(v, w)' <=> Holds(v, w)
        BY <1>0 DEF Holds
      <3>7. RowsAsWanted'
        BY <3>2, <3>4 DEF RowInvariant, RowsAsWanted
      <3>8. ASSUME NEW v \in Threads, NEW w \in Users, Holds(v, w)', w \notin ghost'.overlap
            PROVE  thread'[v].row = users'[w] /\ \A x \in Threads : Holds(x, w)' => x = v
        <4>1. CASE v = t
          BY <3>2, <3>3, <3>4, <3>5, <3>6, <3>8, <4>1
        <4>2. CASE v # t
          <5>1. Holds(v, w) /\ w \notin ghost.overlap /\ w # u
            BY <3>2, <3>5, <3>6, <3>8, <4>2
          <5>2. thread[v].row = users[w] /\ \A x \in Threads : Holds(x, w) => x = v
            BY <5>1 DEF RowInvariant, CopiesTrue
          <5>3. QED
            BY <1>0, <3>3, <3>4, <3>6, <4>2, <5>1, <5>2
        <4>3. QED
          BY <4>1, <4>2
      <3>9. QED
        BY <3>7, <3>8 DEF RowInvariant, CopiesTrue
    <2>3. QED
      BY <2>1, <2>2
  <1>3. CASE SaveTerms(t)
    <2>1. /\ SaveUser(t, thread[t].row, "token", ghost) /\ Holds(t, thread[t].user)
          /\ thread[t].user \in Users
      BY <1>3 DEF SaveTerms, Holds, Known, AboutUser
    <2> DEFINE row == thread[t].row
    <2>2. \A u \in Users : u # thread[t].user => ghost.wanted[u] = ghost.wanted[u]
      OBVIOUS
    <2>3. row = ghost.wanted[thread[t].user] => row = ghost.wanted[thread[t].user]
      OBVIOUS
    <2>4. QED
      BY <2>1, RowsSaved
  <1>4. CASE SaveVerified(t)
    <2> DEFINE u == thread[t].user
               row == [thread[t].row EXCEPT !.email_verified = TRUE]
               g == [ghost EXCEPT !.wanted[u].email_verified = TRUE]
    <2>1. SaveUser(t, row, "delete_token", g) /\ Holds(t, u) /\ u \in Users
      BY <1>4 DEF SaveVerified, Holds, Known, AboutUser
    <2>2. /\ g.overlap = ghost.overlap
          /\ \A w \in Users : w # u => g.wanted[w] = ghost.wanted[w]
          /\ thread[t].row = ghost.wanted[u] => row = g.wanted[u]
      BY <2>1, Rows DEF GhostState
    <2> HIDE DEF row, g
    <2>3. QED
      BY <2>1, <2>2, RowsSaved
  <1>5. CASE SavePassword(t)
    <2> DEFINE u == thread[t].user
               row == [thread[t].row EXCEPT !.password = serial.password]
               late == {b \in Browsers : session[b].user = u /\ session[b].step = "pending"}
               g == [ghost EXCEPT !.wanted[u] = [@ EXCEPT !.password = serial.password],
                                  !.carried = @ \cup late]
    <2>1. SaveUser(t, row, "respond", g) /\ Holds(t, u) /\ u \in Users
      BY <1>5 DEF SavePassword, Holds, Known, AboutUser
    <2>2. /\ g.overlap = ghost.overlap
          /\ \A w \in Users : w # u => g.wanted[w] = ghost.wanted[w]
          /\ thread[t].row = ghost.wanted[u] => row = g.wanted[u]
      BY <2>1, Rows DEF GhostState
    <2> HIDE DEF row, g
    <2>3. QED
      BY <2>1, <2>2, RowsSaved
  <1>6. CASE StartVerifyEmail(t)
    <2>1. PICK u \in mailed : Load(t, "verify_email", "save_verified", NoBrowser, u)
      BY <1>6 DEF StartVerifyEmail
    <2>2. u \in Users /\ users' = users
      BY <1>6 DEF TypeOK, StartVerifyEmail
    <2>3. QED
      BY <2>1, <2>2, RowsLoaded
  <1>7. CASE StartSettings(t)
    <2>1. PICK b \in Browsers :
             SignedIn(b) /\ Load(t, "settings", "save_password", b, session[b].user)
      BY <1>7 DEF StartSettings
    <2>2. session[b].user \in Users /\ users' = users
      BY <1>7, <2>1 DEF SignedIn, UsersIssued, StartSettings
    <2>3. QED
      BY <2>1, <2>2, RowsLoaded
  <1>8. CASE StoreToken(t) \/ SendMail(t) \/ DeleteToken(t) \/ Respond(t) \/ Crash(t)
    <2>1. users' = users /\ ghost'.wanted = ghost.wanted /\ ghost'.overlap = ghost.overlap
      BY <1>8, Rows DEF StoreToken, SendMail, DeleteToken, Respond, Crash, GhostState
    <2>2. thread'[t].pc \in {"idle", "send_mail"}
      BY <1>0, <1>8
         DEF StoreToken, SendMail, DeleteToken, Respond, Crash, Goto, Finish, Idle, ThreadState
    <2>3. QED
      BY <1>0, <2>1, <2>2, RowsRest DEF Holds
  <1>9. QED
    BY <1>1, <1>2, <1>3, <1>4, <1>5, <1>6, <1>7, <1>8 DEF Step

LEMMA RowsElsewhere ==
  ASSUME TypeInvariant, RowInvariant,
         \/ \E b \in Browsers : DeleteAccount(b) \/ Login(b) \/ CompleteLogin(b) \/ Logout(b)
         \/ \E u \in Users : SwitchActive(u)
         \/ UNCHANGED vars
  PROVE  RowInvariant'
  <1> TypeOK /\ UsersIssued
    BY DEF TypeInvariant
  <1>1. ASSUME NEW u \in Users,
               users'[u] = ghost'.wanted[u], thread' = thread,
               \A v \in Users : v # u => users'[v] = users[v] /\ ghost'.wanted[v] = ghost.wanted[v],
               ghost.overlap \subseteq ghost'.overlap,
               \A t \in Threads : Holds(t, u) => u \in ghost'.overlap
        PROVE  RowInvariant'
    BY <1>1 DEF RowInvariant, RowsAsWanted, CopiesTrue, Holds
  <1>2. ASSUME NEW b \in Browsers, DeleteAccount(b)
        PROVE  RowInvariant'
    <2> DEFINE u == session[b].user
    <2>1. u \in Users
      BY <1>2 DEF DeleteAccount, SignedIn, UsersIssued
    <2>2. /\ users'[u] = ghost'.wanted[u] /\ thread' = thread
          /\ \A v \in Users : v # u => users'[v] = users[v] /\ ghost'.wanted[v] = ghost.wanted[v]
      BY <1>2, <2>1, Rows DEF DeleteAccount, GhostState
    <2>3. /\ ghost.overlap \subseteq ghost'.overlap
          /\ \A t \in Threads : Holds(t, u) => u \in ghost'.overlap
      BY <1>2, Rows DEF DeleteAccount, GhostState
    <2> HIDE DEF u
    <2>4. QED
      BY <1>1, <2>1, <2>2, <2>3
  <1>3. ASSUME NEW b \in Browsers, Login(b) \/ CompleteLogin(b) \/ Logout(b)
        PROVE  RowInvariant'
    <2>1. /\ users' = users /\ thread' = thread
          /\ ghost'.wanted = ghost.wanted /\ ghost'.overlap = ghost.overlap
      BY <1>3, Rows DEF Login, CompleteLogin, Logout, GhostState
    <2>2. QED
      BY <2>1 DEF RowInvariant, RowsAsWanted, CopiesTrue, Holds
  <1>4. ASSUME NEW u \in Users, SwitchActive(u)
        PROVE  RowInvariant'
    <2>1. /\ users' = [users EXCEPT ![u].is_active = ~@] /\ thread' = thread
          /\ ghost' = [ghost EXCEPT !.wanted[u].is_active = ~users[u].is_active,
                !.overlap = IF \E t \in Threads : Holds(t, u) THEN @ \cup {u} ELSE @]
      BY <1>4 DEF SwitchActive
    <2>2. /\ \A v \in Users : v # u => users'[v] = users[v] /\ ghost'.wanted[v] = ghost.wanted[v]
          /\ users[u] = ghost.wanted[u] => users'[u] = ghost'.wanted[u]
          /\ ghost.overlap \subseteq ghost'.overlap
          /\ \A t \in Threads : Holds(t, u) => u \in ghost'.overlap
      BY <2>1, Rows DEF GhostState
    <2>3. QED
      BY <2>1, <2>2 DEF RowInvariant, RowsAsWanted, CopiesTrue, Holds
  <1>5. CASE UNCHANGED vars
    BY <1>5 DEF vars, RowInvariant, RowsAsWanted, CopiesTrue, Holds
  <1>6. QED
    BY <1>2, <1>3, <1>4, <1>5

\* No saved password, verified email, deactivation or deletion is lost, except to
\* a request that had loaded the row before and saves its copy of it.
THEOREM ChangesStand == Spec => []RowsAsWanted
  <1>1. Init => RowInvariant
    BY DEF Init, RowInvariant, RowsAsWanted, CopiesTrue, Holds, Idle
  <1>2. TypeInvariant /\ RowInvariant /\ [Next]_vars => RowInvariant'
    BY RowsInductive, RowsElsewhere DEF Next
  <1>3. RowInvariant => RowsAsWanted
    BY DEF RowInvariant
  <1>4. QED
    BY <1>1, <1>2, <1>3, TypeInvariantAlways, PTL DEF Spec
-----------------------------------------------------------------------------
\* A row is only ever written over one that exists, or for a user in overlap, or new.
LEMMA RowsAppear ==
  ASSUME TypeInvariant, RowInvariant, [Next]_vars
  PROVE  /\ ghost.overlap \subseteq ghost'.overlap /\ (ghost.rivals => ghost'.rivals)
         /\ \A u \in Users :
              Exists(u)' => \/ Exists(u) \/ u \in ghost'.overlap
                            \/ u = serial.user /\ \E t \in Threads : CreateUser(t)
  <1> TypeOK /\ UsersIssued /\ RequestsKnown
    BY DEF TypeInvariant
  <1> USE Rows
  <1>1. ASSUME NEW t \in Threads, CreateUser(t)
        PROVE  /\ ghost.overlap \subseteq ghost'.overlap /\ (ghost.rivals => ghost'.rivals)
               /\ \A u \in Users : Exists(u)' => Exists(u) \/ u = serial.user
    BY <1>1 DEF CreateUser, Exists, GhostState
  <1>2. ASSUME NEW t \in Threads, SaveTerms(t) \/ SaveVerified(t) \/ SavePassword(t)
        PROVE  /\ ghost.overlap \subseteq ghost'.overlap /\ (ghost.rivals => ghost'.rivals)
               /\ \A u \in Users : Exists(u)' => Exists(u) \/ u \in ghost'.overlap
    <2>1. Holds(t, thread[t].user) /\ thread[t].user \in Users /\ thread[t].row.name # 0
      BY <1>2 DEF SaveTerms, SaveVerified, SavePassword, Holds, RequestsKnown, Known, AboutUser
    <2>2. Exists(thread[t].user) \/ thread[t].user \in ghost.overlap
      BY <2>1 DEF RowInvariant, CopiesTrue, Exists
    <2>3. PICK row, next, g : SaveUser(t, row, next, g) /\ g.overlap = ghost.overlap
                              /\ g.rivals = ghost.rivals
      <3>1. CASE SaveTerms(t)
        BY <3>1 DEF SaveTerms
      <3>2. CASE SaveVerified(t)
        <4> DEFINE row == [thread[t].row EXCEPT !.email_verified = TRUE]
                   g == [ghost EXCEPT !.wanted[thread[t].user].email_verified = TRUE]
        <4>1. SaveUser(t, row, "delete_token", g)
          BY <3>2 DEF SaveVerified
        <4>2. g.overlap = ghost.overlap /\ g.rivals = ghost.rivals
          BY DEF GhostState
        <4> HIDE DEF row, g
        <4>3. QED
          BY <4>1, <4>2
      <3>3. CASE SavePassword(t)
        <4> DEFINE u == thread[t].user
                   row == [thread[t].row EXCEPT !.password = serial.password]
                   g == [ghost EXCEPT !.wanted[u] = [@ EXCEPT !.password = serial.password],
                                      !.carried = @ \cup {b \in Browsers : session[b].user = u
                                                            /\ session[b].step = "pending"}]
        <4>1. SaveUser(t, row, "respond", g)
          BY <3>3 DEF SavePassword
        <4>2. g.overlap = ghost.overlap /\ g.rivals = ghost.rivals
          BY DEF GhostState
        <4> HIDE DEF row, g
        <4>3. QED
          BY <4>1, <4>2
      <3>4. QED
        BY <1>2, <3>1, <3>2, <3>3
    <2>4. \A u \in Users : users'[u] = users[u] \/ u = thread[t].user
      BY <2>3 DEF SaveUser
    <2>5. ghost'.overlap = ghost.overlap /\ ghost'.rivals = ghost.rivals
      BY <2>3 DEF SaveUser
    <2>6. QED
      BY <2>2, <2>4, <2>5 DEF Exists
  <1>3. ASSUME NEW t \in Threads,
               \/ StartSignup(t) \/ StoreToken(t) \/ SendMail(t) \/ DeleteToken(t) \/ Respond(t)
               \/ Crash(t) \/ StartVerifyEmail(t) \/ StartSettings(t)
        PROVE  /\ ghost.overlap \subseteq ghost'.overlap /\ (ghost.rivals => ghost'.rivals)
               /\ users' = users
    <2>1. CASE StartVerifyEmail(t) \/ StartSettings(t)
      <3>1. users' = users /\ \E op, pc, b, u : Load(t, op, pc, b, u)
        BY <2>1 DEF StartVerifyEmail, StartSettings
      <3>2. QED
        BY <3>1 DEF Load, Loaded, GhostState
    <2>2. CASE StartSignup(t)
      BY <2>2 DEF StartSignup, GhostState
    <2>3. CASE StoreToken(t) \/ SendMail(t) \/ DeleteToken(t) \/ Respond(t) \/ Crash(t)
      BY <2>3 DEF StoreToken, SendMail, DeleteToken, Respond, Crash, GhostState
    <2>4. QED
      BY <1>3, <2>1, <2>2, <2>3
  <1>4. ASSUME NEW b \in Browsers, DeleteAccount(b)
        PROVE  /\ ghost.overlap \subseteq ghost'.overlap /\ (ghost.rivals => ghost'.rivals)
               /\ \A u \in Users : Exists(u)' => Exists(u)
    BY <1>4 DEF DeleteAccount, Exists, NoUser, GhostState
  <1>5. ASSUME NEW b \in Browsers, Login(b) \/ CompleteLogin(b) \/ Logout(b)
        PROVE  ghost.overlap = ghost'.overlap /\ ghost.rivals = ghost'.rivals /\ users' = users
    BY <1>5 DEF Login, CompleteLogin, Logout, GhostState
  <1>6. ASSUME NEW u \in Users, SwitchActive(u)
        PROVE  /\ ghost.overlap \subseteq ghost'.overlap /\ (ghost.rivals => ghost'.rivals)
               /\ \A v \in Users : Exists(v)' => Exists(v)
    <2>1. users' = [users EXCEPT ![u].is_active = ~@] /\ users[u] \in User
      BY <1>6 DEF SwitchActive
    <2>2. \A v \in Users : users'[v].name = users[v].name
      BY <2>1 DEF User
    <2>3. QED
      BY <1>6, <2>2 DEF SwitchActive, Exists, GhostState
  <1>7. CASE UNCHANGED vars
    BY <1>7 DEF vars, Exists
  <1>8. ASSUME NEW t \in Threads, Step(t)
        PROVE  /\ ghost.overlap \subseteq ghost'.overlap /\ (ghost.rivals => ghost'.rivals)
               /\ \A u \in Users :
                    Exists(u)' => \/ Exists(u) \/ u \in ghost'.overlap
                                  \/ u = serial.user /\ CreateUser(t)
    <2>1. CASE CreateUser(t)
      BY <1>1, <2>1
    <2>2. CASE SaveTerms(t) \/ SaveVerified(t) \/ SavePassword(t)
      BY <1>2, <2>2
    <2>3. CASE \/ StartSignup(t) \/ StoreToken(t) \/ SendMail(t) \/ DeleteToken(t) \/ Respond(t)
               \/ Crash(t) \/ StartVerifyEmail(t) \/ StartSettings(t)
      BY <1>3, <2>3 DEF Exists
    <2>4. QED
      BY <1>8, <2>1, <2>2, <2>3 DEF Step
  <1>9. QED
    BY <1>4, <1>5, <1>6, <1>7, <1>8 DEF Next, Exists

LEMMA SignupsInductive ==
  ASSUME TypeInvariant, RowInvariant, SignupsAlone, NoTwins, [Next]_vars
  PROVE  SignupsAlone' /\ NoTwins'
  <1> TypeOK
    BY DEF TypeInvariant
  <1> USE RowsAppear
  <1>1. ASSUME NEW t \in Threads, CreateUser(t)
        PROVE  SignupsAlone' /\ NoTwins'
    <2>1. /\ t \in Creating /\ thread'[t].pc # "create_user"
          /\ \A v \in Threads : v # t => thread'[v] = thread[v]
      BY <1>1, Destinations, OtherThreads DEF Step
    <2>2. Creating' \subseteq Creating \ {t}
      BY <2>1 DEF Creating
    <2>3. \/ ghost'.rivals
          \/ Creating' = {} /\ \A u \in Users : Exists(u) => u \in ghost.overlap
      BY <2>1, <2>2 DEF SignupsAlone
    <2>4. QED
      BY <2>3 DEF SignupsAlone, NoTwins
  <1>2. ASSUME NEW t \in Threads, StartSignup(t)
        PROVE  SignupsAlone' /\ NoTwins'
    <2>1. /\ \A v \in Threads : v # t => thread'[v] = thread[v]
          /\ users' = users /\ \A u \in Users : ~Exists(u)
          /\ ghost'.rivals = (ghost.rivals \/ \E v \in Threads : thread[v].pc = "create_user")
      BY <1>2, OtherThreads, Rows DEF Step, StartSignup, GhostState
    <2>2. Creating' \subseteq Creating \cup {t} /\ (ghost'.rivals \/ Creating = {})
      BY <2>1 DEF Creating
    <2>3. QED
      BY <2>1, <2>2 DEF SignupsAlone, NoTwins, Exists
  <1>3. ASSUME Creating' \subseteq Creating, ~\E t \in Threads : CreateUser(t)
        PROVE  SignupsAlone' /\ NoTwins'
    BY <1>3 DEF SignupsAlone, NoTwins
  <1>4. ASSUME NEW t \in Threads, Step(t), ~StartSignup(t)
        PROVE  Creating' \subseteq Creating
    <2>1. thread'[t].pc # "create_user"
      BY <1>4, Destinations DEF Step, Begins, Elsewhere
    <2>2. QED
      BY <1>4, <2>1, OtherThreads DEF Creating
  <1>5. ASSUME ~\E t \in Threads : Step(t)
        PROVE  Creating' \subseteq Creating
    BY <1>5, ThreadsRest DEF Next, Creating
  <1>6. QED
    BY <1>1, <1>2, <1>3, <1>4, <1>5

\* Two signups in any spelling never give two accounts, unless they overlapped
\* between the look-up and the insertion, or a request brings a deleted one back.
THEOREM NamesStayUnique == Spec => []NoTwins
  <1>1. Init => RowInvariant /\ SignupsAlone /\ NoTwins
    BY DEF Init, RowInvariant, RowsAsWanted, CopiesTrue, Holds, Idle, SignupsAlone, NoTwins,
           Creating, Exists, NoUser
  <1>2. TypeInvariant /\ RowInvariant /\ SignupsAlone /\ NoTwins /\ [Next]_vars
          => RowInvariant' /\ SignupsAlone' /\ NoTwins'
    BY RowsInductive, RowsElsewhere, SignupsInductive DEF Next
  <1>3. QED
    BY <1>1, <1>2, TypeInvariantAlways, PTL DEF Spec
-----------------------------------------------------------------------------
\* A session that a step leaves alone: its user keeps the password, is gone, or is excused.
SessionTrue(b) ==
  \/ b \in ghost.carried \/ session[b].user \in ghost.overlap
  \/ /\ session[b].step = "signed" => session[b].password = session[b].proved
     /\ session[b].step = "pending" /\ Exists(session[b].user) =>
          session[b].proved = users[session[b].user].password

LEMMA SessionStays ==
  ASSUME NEW b \in Browsers, SessionTrue(b), session'[b] = session[b],
         ghost.overlap \subseteq ghost'.overlap, b \in ghost.carried => b \in ghost'.carried,
         session[b].step = "pending" =>
           \/ b \in ghost'.carried \/ session[b].user \in ghost'.overlap
           \/ users'[session[b].user].name = 0
           \/ users'[session[b].user] = users[session[b].user]
           \/ /\ Exists(session[b].user)
              /\ users'[session[b].user].password = users[session[b].user].password
  PROVE  SessionTrue(b)'
  BY DEF SessionTrue, Exists

LEMMA SessionsInductive ==
  ASSUME TypeInvariant, RowInvariant, SessionsTrue, NEW t \in Threads, Step(t)
  PROVE  SessionsTrue'
  <1> TypeOK /\ UsersIssued /\ RequestsKnown /\ Known(t)
    BY DEF TypeInvariant, RequestsKnown
  <1>0. /\ ghost.overlap \subseteq ghost'.overlap
        /\ \A b \in Browsers : SessionTrue(b)
        /\ session \in [Browsers -> Session]
    BY RowsAppear DEF Next, SessionsTrue, SessionTrue, TypeOK
  <1> SUFFICES ASSUME NEW b \in Browsers
               PROVE  SessionTrue(b)'
    BY DEF SessionsTrue, SessionTrue
  <1> USE Rows
  <1>1. CASE CreateUser(t)
    <2>1. session' = session /\ ghost'.carried = ghost.carried
      BY <1>1 DEF CreateUser, GhostState
    <2>2. \A u \in Users : u # serial.user => users'[u] = users[u]
      BY <1>1 DEF CreateUser
    <2>3. session[b].step = "pending" => session[b].user \in Users /\ session[b].user # serial.user
      BY FieldTypes DEF UsersIssued
    <2>4. QED
      BY <1>0, <2>1, <2>2, <2>3, SessionStays
  <1>2. CASE SaveTerms(t) \/ SaveVerified(t)
    <2> DEFINE u == thread[t].user
    <2>1. /\ session' = session /\ Holds(t, u) /\ u \in Users /\ thread[t].row.name # 0
          /\ thread[t].row \in User
      BY <1>2, FieldTypes DEF SaveTerms, SaveVerified, Holds, Known, AboutUser
    <2>2. u \in ghost.overlap \/ (users[u] = thread[t].row /\ Exists(u))
      BY <2>1 DEF RowInvariant, CopiesTrue, Exists
    <2>3. PICK row, next, g : /\ SaveUser(t, row, next, g) /\ g.carried = ghost.carried
                              /\ row.password = thread[t].row.password
      BY <1>2, <2>1 DEF SaveTerms, SaveVerified, GhostState, User
    <2>4. /\ ghost'.carried = ghost.carried
          /\ \A w \in Users : users'[w] = users[w]
               \/ (w = u /\ users'[w].password = thread[t].row.password)
      BY <2>1, <2>3 DEF SaveUser
    <2>5. session[b].step = "pending" => session[b].user \in Users
      BY DEF UsersIssued
    <2> HIDE DEF u
    <2>6. QED
      BY <1>0, <2>1, <2>2, <2>4, <2>5, SessionStays
  <1>3. CASE SavePassword(t)
    <2> DEFINE u == thread[t].user
               late == {c \in Browsers : session[c].user = u /\ session[c].step = "pending"}
    <2>1. session' = session
      BY <1>3 DEF SavePassword
    <2>2. PICK row, next, g : SaveUser(t, row, next, g) /\ g.carried = ghost.carried \cup late
      <3> DEFINE row == [thread[t].row EXCEPT !.password = serial.password]
                 g == [ghost EXCEPT !.wanted[u] = [@ EXCEPT !.password = serial.password],
                                    !.carried = @ \cup late]
      <3>1. SaveUser(t, row, "respond", g)
        BY <1>3 DEF SavePassword
      <3>2. g.carried = ghost.carried \cup late
        BY DEF GhostState
      <3> HIDE DEF row, g
      <3>3. QED
        BY <3>1, <3>2
    <2>3. \/ ghost' = ghost /\ users' = users
          \/ /\ ghost'.carried = ghost.carried \cup late
             /\ \A w \in Users : w # u => users'[w] = users[w]
      BY <2>2 DEF SaveUser
    <2>4. session[b].step = "pending" => session[b].user \in Users
      BY DEF UsersIssued
    <2>5. QED
      BY <1>0, <2>1, <2>3, <2>4, SessionStays
  <1>4. CASE SendMail(t)
    <2> DEFINE c == thread[t].browser
               u == thread[t].user
    <2>1. users' = users
      BY <1>4 DEF SendMail
    <2>2. CASE session' = session /\ ghost' = ghost
      BY <1>0, <2>1, <2>2, SessionStays
    <2>3. CASE ~(session' = session /\ ghost' = ghost)
      <3>1. /\ session' = [session EXCEPT ![c] = [user |-> u, step |-> "pending", password |-> 0,
                                                  proved |-> thread[t].row.password]]
            /\ ghost' = [ghost EXCEPT !.carried = IF users[u].password = thread[t].row.password
                                                    THEN @ \ {c} ELSE @ \cup {c}]
        BY <1>4, <2>3 DEF SendMail
      <3>2. CASE b = c
        BY <1>0, <2>1, <3>1, <3>2 DEF SessionTrue, GhostState
      <3>3. CASE b # c
        <4>1. session'[b] = session[b] /\ (b \in ghost.carried => b \in ghost'.carried)
          BY <1>0, <3>1, <3>3 DEF GhostState
        <4>2. QED
          BY <1>0, <2>1, <4>1, SessionStays
      <3>4. QED
        BY <3>2, <3>3
    <2>4. QED
      BY <2>2, <2>3
  <1>5. CASE Respond(t)
    <2> DEFINE c == thread[t].browser
    <2>1. /\ users' = users
          /\ session' = [session EXCEPT ![c] =
               [user |-> thread[t].user, step |-> "signed", password |-> thread[t].row.password,
                proved |-> thread[t].row.password]]
          /\ ghost' = [ghost EXCEPT !.carried = @ \ {c}]
      BY <1>5 DEF Respond
    <2>2. CASE b = c
      BY <1>0, <2>1, <2>2 DEF SessionTrue
    <2>3. CASE b # c
      <3>1. session'[b] = session[b] /\ (b \in ghost.carried => b \in ghost'.carried)
        BY <1>0, <2>1, <2>3 DEF GhostState
      <3>2. QED
        BY <1>0, <2>1, <3>1, SessionStays
    <2>4. QED
      BY <2>2, <2>3
  <1>6. CASE \/ StartSignup(t) \/ StoreToken(t) \/ StartVerifyEmail(t) \/ DeleteToken(t)
             \/ StartSettings(t) \/ Crash(t)
    <2>1. users' = users /\ session' = session /\ ghost'.carried = ghost.carried
      BY <1>6 DEF StartSignup, StoreToken, StartVerifyEmail, DeleteToken, StartSettings, Crash,
                  Load, GhostState
    <2>2. QED
      BY <1>0, <2>1, SessionStays
  <1>7. QED
    BY <1>1, <1>2, <1>3, <1>4, <1>5, <1>6 DEF Step

LEMMA SessionsElsewhere ==
  ASSUME TypeInvariant, RowInvariant, SessionsTrue,
         \/ \E b \in Browsers : DeleteAccount(b) \/ Login(b) \/ CompleteLogin(b) \/ Logout(b)
         \/ \E u \in Users : SwitchActive(u)
         \/ UNCHANGED vars
  PROVE  SessionsTrue'
  <1> TypeOK /\ UsersIssued
    BY DEF TypeInvariant
  <1>0. /\ ghost.overlap \subseteq ghost'.overlap
        /\ \A b \in Browsers : SessionTrue(b)
        /\ session \in [Browsers -> Session]
        /\ \A b \in Browsers : session[b] \in Session
    BY RowsAppear DEF Next, SessionsTrue, SessionTrue, TypeOK
  <1> SUFFICES ASSUME NEW b \in Browsers
               PROVE  SessionTrue(b)'
    BY DEF SessionsTrue, SessionTrue
  <1> USE Rows
  <1>1. session[b].step = "pending" => session[b].user \in Users
    BY DEF UsersIssued
  <1>2. ASSUME NEW c \in Browsers, DeleteAccount(c)
        PROVE  SessionTrue(b)'
    <2> DEFINE u == session[c].user
    <2>1. /\ users' = [users EXCEPT ![u] = NoUser] /\ session' = [session EXCEPT ![c] = Anonymous]
          /\ ghost'.carried = ghost.carried \ {c}
      BY <1>2 DEF DeleteAccount, GhostState
    <2>2. CASE b = c
      BY <1>0, <2>1, <2>2 DEF SessionTrue, Anonymous
    <2>3. CASE b # c
      <3>1. session'[b] = session[b] /\ (b \in ghost.carried => b \in ghost'.carried)
        BY <1>0, <2>1, <2>3
      <3>2. \A w \in Users : users'[w] = users[w] \/ users'[w].name = 0
        BY <2>1 DEF NoUser
      <3>3. QED
        BY <1>0, <1>1, <3>1, <3>2, SessionStays
    <2>4. QED
      BY <2>2, <2>3
  <1>3. ASSUME NEW c \in Browsers, Login(c)
        PROVE  SessionTrue(b)'
    <2>1. PICK u \in Users, password \in 1..(serial.password - 1) :
            /\ users[u].password = password
            /\ session' = [session EXCEPT ![c] =
                 [user |-> u, step |-> "pending", password |-> 0, proved |-> password]]
            /\ ghost' = [ghost EXCEPT !.carried = @ \ {c}]
            /\ users' = users
      BY <1>3 DEF Login
    <2>2. CASE b = c
      BY <1>0, <2>1, <2>2 DEF SessionTrue
    <2>3. CASE b # c
      <3>1. session'[b] = session[b] /\ (b \in ghost.carried => b \in ghost'.carried)
        BY <1>0, <2>1, <2>3 DEF GhostState
      <3>2. QED
        BY <1>0, <2>1, <3>1, SessionStays
    <2>4. QED
      BY <2>2, <2>3
  <1>4. ASSUME NEW c \in Browsers, CompleteLogin(c)
        PROVE  SessionTrue(b)'
    <2>1. /\ session[c].step = "pending" /\ Exists(session[c].user)
          /\ session' = [session EXCEPT ![c].step = "signed",
                                        ![c].password = users[session[c].user].password]
          /\ ghost' = ghost /\ users' = users
      BY <1>4 DEF CompleteLogin
    <2>2. CASE b = c
      <3>1. /\ session'[b].step = "signed" /\ session'[b].user = session[b].user
            /\ session'[b].password = users[session[b].user].password
            /\ session'[b].proved = session[b].proved
        BY <1>0, <2>1, <2>2 DEF Session
      <3>2. QED
        BY <1>0, <2>1, <2>2, <3>1 DEF SessionTrue
    <2>3. CASE b # c
      BY <1>0, <2>1, <2>3, SessionStays
    <2>4. QED
      BY <2>2, <2>3
  <1>5. ASSUME NEW c \in Browsers, Logout(c)
        PROVE  SessionTrue(b)'
    <2>1. /\ session' = [session EXCEPT ![c] = Anonymous] /\ users' = users
          /\ ghost' = [ghost EXCEPT !.carried = @ \ {c}]
      BY <1>5 DEF Logout
    <2>2. CASE b = c
      BY <1>0, <2>1, <2>2 DEF SessionTrue, Anonymous
    <2>3. CASE b # c
      <3>1. session'[b] = session[b] /\ (b \in ghost.carried => b \in ghost'.carried)
        BY <1>0, <2>1, <2>3 DEF GhostState
      <3>2. QED
        BY <1>0, <2>1, <3>1, SessionStays
    <2>4. QED
      BY <2>2, <2>3
  <1>6. ASSUME NEW u \in Users, SwitchActive(u)
        PROVE  SessionTrue(b)'
    <2>1. /\ users' = [users EXCEPT ![u].is_active = ~@] /\ users[u] \in User /\ Exists(u)
          /\ session' = session /\ ghost'.carried = ghost.carried
      BY <1>6 DEF SwitchActive, GhostState
    <2>2. \A v \in Users : \/ users'[v] = users[v]
                           \/ Exists(v) /\ users'[v].password = users[v].password
      BY <2>1 DEF User
    <2>3. QED
      BY <1>0, <1>1, <2>1, <2>2, SessionStays
  <1>7. CASE UNCHANGED vars
    BY <1>0, <1>7, SessionStays DEF vars
  <1>8. QED
    BY <1>2, <1>3, <1>4, <1>5, <1>6, <1>7

\* Whoever is signed in has typed the password the account has now, or is between the
\* two steps of a sign-in when it changes, or a stale copy of the row brought it back.
THEOREM SignInsStayCurrent == Spec => []SignInsCurrent
  <1>1. Init => RowInvariant /\ SessionsTrue
    BY DEF Init, RowInvariant, RowsAsWanted, CopiesTrue, Holds, Idle, SessionsTrue, Anonymous
  <1>2. TypeInvariant /\ RowInvariant /\ SessionsTrue /\ [Next]_vars
          => RowInvariant' /\ SessionsTrue'
    BY RowsInductive, RowsElsewhere, SessionsInductive, SessionsElsewhere DEF Next
  <1>3. SessionsTrue => SignInsCurrent
    BY DEF SessionsTrue, SignInsCurrent, SignedIn
  <1>4. QED
    BY <1>1, <1>2, <1>3, TypeInvariantAlways, PTL DEF Spec
=============================================================================
