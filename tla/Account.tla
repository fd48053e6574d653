------------------------------- MODULE Account -------------------------------
(***************************************************************************)
(* User rows and who is signed in to them: accounts/views.py without the   *)
(* second factor's devices, which are Mfa's.                               *)
(*                                                                         *)
(* Every view that changes a user loads the row, sets a field of its copy  *)
(* and saves the whole copy; nothing is locked in between.  All requests   *)
(* are about one name and one email, in any of several spellings: signup   *)
(* compares them without case, the database with it.                       *)
(***************************************************************************)
EXTENDS Naturals, FiniteSets

CONSTANTS Spellings,     \* of the one username
          Browsers,
          NoBrowser,
          Threads,
          Ops,           \* the requests that may be made
          MaxUsers,      \* bound: users ever created
          MaxPasswords,  \* bound: passwords ever chosen
          MaxSwitches    \* bound: times is_active is switched

ASSUME NoneAssumption == 0 \notin Spellings /\ NoBrowser \notin Browsers
ASSUME ThreadsAssumption == IsFiniteSet(Threads)
ASSUME BoundsAssumption ==
  MaxUsers \in Nat \ {0} /\ MaxPasswords \in Nat \ {0} /\ MaxSwitches \in Nat

VARIABLES users,     \* User, by primary key
          mailed,    \* EmailVerificationToken: the users who have one
          serial,    \* the next primary key and password; switches of is_active
          session,   \* per browser: whose it is, and how far its sign-in has come
          thread,    \* what each thread is doing, with its copy of the row
          ghost      \* history, for the properties only

vars == <<users, mailed, serial, session, thread, ghost>>

Users == 1..MaxUsers
Passwords == 1..MaxPasswords

\* A row of User; name = 0 stands for no row.
User == [name: Spellings \cup {0}, password: Passwords \cup {0}, is_active: BOOLEAN,
         email_verified: BOOLEAN]
NoUser == [name |-> 0, password |-> 0, is_active |-> FALSE, email_verified |-> FALSE]

Exists(u) == users[u].name # 0

(***************************************************************************)
(* A session: pending between the password and the second factor, then     *)
(* signed in under the hash of the password as it was.  "proved" is        *)
(* history: the password that was typed.                                   *)
(***************************************************************************)
Session == [user: Users \cup {0}, step: {"none", "pending", "signed"},
            password: Passwords \cup {0}, proved: Passwords \cup {0}]
Anonymous == [user |-> 0, step |-> "none", password |-> 0, proved |-> 0]

\* ModelBackend.get_user and the session's authentication hash.
SignedIn(b) ==
  LET s == session[b]
  IN /\ s.step = "signed" /\ Exists(s.user)
     /\ users[s.user].is_active /\ users[s.user].password = s.password
-----------------------------------------------------------------------------
OpNames == {"idle", "signup", "verify_email", "settings"}
Pcs == {"idle", "create_user", "save_terms", "token", "send_mail", "save_verified",
        "delete_token", "save_password", "respond"}

Idle == [op |-> "idle", pc |-> "idle", browser |-> NoBrowser, user |-> 0,
         row |-> NoUser]

ThreadState ==
  [op: OpNames, pc: Pcs, browser: Browsers \cup {NoBrowser}, user: Users \cup {0}, row: User]

IsIdle(t, op) == op \in Ops /\ thread[t] = Idle
Goto(t, pc) == thread' = [thread EXCEPT ![t].pc = pc]
Finish(t) == thread' = [thread EXCEPT ![t] = Idle]

\* A thread that has a copy of the row which it is going to save.
Holds(t, u) ==
  thread[t].user = u /\ thread[t].pc \in {"save_terms", "save_verified", "save_password"}

Doing(ops) == Cardinality({t \in Threads : thread[t].op \in ops})
UserRoom == serial.user + Doing({"signup"}) <= MaxUsers
PasswordRoom == serial.password + Doing({"signup", "settings"}) <= MaxPasswords

(***************************************************************************)
(* History: "wanted" is every row as its last writer wanted it; "overlap"  *)
(* the users whose row was loaded, switched or deleted while a request was *)
(* going to save a copy of it; "rivals" whether two signups overlapped;    *)
(* "carried" the sessions between password and second factor, or a         *)
(* signup's response, when the password changed.                           *)
(***************************************************************************)
GhostState ==
  [wanted: [Users -> User], overlap: SUBSET Users, rivals: BOOLEAN,
   carried: SUBSET Browsers]

\* Thread t loads the row of u.
Loaded(t, u) ==
  IF \E v \in Threads \ {t} : Holds(v, u) THEN ghost.overlap \cup {u} ELSE ghost.overlap

Load(t, op, pc, b, u) ==
  /\ thread' = [thread EXCEPT ![t] =
       [Idle EXCEPT !.op = op, !.pc = pc, !.browser = b, !.user = u, !.row = users[u]]]
  /\ ghost' = [ghost EXCEPT !.overlap = Loaded(t, u)]

(***************************************************************************)
(* Model.save() of a copy: all its columns, in a new row if the old one is *)
(* gone, unless another user has taken the name.                           *)
(***************************************************************************)
NameTaken(u, row) == \E v \in Users \ {u} : users[v].name = row.name

SaveUser(t, row, next, g) ==
  LET u == thread[t].user
  IN IF NameTaken(u, row)
       THEN /\ Finish(t)
            /\ UNCHANGED <<users, ghost>>
       ELSE /\ users' = [users EXCEPT ![u] = row]
            /\ thread' = [thread EXCEPT ![t].row = row, ![t].pc = next]
            /\ ghost' = g
-----------------------------------------------------------------------------
\* Mutant: signup does not look for the name.
SignupUnchecked(t) ==
  \E b \in Browsers, name \in Spellings :
    /\ IsIdle(t, "signup") /\ UserRoom /\ PasswordRoom
    /\ ~SignedIn(b)
    /\ thread' = [thread EXCEPT ![t] = [Idle EXCEPT !.op = "signup", !.pc = "create_user",
                    !.browser = b, !.row = [NoUser EXCEPT !.name = name, !.is_active = TRUE]]]
    /\ ghost' = [ghost EXCEPT !.rivals = @ \/ \E v \in Threads : thread[v].pc = "create_user"]
    /\ UNCHANGED <<users, mailed, serial, session>>

(***************************************************************************)
(* signup: nobody has the name or the email yet ...                        *)
(***************************************************************************)
StartSignup(t) ==
  \E b \in Browsers, name \in Spellings :
    /\ IsIdle(t, "signup") /\ UserRoom /\ PasswordRoom
    /\ ~SignedIn(b) /\ \A u \in Users : ~Exists(u)
    /\ thread' = [thread EXCEPT ![t] = [Idle EXCEPT !.op = "signup", !.pc = "create_user",
                    !.browser = b, !.row = [NoUser EXCEPT !.name = name, !.is_active = TRUE]]]
    /\ ghost' = [ghost EXCEPT !.rivals = @ \/ \E v \in Threads : thread[v].pc = "create_user"]
    /\ UNCHANGED <<users, mailed, serial, session>>

\* ... create_user, which fails if somebody has this very spelling by now ...
CreateUser(t) ==
  LET row == [thread[t].row EXCEPT !.password = serial.password]
  IN /\ thread[t].pc = "create_user"
     /\ IF \E u \in Users : users[u].name = row.name
          THEN /\ Finish(t)
               /\ UNCHANGED <<users, serial, ghost>>
          ELSE /\ users' = [users EXCEPT ![serial.user] = row]
               /\ serial' = [serial EXCEPT !.user = @ + 1, !.password = @ + 1]
               /\ thread' = [thread EXCEPT ![t].user = serial.user, ![t].row = row,
                                           ![t].pc = "save_terms"]
               /\ ghost' = [ghost EXCEPT !.wanted[serial.user] = row]
     /\ UNCHANGED <<mailed, session>>

\* ... records the accepted terms, which nothing reads, in a second save ...
SaveTerms(t) ==
  /\ thread[t].pc = "save_terms"
  /\ SaveUser(t, thread[t].row, "token", ghost)
  /\ UNCHANGED <<mailed, serial, session>>

\* Mutant: the token's foreign key is not checked.
StoreOrphanToken(t) ==
  /\ thread[t].pc = "token"
  /\ mailed' = mailed \cup {thread[t].user}
  /\ Goto(t, "send_mail")
  /\ UNCHANGED <<users, serial, session, ghost>>

\* ... stores a verification token, if the user is still there ...
StoreToken(t) ==
  /\ thread[t].pc = "token"
  /\ IF Exists(thread[t].user)
       THEN mailed' = mailed \cup {thread[t].user} /\ Goto(t, "send_mail")
       ELSE UNCHANGED mailed /\ Finish(t)
  /\ UNCHANGED <<users, serial, session, ghost>>

\* ... and sends it; if that fails the account exists all the same.
SendMail(t) ==
  LET b == thread[t].browser
      u == thread[t].user
      password == thread[t].row.password
  IN /\ thread[t].pc = "send_mail"
     /\ \/ /\ session' = [session EXCEPT ![b] =
                [user |-> u, step |-> "pending", password |-> 0, proved |-> password]]
           /\ ghost' = [ghost EXCEPT !.carried = IF users[u].password = password
                                                   THEN @ \ {b} ELSE @ \cup {b}]
        \/ UNCHANGED <<session, ghost>>
     /\ Finish(t)
     /\ UNCHANGED <<users, mailed, serial>>

(***************************************************************************)
(* verify_email: the token names the user ...                              *)
(***************************************************************************)
StartVerifyEmail(t) ==
  \E u \in mailed :
    /\ IsIdle(t, "verify_email")
    /\ Load(t, "verify_email", "save_verified", NoBrowser, u)
    /\ UNCHANGED <<users, mailed, serial, session>>

SaveVerified(t) ==
  /\ thread[t].pc = "save_verified"
  /\ SaveUser(t, [thread[t].row EXCEPT !.email_verified = TRUE], "delete_token",
              [ghost EXCEPT !.wanted[thread[t].user].email_verified = TRUE])
  /\ UNCHANGED <<mailed, serial, session>>

\* ... and is used up.
DeleteToken(t) ==
  /\ thread[t].pc = "delete_token"
  /\ mailed' = mailed \ {thread[t].user}
  /\ Finish(t)
  /\ UNCHANGED <<users, serial, session, ghost>>

(***************************************************************************)
(* settings_view: the signed-in user chooses a new password, and the       *)
(* request's own session is kept valid with its response.                  *)
(***************************************************************************)
StartSettings(t) ==
  \E b \in Browsers :
    /\ IsIdle(t, "settings") /\ PasswordRoom
    /\ SignedIn(b)
    /\ Load(t, "settings", "save_password", b, session[b].user)
    /\ UNCHANGED <<users, mailed, serial, session>>

\* Mutant: the new password does not reach the row.
SaveOldPassword(t) ==
  /\ thread[t].pc = "save_password"
  /\ SaveUser(t, thread[t].row, "respond",
              [ghost EXCEPT !.wanted[thread[t].user].password = serial.password])
  /\ serial' = [serial EXCEPT !.password = @ + 1]
  /\ UNCHANGED <<mailed, session>>

SavePassword(t) ==
  LET u == thread[t].user
  IN /\ thread[t].pc = "save_password"
     /\ SaveUser(t, [thread[t].row EXCEPT !.password = serial.password], "respond",
                 [ghost EXCEPT !.wanted[u] = [@ EXCEPT !.password = serial.password],
                               !.carried = @ \cup {b \in Browsers : session[b].user = u
                                                     /\ session[b].step = "pending"}])
     /\ serial' = [serial EXCEPT !.password = @ + 1]
     /\ UNCHANGED <<mailed, session>>

\* update_session_auth_hash
Respond(t) ==
  LET password == thread[t].row.password
  IN /\ thread[t].pc = "respond"
     /\ session' = [session EXCEPT ![thread[t].browser] =
                      [user |-> thread[t].user, step |-> "signed", password |-> password,
                       proved |-> password]]
     /\ ghost' = [ghost EXCEPT !.carried = @ \ {thread[t].browser}]
     /\ Finish(t)
     /\ UNCHANGED <<users, mailed, serial>>

\* The administrator switches is_active in Django's own change form, in a transaction.
SwitchActive(u) ==
  /\ "admin" \in Ops /\ serial.switch < MaxSwitches /\ Exists(u)
  /\ users' = [users EXCEPT ![u].is_active = ~@]
  /\ serial' = [serial EXCEPT !.switch = @ + 1]
  /\ ghost' = [ghost EXCEPT
       !.wanted[u].is_active = ~users[u].is_active,
       !.overlap = IF \E t \in Threads : Holds(t, u) THEN @ \cup {u} ELSE @]
  /\ UNCHANGED <<mailed, session, thread>>

\* delete_account, whose checks are Membership's: the user and the token go, the session ends.
DeleteAccount(b) ==
  LET u == session[b].user
  IN /\ "delete" \in Ops /\ SignedIn(b)
     /\ users' = [users EXCEPT ![u] = NoUser]
     /\ mailed' = mailed \ {u}
     /\ session' = [session EXCEPT ![b] = Anonymous]
     /\ ghost' = [ghost EXCEPT
          !.wanted[u] = NoUser, !.carried = @ \ {b},
          !.overlap = IF \E t \in Threads : Holds(t, u) THEN @ \cup {u} ELSE @]
     /\ UNCHANGED <<serial, thread>>
-----------------------------------------------------------------------------
\* Mutant: any password is right.
LoginUnchecked(b) ==
  \E u \in Users, password \in 1..(serial.password - 1) :
    /\ "login" \in Ops /\ ~SignedIn(b)
    /\ Exists(u) /\ users[u].is_active
    /\ session' = [session EXCEPT ![b] =
         [user |-> u, step |-> "pending", password |-> 0, proved |-> password]]
    /\ ghost' = [ghost EXCEPT !.carried = @ \ {b}]
    /\ UNCHANGED <<users, mailed, serial, thread>>

\* The password step of login_view ...
Login(b) ==
  \E u \in Users, password \in 1..(serial.password - 1) :
    /\ "login" \in Ops /\ ~SignedIn(b)
    /\ Exists(u) /\ users[u].is_active /\ users[u].password = password
    /\ session' = [session EXCEPT ![b] =
         [user |-> u, step |-> "pending", password |-> 0, proved |-> password]]
    /\ ghost' = [ghost EXCEPT !.carried = @ \ {b}]
    /\ UNCHANGED <<users, mailed, serial, thread>>

\* ... and _complete_login, once the second factor is cleared: the pending user
\* is looked up again, the password is not asked for again.
CompleteLogin(b) ==
  LET u == session[b].user
  IN /\ "login" \in Ops /\ session[b].step = "pending"
     /\ Exists(u)
     /\ session' = [session EXCEPT ![b].step = "signed", ![b].password = users[u].password]
     /\ UNCHANGED <<users, mailed, serial, thread, ghost>>

Logout(b) ==
  /\ "logout" \in Ops /\ session[b] # Anonymous
  /\ session' = [session EXCEPT ![b] = Anonymous]
  /\ ghost' = [ghost EXCEPT !.carried = @ \ {b}]
  /\ UNCHANGED <<users, mailed, serial, thread>>

\* The process that runs thread t dies; what it has committed stays.
Crash(t) ==
  /\ "crash" \in Ops /\ thread[t] # Idle
  /\ Finish(t)
  /\ UNCHANGED <<users, mailed, serial, session, ghost>>
-----------------------------------------------------------------------------
Init ==
  /\ users = [u \in Users |-> NoUser]
  /\ mailed = {}
  /\ serial = [user |-> 1, password |-> 1, switch |-> 0]
  /\ session = [b \in Browsers |-> Anonymous]
  /\ thread = [t \in Threads |-> Idle]
  /\ ghost = [wanted |-> [u \in Users |-> NoUser], overlap |-> {}, rivals |-> FALSE, carried |-> {}]

Step(t) ==
  \/ StartSignup(t) \/ CreateUser(t) \/ SaveTerms(t) \/ StoreToken(t) \/ SendMail(t)
  \/ StartVerifyEmail(t) \/ SaveVerified(t) \/ DeleteToken(t)
  \/ StartSettings(t) \/ SavePassword(t) \/ Respond(t)
  \/ Crash(t)

Next ==
  \/ \E t \in Threads : Step(t)
  \/ \E b \in Browsers : DeleteAccount(b) \/ Login(b) \/ CompleteLogin(b) \/ Logout(b)
  \/ \E u \in Users : SwitchActive(u)

Spec == Init /\ [][Next]_vars
-----------------------------------------------------------------------------
\* The types of all the variables; a verification token has its user.
TypeOK ==
  /\ users \in [Users -> User]
  /\ mailed \subseteq {u \in Users : Exists(u)}
  /\ serial \in [user: 1..(MaxUsers + 1), password: 1..(MaxPasswords + 1), switch: 0..MaxSwitches]
  /\ session \in [Browsers -> Session]
  /\ thread \in [Threads -> ThreadState]
  /\ ghost \in GhostState

(***************************************************************************)
(* A new password, a deactivation, a verified email and a deletion stand:  *)
(* only a request that had loaded the row before, and saves all of it, can *)
(* take them back.                                                         *)
(***************************************************************************)
RowsAsWanted ==
  \A u \in Users : users[u] = ghost.wanted[u] \/ u \in ghost.overlap

(***************************************************************************)
(* Who is signed in has typed the password the account has now: a change   *)
(* of password signs all other sessions out.  The exception is a session   *)
(* between the two steps of its sign-in, which is not asked again.         *)
(***************************************************************************)
SignInsCurrent ==
  \A b \in Browsers : SignedIn(b) =>
    \/ session[b].proved = users[session[b].user].password
    \/ b \in ghost.carried \/ session[b].user \in ghost.overlap

(***************************************************************************)
(* Two accounts never share a name or an email, whatever its case, unless  *)
(* their signups overlapped or a request brought a deleted one back.       *)
(***************************************************************************)
NoTwins ==
  \A u, v \in Users : Exists(u) /\ Exists(v) =>
    u = v \/ ghost.rivals \/ {u, v} \cap ghost.overlap # {}
=============================================================================
