--------------------------------- MODULE Mfa ---------------------------------
(***************************************************************************)
(* The second factor of one account, accounts/views.py: a TOTP device is   *)
(* enrolled after the password step, confirmed with a first code, and from *)
(* then on asked for at every sign-in; a set of backup codes comes with    *)
(* it; an administrator may reset both.  A session is signed in as long as *)
(* the row of the device it signed in with exists.                         *)
(*                                                                         *)
(* Every statement is committed on its own, so any two requests of the     *)
(* account interleave between statements.  The devices and their methods   *)
(* are django-otp's: verify_token saves its whole copy of the device, and  *)
(* match_token locks the confirmed devices for as long as it takes.        *)
(***************************************************************************)
EXTENDS Naturals, FiniteSets

CONSTANTS Browsers,
          NoBrowser,
          Threads,
          Ops,         \* the requests that may be made
          CodeCount,   \* BACKUP_CODE_COUNT
          MaxDevices,  \* bound: TOTP devices ever created
          MaxSets      \* bound: sets of backup codes ever issued

ASSUME ThreadsAssumption == IsFiniteSet(Threads)
ASSUME NoneAssumption == NoBrowser \notin Browsers
ASSUME CountAssumption == CodeCount \in Nat \ {0}
ASSUME BoundsAssumption == MaxDevices \in Nat /\ MaxSets \in Nat

VARIABLES totp,     \* the user's TOTPDevice rows, by primary key
          backup,   \* the StaticDevice rows named "backup"
          tokens,   \* their StaticToken rows: pairs of a set and a number
          serial,   \* the next primary keys
          session,  \* per browser: password step passed, device signed in with
          thread,   \* what each thread is doing
          ghost     \* history, for the properties only

vars == <<totp, backup, tokens, serial, session, thread, ghost>>

Devices == 1..MaxDevices
Sets == 1..MaxSets
Codes(s) == {s} \X (1..CodeCount)
AllCodes == UNION {Codes(s) : s \in Sets}

\* What a session may have signed in with; id = 0 stands for nothing.
Factor == [kind: {"none"}, id: {0}] \cup [kind: {"totp"}, id: Devices]
          \cup [kind: {"backup"}, id: Sets]
NoFactor == [kind |-> "none", id |-> 0]

Signed == [pending: BOOLEAN, factor: Factor]
Anonymous == [pending |-> FALSE, factor |-> NoFactor]

Status == {"absent", "unconfirmed", "confirmed"}
WithStatus(st) == {d \in Devices : totp[d] = st}

\* OTPMiddleware: the device named by the session is looked up, confirmed or not.
Verified(b) ==
  \/ session[b].factor.kind = "totp" /\ totp[session[b].factor.id] # "absent"
  \/ session[b].factor.kind = "backup" /\ session[b].factor.id \in backup

\* _confirmed_totp
Enrolled == WithStatus("confirmed") # {}
-----------------------------------------------------------------------------
(***************************************************************************)
(* A request: the browser it came from, the TOTP device it has a copy of,  *)
(* the backup devices it selected for deletion, the set of codes it        *)
(* issues, how many of them it has created, and the factor it accepted.    *)
(***************************************************************************)
OpNames == {"idle", "enroll", "verify", "reset"}
Pcs == {"idle", "get_device", "create_device", "verify_token", "confirm", "select_backup",
        "delete_backup", "create_backup", "create_token", "match", "respond"}

Idle == [op |-> "idle", pc |-> "idle", browser |-> NoBrowser, device |-> 0,
         ids |-> {}, set |-> 0, count |-> 0, factor |-> NoFactor]

ThreadState ==
  [op: OpNames, pc: Pcs, browser: Browsers \cup {NoBrowser}, device: Devices \cup {0},
   ids: SUBSET Sets, set: Sets \cup {0}, count: 0..CodeCount, factor: Factor]

IsIdle(t, op) == op \in Ops /\ thread[t] = Idle
Goto(t, pc) == thread' = [thread EXCEPT ![t].pc = pc]
Finish(t) == thread' = [thread EXCEPT ![t] = Idle]
Begin(t, op, pc, b) ==
  thread' = [thread EXCEPT ![t] = [Idle EXCEPT !.op = op, !.pc = pc, !.browser = b]]

Enrolling(t) == thread[t].pc \in {"get_device", "create_device", "verify_token", "confirm"}
Issuing(t) == thread[t].pc \in {"select_backup", "delete_backup", "create_backup", "create_token"}

Doing(ops) == Cardinality({t \in Threads : thread[t].op \in ops})
DeviceRoom == serial.device + Doing({"enroll"}) <= MaxDevices
SetRoom == serial.set + Doing({"enroll", "reset"}) <= MaxSets

(***************************************************************************)
(* History: "contested" once two enrolments have overlapped; "enrolled"    *)
(* from a confirmation to the next reset; "removed" the devices resets     *)
(* have deleted; "alone" the threads that issue codes while nobody else    *)
(* does; "good" the set the last issuance made if it was alone; "shown"    *)
(* and "spent" the sets and codes given to the user and used up; "before"  *)
(* the browsers signed in when a thread's reset began and not changed      *)
(* since, "out" those that finished resets should have signed out.         *)
(***************************************************************************)
GhostState ==
  [contested: BOOLEAN, enrolled: BOOLEAN, removed: SUBSET Devices, alone: SUBSET Threads,
   good: Sets \cup {0}, shown: SUBSET Sets, spent: SUBSET AllCodes,
   before: [Threads -> SUBSET Browsers], out: SUBSET Browsers]

\* What issuing codes begins with, as history.
BeginIssue(t, g) ==
  [g EXCEPT !.good = 0, !.alone = IF \E u \in Threads \ {t} : Issuing(u) THEN {} ELSE {t}]

\* A browser signs in or out: what earlier resets meant for it is over.
SignedAnew(b, g) ==
  [g EXCEPT !.out = @ \ {b}, !.before = [t \in Threads |-> @[t] \ {b}]]
-----------------------------------------------------------------------------
(***************************************************************************)
(* The password step of login_view, and the end of signup: the session     *)
(* remembers who is to clear the second factor.  A session that is signed  *)
(* in already is sent away.                                                *)
(***************************************************************************)
Password(b) ==
  /\ "login" \in Ops /\ ~Verified(b) /\ ~session[b].pending
  /\ session' = [session EXCEPT ![b].pending = TRUE]
  /\ UNCHANGED <<totp, backup, tokens, serial, thread, ghost>>

Logout(b) ==
  /\ "logout" \in Ops /\ session[b] # Anonymous
  /\ session' = [session EXCEPT ![b] = Anonymous]
  /\ ghost' = SignedAnew(b, ghost)
  /\ UNCHANGED <<totp, backup, tokens, serial, thread>>

\* Mutant: totp_enroll without the check for a confirmed device.
EnrollAnyway(t) ==
  \E b \in Browsers :
    /\ IsIdle(t, "enroll") /\ session[b].pending /\ DeviceRoom /\ SetRoom
    /\ Begin(t, "enroll", "get_device", b)
    /\ ghost' = [ghost EXCEPT !.contested = @ \/ \E u \in Threads : Enrolling(u)]
    /\ UNCHANGED <<totp, backup, tokens, serial, session>>

(***************************************************************************)
(* totp_enroll: the pending user is not enrolled yet ...                   *)
(***************************************************************************)
StartEnroll(t) ==
  \E b \in Browsers :
    /\ IsIdle(t, "enroll") /\ session[b].pending /\ DeviceRoom /\ SetRoom
    /\ ~Enrolled
    /\ Begin(t, "enroll", "get_device", b)
    /\ ghost' = [ghost EXCEPT !.contested = @ \/ \E u \in Threads : Enrolling(u)]
    /\ UNCHANGED <<totp, backup, tokens, serial, session>>

\* ... get_or_create looks for the unconfirmed device, and fails on two of them ...
GetDevice(t) ==
  /\ thread[t].pc = "get_device"
  /\ LET found == WithStatus("unconfirmed") IN
       \/ /\ found = {}
          /\ Goto(t, "create_device")
       \/ \E d \in found :
            /\ found = {d}
            /\ thread' = [thread EXCEPT ![t].device = d, ![t].pc = "verify_token"]
       \/ /\ Cardinality(found) > 1
          /\ Finish(t)
  /\ UNCHANGED <<totp, backup, tokens, serial, session, ghost>>

CreateDevice(t) ==
  /\ thread[t].pc = "create_device"
  /\ totp' = [totp EXCEPT ![serial.device] = "unconfirmed"]
  /\ thread' = [thread EXCEPT ![t].device = serial.device, ![t].pc = "verify_token"]
  /\ serial' = [serial EXCEPT !.device = @ + 1]
  /\ UNCHANGED <<backup, tokens, session, ghost>>

(***************************************************************************)
(* ... a GET shows the device's secret and ends here; verify_token saves   *)
(* the copy, unconfirmed as it was read, whether the code is right or      *)
(* wrong, unless too many wrong ones hold it back.  Saving a copy whose    *)
(* row is gone inserts it again.                                           *)
(***************************************************************************)
VerifyToken(t) ==
  /\ thread[t].pc = "verify_token"
  /\ \/ /\ Finish(t)
        /\ UNCHANGED totp
     \/ /\ totp' = [totp EXCEPT ![thread[t].device] = "unconfirmed"]
        /\ Goto(t, "confirm") \/ Finish(t)
  /\ UNCHANGED <<backup, tokens, serial, session, ghost>>

\* ... and the right code confirms it.
Confirm(t) ==
  /\ thread[t].pc = "confirm"
  /\ totp' = [totp EXCEPT ![thread[t].device] = "confirmed"]
  /\ Goto(t, "select_backup")
  /\ ghost' = BeginIssue(t, [ghost EXCEPT !.enrolled = TRUE])
  /\ UNCHANGED <<backup, tokens, serial, session>>
-----------------------------------------------------------------------------
\* Mutant: the confirmed device is left in place.
KeepTotp(t) ==
  /\ IsIdle(t, "reset") /\ SetRoom
  /\ Begin(t, "reset", "select_backup", NoBrowser)
  /\ ghost' = BeginIssue(t, [ghost EXCEPT !.enrolled = FALSE,
                 !.removed = @ \cup WithStatus("confirmed"),
                 !.before[t] = {b \in Browsers : Verified(b)}])
  /\ UNCHANGED <<totp, backup, tokens, serial, session>>

\* reset_mfa_admin deletes the confirmed device ...
StartReset(t) ==
  /\ IsIdle(t, "reset") /\ SetRoom
  /\ Begin(t, "reset", "select_backup", NoBrowser)
  /\ totp' = [d \in Devices |-> IF totp[d] = "confirmed" THEN "absent" ELSE totp[d]]
  /\ ghost' = BeginIssue(t, [ghost EXCEPT !.enrolled = FALSE,
                 !.removed = @ \cup WithStatus("confirmed"),
                 !.before[t] = {b \in Browsers : Verified(b)}])
  /\ UNCHANGED <<backup, tokens, serial, session>>

\* Mutant: the old backup devices are left in place.
SelectNoBackups(t) ==
  /\ thread[t].pc = "select_backup"
  /\ Goto(t, "create_backup")
  /\ UNCHANGED <<totp, backup, tokens, serial, session, ghost>>

(***************************************************************************)
(* _issue_backup_codes, for both: select the old backup devices, delete    *)
(* them with their tokens, create a device, and create its tokens one by   *)
(* one.                                                                    *)
(***************************************************************************)
SelectBackups(t) ==
  /\ thread[t].pc = "select_backup"
  /\ thread' = [thread EXCEPT ![t].ids = backup, ![t].pc = "delete_backup"]
  /\ UNCHANGED <<totp, backup, tokens, serial, session, ghost>>

\* The deletion is a transaction, which a token created under it makes fail.
DeleteBackups(t) ==
  LET ids == thread[t].ids
  IN /\ thread[t].pc = "delete_backup"
     /\ \/ /\ backup' = backup \ ids
           /\ tokens' = {c \in tokens : c[1] \notin ids}
           /\ Goto(t, "create_backup")
           /\ ghost' = [ghost EXCEPT !.shown = @ \ ids, !.spent = {c \in @ : c[1] \notin ids}]
        \/ /\ \E u \in Threads \ {t} :
                thread[u].pc = "create_token" /\ thread[u].set \in backup \cap ids
           /\ Finish(t)
           /\ ghost' = [ghost EXCEPT !.before[t] = {}]
           /\ UNCHANGED <<backup, tokens>>
     /\ UNCHANGED <<totp, serial, session>>

CreateBackup(t) ==
  /\ thread[t].pc = "create_backup"
  /\ backup' = backup \cup {serial.set}
  /\ thread' = [thread EXCEPT ![t].set = serial.set, ![t].pc = "create_token"]
  /\ serial' = [serial EXCEPT !.set = @ + 1]
  /\ UNCHANGED <<totp, tokens, session, ghost>>

\* The codes are complete: the request goes on to sign in, or shows them to the administrator.
IssueDone(t) ==
  /\ IF thread[t].op = "enroll"
       THEN thread' = [thread EXCEPT ![t].count = CodeCount, ![t].pc = "respond",
                         ![t].factor = [kind |-> "totp", id |-> thread[t].device]]
       ELSE Finish(t)
  /\ ghost' = [ghost EXCEPT
       !.good = IF t \in ghost.alone THEN thread[t].set ELSE @,
       !.shown = IF thread[t].op = "reset" THEN @ \cup {thread[t].set} ELSE @,
       !.out = IF thread[t].op = "reset" THEN @ \cup ghost.before[t] ELSE @,
       !.before[t] = {}]

\* Mutant: one code more than announced.
CreateTokenTooMany(t) ==
  LET s == thread[t].set
      n == thread[t].count + 1
  IN /\ thread[t].pc = "create_token"
     /\ \/ /\ s \notin backup
           /\ Finish(t)
           /\ ghost' = [ghost EXCEPT !.before[t] = {}]
           /\ UNCHANGED tokens
        \/ /\ s \in backup
           /\ tokens' = tokens \cup {<<s, n>>}
           /\ IF n > CodeCount
                THEN IssueDone(t)
                ELSE thread' = [thread EXCEPT ![t].count = n] /\ UNCHANGED ghost
     /\ UNCHANGED <<totp, backup, serial, session>>

\* A token's foreign key fails when another issuance has deleted its device.
CreateToken(t) ==
  LET s == thread[t].set
      n == thread[t].count + 1
  IN /\ thread[t].pc = "create_token"
     /\ \/ /\ s \notin backup
           /\ Finish(t)
           /\ UNCHANGED <<tokens, ghost>>
        \/ /\ s \in backup
           /\ tokens' = tokens \cup {<<s, n>>}
           /\ IF n = CodeCount
                THEN IssueDone(t)
                ELSE thread' = [thread EXCEPT ![t].count = n] /\ UNCHANGED ghost
     /\ UNCHANGED <<totp, backup, serial, session>>
-----------------------------------------------------------------------------
\* totp_verify: the pending user is enrolled ...
StartVerify(t) ==
  \E b \in Browsers :
    /\ IsIdle(t, "verify") /\ session[b].pending
    /\ Enrolled
    /\ Begin(t, "verify", "match", b)
    /\ UNCHANGED <<totp, backup, tokens, serial, session, ghost>>

\* Mutant: a backup code stays usable.
MatchUnspent(t) ==
  /\ thread[t].pc = "match"
  /\ \/ Finish(t) /\ UNCHANGED ghost
     \/ \E d \in WithStatus("confirmed") :
          /\ thread' = [thread EXCEPT ![t].factor = [kind |-> "totp", id |-> d],
                                      ![t].pc = "respond"]
          /\ UNCHANGED ghost
     \/ \E c \in tokens :
          /\ c[1] \in ghost.shown
          /\ thread' = [thread EXCEPT ![t].factor = [kind |-> "backup", id |-> c[1]],
                                      ![t].pc = "respond"]
          /\ ghost' = [ghost EXCEPT !.spent = @ \cup {c}]
  /\ UNCHANGED <<totp, backup, tokens, serial, session>>

\* ... and match_token tries every confirmed device: a wrong code, a code of
\* the authenticator, or a backup code, which it deletes.
Match(t) ==
  /\ thread[t].pc = "match"
  /\ \/ Finish(t) /\ UNCHANGED <<tokens, ghost>>
     \/ \E d \in WithStatus("confirmed") :
          /\ thread' = [thread EXCEPT ![t].factor = [kind |-> "totp", id |-> d],
                                      ![t].pc = "respond"]
          /\ UNCHANGED <<tokens, ghost>>
     \/ \E c \in tokens :
          /\ c[1] \in ghost.shown
          /\ tokens' = tokens \ {c}
          /\ thread' = [thread EXCEPT ![t].factor = [kind |-> "backup", id |-> c[1]],
                                      ![t].pc = "respond"]
          /\ ghost' = [ghost EXCEPT !.spent = @ \cup {c}]
  /\ UNCHANGED <<totp, backup, serial, session>>

\* _complete_login: a session of its own, no longer pending, sent with the response.
Respond(t) ==
  LET b == thread[t].browser
  IN /\ thread[t].pc = "respond"
     /\ session' = [session EXCEPT ![b] = [pending |-> FALSE, factor |-> thread[t].factor]]
     /\ ghost' = SignedAnew(b, [ghost EXCEPT
          !.shown = IF thread[t].op = "enroll" THEN @ \cup {thread[t].set} ELSE @])
     /\ Finish(t)
     /\ UNCHANGED <<totp, backup, tokens, serial>>

\* The worker process dies; what it has committed stays.
Crash(t) ==
  /\ "crash" \in Ops /\ thread[t] # Idle
  /\ Finish(t)
  /\ ghost' = [ghost EXCEPT !.before[t] = {}]
  /\ UNCHANGED <<totp, backup, tokens, serial, session>>
-----------------------------------------------------------------------------
\* A new account: signed up, not enrolled.
Init ==
  /\ totp = [d \in Devices |-> "absent"]
  /\ backup = {} /\ tokens = {}
  /\ serial = [device |-> 1, set |-> 1]
  /\ session = [b \in Browsers |-> Anonymous]
  /\ thread = [t \in Threads |-> Idle]
  /\ ghost = [contested |-> FALSE, enrolled |-> FALSE, removed |-> {}, alone |-> {}, good |-> 0,
              shown |-> {}, spent |-> {}, before |-> [t \in Threads |-> {}], out |-> {}]

Step(t) ==
  \/ StartEnroll(t) \/ GetDevice(t) \/ CreateDevice(t) \/ VerifyToken(t) \/ Confirm(t)
  \/ StartReset(t)
  \/ SelectBackups(t) \/ DeleteBackups(t) \/ CreateBackup(t) \/ CreateToken(t)
  \/ StartVerify(t) \/ Match(t) \/ Respond(t) \/ Crash(t)

Next ==
  \/ \E t \in Threads : Step(t)
  \/ \E b \in Browsers : Password(b) \/ Logout(b)

Spec == Init /\ [][Next]_vars
-----------------------------------------------------------------------------
\* The types of all the variables.
TypeOK ==
  /\ totp \in [Devices -> Status]
  /\ backup \subseteq Sets
  /\ tokens \subseteq AllCodes
  /\ serial \in [device: 1..(MaxDevices + 1), set: 1..(MaxSets + 1)]
  /\ session \in [Browsers -> Signed]
  /\ thread \in [Threads -> ThreadState]
  /\ ghost \in GhostState

(***************************************************************************)
(* The account has one TOTP device at most, confirmed or not, and keeps a  *)
(* confirmed one from its enrolment to the next reset, unless enrolments   *)
(* have overlapped: then a stale copy may un-confirm the device, and two   *)
(* unconfirmed ones make every later enrolment fail.                       *)
(***************************************************************************)
DevicesConsistent ==
  ~ghost.contested =>
    /\ Cardinality({d \in Devices : totp[d] # "absent"}) <= 1
    /\ ghost.enrolled => Enrolled

(***************************************************************************)
(* _issue_backup_codes replaces any existing backup codes: after an        *)
(* issuance that ran to its end and that no other overlapped, the user's   *)
(* only codes are those of its set, all of them but the spent ones.        *)
(***************************************************************************)
CodesReplaced ==
  ghost.good # 0 => backup = {ghost.good} /\ tokens = Codes(ghost.good) \ ghost.spent

(***************************************************************************)
(* A reset is final: the device it deleted does not come back, and whoever *)
(* was signed in when it began is signed out when it has ended, with the   *)
(* device or with a backup code, unless enrolments have overlapped.        *)
(***************************************************************************)
ResetFinal ==
  ~ghost.contested =>
    /\ \A d \in ghost.removed : totp[d] = "absent"
    /\ \A b \in ghost.out : ~Verified(b)
=============================================================================
