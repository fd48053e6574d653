---------------------------- MODULE ProjectRekey ----------------------------
(***************************************************************************)
(* The browser's side of a project, vault/views.py: unlocking it, which    *)
(* caches the derived key in the session, adding secrets under the cached  *)
(* key, and the rekey, which re-encrypts every row in one transaction and  *)
(* then drops the cached keys from the session rows.                       *)
(*                                                                         *)
(* A request loads its session when it starts and, if it modified it,      *)
(* writes the whole of it back with the response.                          *)
(***************************************************************************)
EXTENDS VaultDb

BeginWeb(t, op, pc, s) ==
  thread' = [thread EXCEPT ![t] =
               [Idle EXCEPT !.op = op, !.pc = pc, !.session = s, !.key = sess[s]]]

(***************************************************************************)
(* SessionMiddleware.process_response: save the loaded session.            *)
(* "tainted" is history: the sessions that hold an obsolete key because a  *)
(* response wrote it back.                                                 *)
(***************************************************************************)
Tainted(s, key) ==
  IF key \in {NoKey, env.salt} THEN ghost.tainted \ {s} ELSE ghost.tainted \cup {s}

Respond(t) ==
  LET s == thread[t].session
  IN /\ thread[t].pc = "respond"
     /\ sess' = [sess EXCEPT ![s] = thread[t].key]
     /\ ghost' = [ghost EXCEPT !.tainted = Tainted(s, thread[t].key)]
     /\ Finish(t)
     /\ UNCHANGED <<env, secrets, versions, serial, tx>>

(***************************************************************************)
(* project_unlock, refused while the environment requires a rekey, and the *)
(* passphrase check it shares with project_rekey: project.salt and         *)
(* project.verifier each query the environment again.  A wrong passphrase  *)
(* derives a key that fits nothing.                                        *)
(***************************************************************************)
StartUnlock(t) ==
  \E s \in Sessions :
    /\ IsIdle(t, "unlock") /\ ~env.requires_rekey
    /\ BeginWeb(t, "unlock", "salt", s)
    /\ UNCHANGED <<env, secrets, versions, serial, sess, tx, ghost>>

DeriveKey(t) ==
  /\ thread[t].pc = "salt"
  /\ \E key \in {env.salt, NoKey} :
       thread' = [thread EXCEPT ![t].derived = key, ![t].pc = "verify"]
  /\ UNCHANGED <<env, secrets, versions, serial, sess, tx, ghost>>

VerifyKey(t) ==
  LET key == thread[t].derived
  IN /\ thread[t].pc = "verify"
     /\ \/ /\ key # env.salt                              \* wrong passphrase
           /\ Finish(t)
           /\ UNCHANGED <<tx, serial>>
        \/ /\ key = env.salt /\ thread[t].op = "unlock"     \* _store_key
           /\ thread' = [thread EXCEPT ![t].key = key, ![t].pc = "respond"]
           /\ UNCHANGED <<tx, serial>>
        \/ /\ key = env.salt /\ thread[t].op = "rekey"      \* generate_salt
           /\ Goto(t, "list")
           /\ tx' = [tx EXCEPT ![t].new = serial.salt]
           /\ serial' = [serial EXCEPT !.salt = @ + 1]
     /\ UNCHANGED <<env, secrets, versions, sess, ghost>>

\* project_lock: _forget_key pops the key from the loaded session.
Lock(t) ==
  \E s \in Sessions :
    /\ IsIdle(t, "lock") /\ sess[s] # NoKey
    /\ thread' = [thread EXCEPT ![t] =
                    [Idle EXCEPT !.op = "lock", !.pc = "respond", !.session = s]]
    /\ UNCHANGED <<env, secrets, versions, serial, sess, tx, ghost>>

\* A view that modifies the session for another purpose: api_key_create
\* stores the new token in it, and the cached keys are saved along with it.
ModifySession(t) ==
  \E s \in Sessions :
    /\ IsIdle(t, "mint")
    /\ BeginWeb(t, "mint", "respond", s)
    /\ UNCHANGED <<env, secrets, versions, serial, sess, tx, ghost>>

(***************************************************************************)
(* secret_add: update_or_create locks the row, or creates it, and sets its *)
(* ciphertext only.                                                        *)
(***************************************************************************)
StartAdd(t) ==
  \E s \in Sessions :
    /\ IsIdle(t, "add") /\ RowRoom
    /\ sess[s] # NoKey
    /\ BeginWeb(t, "add", "update_or_create", s)
    /\ UNCHANGED <<env, secrets, versions, serial, sess, tx, ghost>>

\* Mutant: the plaintext is stored.
StorePlaintext(t) ==
  \E k \in Keys, val \in Vals :
    /\ thread[t].pc = "update_or_create"
    /\ ~RowLocked(k)
    /\ IF Exists(k)
         THEN /\ secrets' = [secrets EXCEPT ![k].ct = val]
              /\ UNCHANGED serial
         ELSE /\ secrets' = [secrets EXCEPT ![k] = [NoRow EXCEPT !.id = serial.row, !.ct = val]]
              /\ serial' = [serial EXCEPT !.row = @ + 1]
    /\ Finish(t)
    /\ UNCHANGED <<env, versions, sess, tx, ghost>>

UpdateOrCreate(t) ==
  \E k \in Keys, val \in Vals :
    LET ct == [salt |-> thread[t].key, val |-> val]
    IN /\ thread[t].pc = "update_or_create"
       /\ ~RowLocked(k)
       /\ IF Exists(k)
            THEN /\ secrets' = [secrets EXCEPT ![k].ct = ct]
                 /\ UNCHANGED serial
            ELSE /\ secrets' = [secrets EXCEPT ![k] = [NoRow EXCEPT !.id = serial.row, !.ct = ct]]
                 /\ serial' = [serial EXCEPT !.row = @ + 1]
       /\ LET row == secrets'[k]
          IN ghost' = [Recorded(t, k, row) EXCEPT !.unarchived = @ \cup {Holding(row)}]
       /\ Finish(t)
       /\ UNCHANGED <<env, versions, sess, tx>>
-----------------------------------------------------------------------------
\* Incident response sets the flag on the environment.
RequireRekey ==
  /\ "flag" \in Ops /\ ~env.requires_rekey
  /\ env' = [env EXCEPT !.requires_rekey = TRUE]
  /\ UNCHANGED <<secrets, versions, serial, sess, thread, tx, ghost>>

StartRekey(t) ==
  \E s \in Sessions :
    /\ IsIdle(t, "rekey") /\ SaltRoom
    /\ BeginWeb(t, "rekey", "salt", s)
    /\ UNCHANGED <<env, secrets, versions, serial, sess, tx, ghost>>

Rewrap(t, ct) == [ct EXCEPT !.salt = tx[t].new]
Decryptable(t, ct) == ct.salt = thread[t].derived

\* Mutant: the queries have no ORDER BY.
Unordered(rows) == rows

First(rows) == {r \in rows : \A q \in rows : r.name <= q.name}
Newest(vs) == {v \in vs : \A w \in vs : w.vid <= v.vid}

\* _reencrypt_project lists the live secrets ...
ListLiveSecrets(t) ==
  /\ thread[t].pc = "list"
  /\ tx' = [tx EXCEPT ![t].rows = {[name |-> k, id |-> secrets[k].id, ct |-> secrets[k].ct] :
                                     k \in {k \in Keys : Live(k)}},
                      ![t].mark = serial.version]
  /\ Goto(t, "reencrypt")
  /\ UNCHANGED <<env, secrets, versions, serial, sess, ghost>>

\* Mutant: the rekey runs without transaction.atomic.
ReencryptAtOnce(t) ==
  /\ thread[t].pc = "reencrypt"
  /\ \E r \in First(tx[t].rows) :
       \/ /\ ~Decryptable(t, r.ct) \/ ~RowHasId(r.name, r.id)
          /\ CloseTransaction(t)
          /\ UNCHANGED secrets
       \/ /\ Decryptable(t, r.ct) /\ RowHasId(r.name, r.id)
          /\ secrets' = [secrets EXCEPT ![r.name].ct = Rewrap(t, r.ct)]
          /\ tx' = [tx EXCEPT ![t].rows = @ \ {r}]
          /\ UNCHANGED thread
  /\ UNCHANGED <<env, versions, serial, sess, ghost>>

\* ... writes each of them, from the copy it listed; InvalidFernetToken, and a
\* save that matches no row, roll everything back ...
ReencryptSecret(t) ==
  /\ thread[t].pc = "reencrypt"
  /\ \E r \in First(tx[t].rows) :
       \/ /\ ~Decryptable(t, r.ct) \/ ~RowHasId(r.name, r.id)
          /\ CloseTransaction(t)
       \/ /\ Decryptable(t, r.ct) /\ RowHasId(r.name, r.id) /\ ~RowLocked(r.name)
          /\ tx' = [tx EXCEPT ![t].rows = @ \ {r},
                              ![t].rowWrites = @ \cup {[name |-> r.name, ct |-> Rewrap(t, r.ct)]}]
          /\ UNCHANGED thread
  /\ UNCHANGED <<env, secrets, versions, serial, sess, ghost>>

\* Mutant: the versions of deleted secrets are skipped.
ListOnlyLive(t) ==
  /\ thread[t].pc = "reencrypt" /\ tx[t].rows = {}
  /\ tx' = [tx EXCEPT ![t].owners = {[name |-> k, id |-> secrets[k].id] :
                                       k \in {k \in Keys : Live(k)}}]
  /\ Goto(t, "versions")
  /\ UNCHANGED <<env, secrets, versions, serial, sess, ghost>>

\* ... lists every secret, deleted ones too ...
ListAllSecrets(t) ==
  /\ thread[t].pc = "reencrypt" /\ tx[t].rows = {}
  /\ tx' = [tx EXCEPT ![t].owners = {[name |-> k, id |-> secrets[k].id] :
                                       k \in {k \in Keys : Exists(k)}}]
  /\ Goto(t, "versions")
  /\ UNCHANGED <<env, secrets, versions, serial, sess, ghost>>

\* ... and for each of them its versions ...
ListVersions(t) ==
  /\ thread[t].pc = "versions" /\ tx[t].history = {}
  /\ \E o \in First(tx[t].owners) :
       tx' = [tx EXCEPT ![t].owners = @ \ {o},
                        ![t].history = {v \in versions : v.sid = o.id}]
  /\ UNCHANGED <<env, secrets, versions, serial, sess, thread, ghost>>

\* ... which it writes in turn, newest first.
ReencryptVersion(t) ==
  /\ thread[t].pc = "versions"
  /\ \E v \in Newest(tx[t].history) :
       LET present == \E w \in versions : w.vid = v.vid
       IN \/ /\ ~Decryptable(t, v.ct) \/ ~present
             /\ CloseTransaction(t)
          \/ /\ Decryptable(t, v.ct) /\ present /\ ~VersionLocked(v.vid)
             /\ tx' = [tx EXCEPT ![t].history = @ \ {v},
                         ![t].versionWrites = @ \cup {[vid |-> v.vid, ct |-> Rewrap(t, v.ct)]}]
             /\ UNCHANGED thread
  /\ UNCHANGED <<env, secrets, versions, serial, sess, ghost>>

\* What the rekey has written, row by row, once it commits.
RowAfter(t, k) ==
  IF \E w \in tx[t].rowWrites : w.name = k
    THEN [secrets[k] EXCEPT !.ct = (CHOOSE w \in tx[t].rowWrites : w.name = k).ct]
    ELSE secrets[k]

VersionAfter(t, v) ==
  IF \E w \in tx[t].versionWrites : w.vid = v.vid
    THEN [v EXCEPT !.ct = (CHOOSE w \in tx[t].versionWrites : w.vid = v.vid).ct]
    ELSE v

\* The readers that have asked one of their two questions.
Reading == {t \in Threads : thread[t].pc \in {"read_salt", "read_rows"}}

\* Mutant: the environment's save leaves out the salt.
CommitOldSalt(t) ==
  /\ thread[t].pc = "versions" /\ tx[t].owners = {} /\ tx[t].history = {}
  /\ secrets' = [k \in Keys |-> RowAfter(t, k)]
  /\ versions' = {VersionAfter(t, v) : v \in versions}
  /\ env' = [env EXCEPT !.requires_rekey = FALSE]
  /\ ghost' = [ghost EXCEPT !.issued = @ \cup {tx[t].new}, !.torn = @ \cup Reading]
  /\ tx' = [tx EXCEPT ![t] = [NoTx EXCEPT !.sessions = Sessions]]
  /\ Goto(t, "forget")
  /\ UNCHANGED <<serial, sess>>

\* Mutant: only the request's own session is made to forget the key.
CommitOwnSession(t) ==
  /\ thread[t].pc = "versions" /\ tx[t].owners = {} /\ tx[t].history = {}
  /\ secrets' = [k \in Keys |-> RowAfter(t, k)]
  /\ versions' = {VersionAfter(t, v) : v \in versions}
  /\ env' = [salt |-> tx[t].new, requires_rekey |-> FALSE]
  /\ ghost' = [ghost EXCEPT !.issued = @ \cup {tx[t].new}]
  /\ tx' = [tx EXCEPT ![t] = [NoTx EXCEPT !.sessions = {thread[t].session}]]
  /\ Goto(t, "forget")
  /\ UNCHANGED <<serial, sess>>

(***************************************************************************)
(* The environment takes the new salt and verifier, loses its flag, and    *)
(* the transaction commits.                                                *)
(***************************************************************************)
Commit(t) ==
  /\ thread[t].pc = "versions" /\ tx[t].owners = {} /\ tx[t].history = {}
  /\ secrets' = [k \in Keys |-> RowAfter(t, k)]
  /\ versions' = {VersionAfter(t, v) : v \in versions}
  /\ env' = [salt |-> tx[t].new, requires_rekey |-> FALSE]
  /\ ghost' = [ghost EXCEPT !.issued = @ \cup {tx[t].new}, !.torn = @ \cup Reading]
  /\ tx' = [tx EXCEPT ![t] = [NoTx EXCEPT !.sessions = Sessions]]
  /\ Goto(t, "forget")
  /\ UNCHANGED <<serial, sess>>

\* _forget_project_in_all_sessions, one row after the other.
ForgetSession(t) ==
  /\ thread[t].pc = "forget"
  /\ \E s \in tx[t].sessions :
       /\ sess' = [sess EXCEPT ![s] = NoKey]
       /\ tx' = [tx EXCEPT ![t].sessions = @ \ {s}]
       /\ ghost' = [ghost EXCEPT !.tainted = @ \ {s}]
  /\ UNCHANGED <<env, secrets, versions, serial, thread>>

\* _forget_key on the request's own session, which is saved if it held the key.
ForgetOwnKey(t) ==
  /\ thread[t].pc = "forget" /\ tx[t].sessions = {}
  /\ \/ /\ thread[t].key = NoKey
        /\ Finish(t)
     \/ /\ thread[t].key # NoKey
        /\ thread' = [thread EXCEPT ![t].key = NoKey, ![t].pc = "respond"]
  /\ UNCHANGED <<env, secrets, versions, serial, sess, tx, ghost>>

RekeyStep(t) ==
  \/ Respond(t) \/ DeriveKey(t) \/ VerifyKey(t) \/ UpdateOrCreate(t)
  \/ ListLiveSecrets(t) \/ ReencryptSecret(t) \/ ListAllSecrets(t)
  \/ ListVersions(t) \/ ReencryptVersion(t) \/ Commit(t)
  \/ ForgetSession(t) \/ ForgetOwnKey(t)

RekeyRequest(t) ==
  StartUnlock(t) \/ Lock(t) \/ ModifySession(t) \/ StartAdd(t) \/ StartRekey(t)
=============================================================================
