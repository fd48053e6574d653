------------------------------- MODULE VaultDb -------------------------------
(***************************************************************************)
(* The rows one project owns in PostgreSQL, the session rows that cache    *)
(* its unlock key, and the server threads that work on them.  Django runs  *)
(* in autocommit mode at READ COMMITTED and no view but project_rekey and  *)
(* the deletes opens a transaction, so a request is a sequence of          *)
(* statements, each atomic, that any other thread may run between.         *)
(*                                                                         *)
(* A ciphertext is the pair of the key it was encrypted under and the      *)
(* value inside it.  A key is derived from a passphrase and the            *)
(* environment's salt, so it is identified by the salt: salts are numbered *)
(* in the order generate_salt draws them.                                  *)
(***************************************************************************)
EXTENDS Naturals, FiniteSets

CONSTANTS Keys,         \* names of secrets; numbers, because rekey visits them in order
          Vals,         \* plaintext values
          NoVal,
          Tokens,       \* values of ClientRequestToken
          NoToken,
          Sessions,     \* rows of django_session
          NoSession,
          Threads,      \* gunicorn's worker threads and the management commands
          Ops,          \* the requests that may be made
          MaxRows,      \* bound: secrets ever created
          MaxVersions,  \* bound: versions ever created
          MaxSalts      \* bound: salts ever drawn

ASSUME KeysAssumption == Keys \subseteq Nat /\ Keys # {}
ASSUME NoneAssumption == NoVal \notin Vals /\ NoToken \notin Tokens /\ NoSession \notin Sessions
ASSUME BoundsAssumption == MaxRows \in Nat /\ MaxVersions \in Nat /\ MaxSalts \in Nat

VARIABLES env,       \* the default Environment: its salt (and verifier), requires_rekey
          secrets,   \* Secret, by key: (project, key) is unique
          versions,  \* SecretVersion
          serial,    \* the next primary keys, and the next salt
          sess,      \* session rows: the unlock key cached for the project, or NoKey
          thread,    \* what each thread is doing, with the values it has read
          tx,        \* the open rekey transaction of a thread
          ghost      \* history, for the properties only

vars == <<env, secrets, versions, serial, sess, thread, tx, ghost>>

NoKey == 0
Serial == Nat \ {0}

Ciphertext == [salt: Nat, val: Vals \cup {NoVal}]
NoCiphertext == [salt |-> 0, val |-> NoVal]

\* deleted_at: NULL, within the recovery window, or past it.
DeletedAt == {"null", "recent", "expired"}

\* A row of Secret; id = 0 stands for no row.
Row == [id: Nat, ct: Ciphertext, token: Tokens \cup {NoToken}, deleted: DeletedAt]
NoRow == [id |-> 0, ct |-> NoCiphertext, token |-> NoToken, deleted |-> "null"]

\* A row of SecretVersion.  "by" is history: the token of the write that made it.
Version == [vid: Nat, sid: Nat, ct: Ciphertext, by: Tokens \cup {NoToken}]

Exists(k) == secrets[k].id # 0
Live(k) == Exists(k) /\ secrets[k].deleted = "null"
RowHasId(k, id) == Exists(k) /\ secrets[k].id = id
-----------------------------------------------------------------------------
(***************************************************************************)
(* A thread between requests is Idle.  Otherwise it holds the session's    *)
(* unlock key as loaded with the request, the key it derived from a        *)
(* passphrase, the name and row of the secret it works on, and the ids it  *)
(* selected for deletion.                                                  *)
(***************************************************************************)
Idle == [op |-> "idle", pc |-> "idle", session |-> NoSession, key |-> NoKey,
         derived |-> NoKey, name |-> CHOOSE k \in Keys : TRUE, row |-> NoRow, ids |-> {}]

OpNames == {"idle", "post", "put", "import", "rotate", "restore_version", "web_restore",
            "delete", "restore", "force_delete", "cleanup",
            "get", "export", "unlock", "lock", "mint", "add", "rekey"}
Pcs == {"idle", "get_version", "save", "save_ciphertext", "version", "save_deleted",
        "delete_versions", "delete_secrets", "respond", "salt", "verify",
        "update_or_create", "list", "reencrypt", "versions", "forget",
        "read_salt", "read_rows", "answer"}

ThreadState ==
  [op: OpNames, pc: Pcs, session: Sessions \cup {NoSession}, key: Nat, derived: Nat,
   name: Keys, row: Row, ids: SUBSET Nat]

(***************************************************************************)
(* An open transaction.  A rekey's: the rows and versions still to visit,  *)
(* the writes made so far, the new salt, and then the session rows still   *)
(* to be cleaned; "mark" is history: the next version id when it listed    *)
(* the secrets.  A hard delete's: the versions it has deleted.  Writes and *)
(* deletions lock their rows and become visible at the commit.             *)
(***************************************************************************)
NoTx == [new |-> 0, mark |-> 0, rows |-> {}, rowWrites |-> {}, owners |-> {},
         history |-> {}, versionWrites |-> {}, deleted |-> {}, sessions |-> {}]

Transaction ==
  [new: Nat, mark: Nat,
   rows: SUBSET [name: Keys, id: Nat, ct: Ciphertext],
   rowWrites: SUBSET [name: Keys, ct: Ciphertext],
   owners: SUBSET [name: Keys, id: Nat],
   history: SUBSET Version,
   versionWrites: SUBSET [vid: Nat, ct: Ciphertext],
   deleted: SUBSET Nat,
   sessions: SUBSET Sessions]

HoldsRow(t, k) == \E w \in tx[t].rowWrites : w.name = k
HoldsVersion(t, vid) == vid \in tx[t].deleted \/ \E w \in tx[t].versionWrites : w.vid = vid
RowLocked(k) == \E t \in Threads : HoldsRow(t, k)
VersionLocked(vid) == \E t \in Threads : HoldsVersion(t, vid)
InTransaction(t) == thread[t].pc \in {"list", "reencrypt", "versions"}

IsIdle(t, op) == op \in Ops /\ thread[t] = Idle
Goto(t, pc) == thread' = [thread EXCEPT ![t].pc = pc]
Finish(t) == thread' = [thread EXCEPT ![t] = Idle]

\* Mutant: an error ends the request and leaves its transaction open.
LeaveOpen(t) ==
  /\ UNCHANGED tx
  /\ Finish(t)

\* The transaction, if one is open, is over, and so is the request.
CloseTransaction(t) ==
  /\ tx' = [tx EXCEPT ![t] = NoTx]
  /\ Finish(t)

\* Requests start only while the bounds leave room for the rows they may create.
Doing(ops) == Cardinality({t \in Threads : thread[t].op \in ops})
RowRoom == serial.row + Doing({"post", "put", "import", "add"}) <= MaxRows
VersionRoom ==
  serial.version + Doing({"post", "put", "import", "rotate", "restore_version", "web_restore"})
     <= MaxVersions
SaltRoom == serial.salt + Doing({"rekey"}) <= MaxSalts
-----------------------------------------------------------------------------
(***************************************************************************)
(* History for the properties.  "issued": the salts that have been the     *)
(* environment's.  "tainted": the sessions that hold an obsolete key       *)
(* because a response wrote it back, or a dying worker left it there.      *)
(* "torn": the readers whose answer may not fit together.  The others are  *)
(* kept by every save of a row, below.                                     *)
(***************************************************************************)
Value == [sid: Nat, val: Vals \cup {NoVal}]
Retry == [sid: Nat, token: Tokens]

GhostState ==
  [issued: SUBSET Nat, tainted: SUBSET (Sessions \cup {NoSession}), torn: SUBSET Threads,
   stray: SUBSET Keys, written: SUBSET Value, unarchived: SUBSET Value,
   spent: SUBSET Retry, revived: SUBSET Nat]

\* The value a row holds.
Holding(row) == [sid |-> row.id, val |-> row.ct.val]

\* The names of secrets whose last save or restore used a key that is not the
\* environment's, or ran beside an open rekey.
Stray(k, salt) ==
  IF salt # env.salt \/ \E t \in Threads : InTransaction(t)
    THEN ghost.stray \cup {k} ELSE ghost.stray \ {k}

\* Attempts under way beside this one, with the same token or at a secret that
\* was destroyed and that this write inserts again.
Beside(t, k, row) ==
  {u \in Threads \ {t} :
     /\ thread[u].op \in {"post", "put"} /\ thread[u].name = k
     /\ \/ thread[u].row.token = row.token
        \/ thread[u].row.id = row.id /\ ~Exists(k)}

\* Tokens a write replaces, or applies beside another attempt.
Spent(t, k, row) ==
  {[sid |-> row.id, token |-> token] : token \in {token \in Tokens :
     \/ secrets[k].token = token /\ row.token # token
     \/ \E u \in Beside(t, k, row) : thread[u].row.token = token}}

\* A secret that stops being expired after a cleanup has selected it.
Revived(row) ==
  {row.id : u \in {u \in Threads : /\ thread[u].op = "cleanup" /\ row.id \in thread[u].ids
                                  /\ row.deleted # "expired"}}

\* What an open rekey listed of a destroyed secret, and writes back to the row
\* that a stale copy inserts again.
WrittenBack(k, row) ==
  {[sid |-> row.id, val |-> r.ct.val] :
     r \in {r \in UNION {tx[u].rows : u \in Threads} : r.id = row.id /\ ~Exists(k)}}

\* What a save that leaves this row behind adds to the history.
Recorded(t, k, row) ==
  [ghost EXCEPT !.stray = Stray(k, row.ct.salt),
                !.written = @ \cup {Holding(row)},
                !.spent = @ \cup Spent(t, k, row),
                !.revived = @ \cup Revived(row),
                !.unarchived = @ \cup WrittenBack(k, row)]
=============================================================================
