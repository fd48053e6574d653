-------------------------------- MODULE Vault --------------------------------
(***************************************************************************)
(* One project's vault: the threads of the server run the API's and the    *)
(* browser's requests against the same rows, statement by statement, and   *)
(* any of them may be killed between two statements.                       *)
(***************************************************************************)
EXTENDS SecretApi, ProjectRekey

(***************************************************************************)
(* A freshly created project: one salt, no secrets, nobody has it unlocked.*)
(***************************************************************************)
Init ==
  /\ env = [salt |-> 1, requires_rekey |-> FALSE]
  /\ secrets = [k \in Keys |-> NoRow]
  /\ versions = {}
  /\ serial = [row |-> 1, version |-> 1, salt |-> 2]
  /\ sess = [s \in Sessions |-> NoKey]
  /\ thread = [t \in Threads |-> Idle]
  /\ tx = [t \in Threads |-> NoTx]
  /\ ghost = [issued |-> {1}, tainted |-> {}, torn |-> {}, stray |-> {}, written |-> {},
              unarchived |-> {}, spent |-> {}, revived |-> {}]

(***************************************************************************)
(* The worker process dies.  PostgreSQL rolls the open transaction back;   *)
(* statements already committed stay: a row may be saved whose version was *)
(* still to be created.                                                    *)
(***************************************************************************)
Crash(t) ==
  /\ "crash" \in Ops /\ thread[t] # Idle
  /\ CloseTransaction(t)
  /\ ghost' = [ghost EXCEPT
       !.unarchived = IF thread[t].pc = "version" THEN @ \cup {Holding(thread[t].row)} ELSE @,
       !.torn = @ \ {t},
       !.tainted = @ \cup tx[t].sessions]
  /\ UNCHANGED <<env, secrets, versions, serial, sess>>

(***************************************************************************)
(* A transaction waits for a row that another has written or deleted.      *)
(* PostgreSQL breaks a cycle by failing one of the statements; no view     *)
(* catches that error, so the transaction rolls back and the request ends. *)
(***************************************************************************)
WaitsFor(t, u) ==
  \/ /\ thread[t].pc = "reencrypt"
     /\ \E r \in First(tx[t].rows) : HoldsRow(u, r.name)
  \/ /\ thread[t].pc = "versions"
     /\ \E v \in Newest(tx[t].history) : HoldsVersion(u, v.vid)
  \/ /\ thread[t].pc = "delete_versions"
     /\ \E v \in Owned(thread[t].ids) : HoldsVersion(u, v.vid)
  \/ /\ thread[t].pc = "delete_secrets"
     /\ \E k \in Keys : secrets[k].id \in thread[t].ids /\ HoldsRow(u, k)

Deadlocked(t, u) == t # u /\ WaitsFor(t, u) /\ WaitsFor(u, t)

DeadlockDetected(t) ==
  /\ \E u \in Threads : Deadlocked(t, u)
  /\ CloseTransaction(t)
  /\ UNCHANGED <<env, secrets, versions, serial, sess, ghost>>

Next ==
  \/ \E t \in Threads : SecretApiStep(t) \/ RekeyStep(t) \/ RekeyRequest(t)
                        \/ DeadlockDetected(t) \/ Crash(t)
  \/ WindowPasses
  \/ RequireRekey

Spec == Init /\ [][Next]_vars

\* A thread that has begun a request goes on with it; a waiting one gets the
\* lock once it is free.  Nobody is obliged to send requests.
Proceed(t) ==
  \/ RekeyStep(t) \/ GetVersion(t) \/ Save(t) \/ SaveCiphertext(t) \/ CreateVersion(t)
  \/ SaveDeletedAt(t) \/ DeleteVersions(t) \/ DeleteSecrets(t) \/ DeadlockDetected(t)
  \/ ReadSalt(t) \/ ReadRows(t) \/ Answer(t)

FairSpec == Spec /\ \A t \in Threads : WF_vars(Proceed(t))
-----------------------------------------------------------------------------
\* The types of all the variables.
TypeOK ==
  /\ env \in [salt: Nat, requires_rekey: BOOLEAN]
  /\ secrets \in [Keys -> Row]
  /\ versions \subseteq Version
  /\ serial \in [row: Serial, version: Serial, salt: Serial]
  /\ sess \in [Sessions -> Nat]
  /\ thread \in [Threads -> ThreadState]
  /\ tx \in [Threads -> Transaction]
  /\ ghost \in GhostState

(***************************************************************************)
(* Nothing is ever stored under a key that cannot be derived again: the    *)
(* salt of every committed ciphertext has been the environment's.  The     *)
(* salt of a rekey that rolled back exists nowhere, so one row that        *)
(* escaped the rollback would be lost for good.                            *)
(***************************************************************************)
NoOrphanCiphertext ==
  /\ \A k \in Keys : Exists(k) => secrets[k].ct.salt \in ghost.issued
  /\ \A v \in versions : v.ct.salt \in ghost.issued

(***************************************************************************)
(* Why it holds: whatever a thread or a session may still write carries a  *)
(* salt that has been the environment's, and an open rekey writes under    *)
(* its own new salt only, which the commit makes the environment's.        *)
(***************************************************************************)
Known(key) == key \in ghost.issued \cup {NoKey}

SessionsKnown == \A s \in Sessions : Known(sess[s])

ThreadKnown(t) ==
  /\ Known(thread[t].key) /\ Known(thread[t].derived)
  /\ thread[t].pc \in {"save", "save_ciphertext", "version"}
       => thread[t].row.ct.salt \in ghost.issued
  /\ thread[t].pc = "update_or_create" => thread[t].key \in ghost.issued

TransactionKnown(t) ==
  /\ thread[t].pc \notin {"reencrypt", "versions"}
       => tx[t].rowWrites = {} /\ tx[t].versionWrites = {}
  /\ \A w \in tx[t].rowWrites : w.ct.salt = tx[t].new
  /\ \A w \in tx[t].versionWrites : w.ct.salt = tx[t].new

SaltInvariant ==
  /\ env.salt \in ghost.issued
  /\ NoOrphanCiphertext
  /\ SessionsKnown
  /\ \A t \in Threads : ThreadKnown(t) /\ TransactionKnown(t)

(***************************************************************************)
(* A live secret is under the project's present key, unless its last save  *)
(* or restore itself used an older key or ran beside an open rekey.        *)
(***************************************************************************)
LiveSecretsReadable ==
  \A k \in Keys : Live(k) => secrets[k].ct.salt = env.salt \/ k \in ghost.stray

(***************************************************************************)
(* After a rekey no session holds an obsolete key, except those the rekey  *)
(* still has to clean, those whose own response wrote it back, and those   *)
(* left behind by a worker that died before it had cleaned them.           *)
(***************************************************************************)
ObsoleteKeysAccounted ==
  \A s \in Sessions : sess[s] \in {NoKey, env.salt}
     \/ s \in ghost.tainted
     \/ \E t \in Threads : s \in tx[t].sessions

(***************************************************************************)
(* When a rekey commits, every version created before it listed the        *)
(* secrets is under the new key, the versions of deleted secrets included. *)
(***************************************************************************)
RekeyCoversHistory ==
  [][\A t \in Threads : Commit(t) =>
       \A v \in versions' : v.vid < tx[t].mark => v.ct.salt = env'.salt]_vars

(***************************************************************************)
(* Two rekeys never wait for each other: both write the secrets in key     *)
(* order and then the versions in the same order.                          *)
(***************************************************************************)
RekeysNeverDeadlock ==
  \A t, u \in Threads :
    Deadlocked(t, u) => ~(thread[t].op = "rekey" /\ thread[u].op = "rekey")

(***************************************************************************)
(* The current value of a secret is in its history, or the request that    *)
(* saved it is about to put it there, or died in between, or was the       *)
(* browser's, which adds secrets without a version; or a rekey wrote back  *)
(* what it had read before the secret was destroyed and inserted again.    *)
(***************************************************************************)
CurrentValueArchived ==
  \A k \in Keys : Exists(k) =>
    LET current == Holding(secrets[k])
    IN \/ \E v \in versions : v.sid = current.sid /\ v.ct.val = current.val
       \/ \E t \in Threads : thread[t].pc = "version" /\ Holding(thread[t].row) = current
       \/ current \in ghost.unarchived

(***************************************************************************)
(* What a reader is given fits together: the salt it derives its key from  *)
(* is the one the ciphertext is under.  The two come from two queries; the *)
(* only excuses are a rekey that commits between them and a secret that    *)
(* was under another key already.                                          *)
(***************************************************************************)
AnswersDecryptable ==
  \A t \in Threads : thread[t].pc = "answer" =>
    thread[t].row.ct.salt = thread[t].derived \/ t \in ghost.torn

(***************************************************************************)
(* A retry is not applied again: two versions made under one token are     *)
(* excused only if another write had replaced the token in between, or two *)
(* attempts ran side by side, or one outlived the secret's destruction.    *)
(* Deleting, restoring or rotating the secret makes it forget nothing.     *)
(***************************************************************************)
RetriesNotApplied ==
  \A v, w \in versions :
    v.by # NoToken /\ v.by = w.by /\ v.sid = w.sid /\ v.vid # w.vid
      => [sid |-> v.sid, token |-> v.by] \in ghost.spent

(***************************************************************************)
(* The cleanup destroys only what is past its recovery window, or was when *)
(* the cleanup selected it and has been restored or written since.         *)
(***************************************************************************)
CleanupSparesTheRest ==
  [][\A t \in Threads, k \in Keys :
       /\ thread[t].op = "cleanup" /\ DeleteSecrets(t)
       /\ Exists(k) /\ secrets'[k].id = 0
       => secrets[k].deleted = "expired" \/ secrets[k].id \in ghost.revived]_vars

(***************************************************************************)
(* All of it is a store of secrets whose history is append-only, holds     *)
(* what the secrets once held, and leaves only with its secret: no         *)
(* interleaving of requests, no crash, no deadlock and no rekey shows.     *)
(***************************************************************************)
Store == INSTANCE SecretStore WITH
  Vals <- Vals \cup {NoVal},
  rows <- [k \in Keys |-> [id |-> secrets[k].id, val |-> secrets[k].ct.val,
                          deleted |-> secrets[k].deleted # "null"]],
  history <- {[vid |-> v.vid, sid |-> v.sid, val |-> v.ct.val] : v \in versions},
  held <- ghost.written

StoreImplemented == Store!Spec

(***************************************************************************)
(* Every request ends: a rekey that fails or deadlocks releases its rows,  *)
(* and whoever waits for them goes on.                                     *)
(***************************************************************************)
RequestsEnd == \A t \in Threads : thread[t] # Idle ~> thread[t] = Idle
-----------------------------------------------------------------------------
(***************************************************************************)
(* What the documentation says of the code, and the code does not do.      *)
(***************************************************************************)

(***************************************************************************)
(* On success every Secret.ciphertext is re-encrypted under the new key    *)
(* (docs/INCIDENT_RESPONSE.md, section 4c; project_rekey's docstring).     *)
(* The code leaves the deleted secrets under the old one.                  *)
(***************************************************************************)
RekeyCoversEverySecret ==
  [][\A t \in Threads : Commit(t) =>
       \A k \in Keys : secrets'[k].id # 0 => secrets'[k].ct.salt = env'.salt]_vars
=============================================================================
