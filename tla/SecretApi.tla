------------------------------ MODULE SecretApi ------------------------------
(***************************************************************************)
(* The operations that write a project's secrets: the machine API of       *)
(* vault/api.py, which stores what its clients encrypted, the two web      *)
(* views that touch single rows, and the cleanup command.  A handler is a  *)
(* lookup, which keeps a copy of the row, and the statements that follow   *)
(* it.  A lookup that finds nothing answers 404 and changes nothing; it is *)
(* the falsity of the action's guard.                                      *)
(***************************************************************************)
EXTENDS VaultDb

\* What a client may send: encrypted under any salt the API has ever served.
ClientCiphertext == [salt: ghost.issued, val: Vals]

Begin(t, op, pc, k, row) ==
  thread' = [thread EXCEPT ![t] = [Idle EXCEPT !.op = op, !.pc = pc, !.name = k, !.row = row]]

Others == <<env, sess, tx>>

(***************************************************************************)
(* _write_secret up to secret.save(): the lookup, the idempotent replay,   *)
(* the 409 of a POST, and the new field values on the copy.                *)
(***************************************************************************)
\* Mutant: a deleted secret has forgotten its token.
ReplayLive(k, token) == Live(k) /\ token # NoToken /\ secrets[k].token = token

Replay(k, token) == Exists(k) /\ token # NoToken /\ secrets[k].token = token

WriteLookup(t) ==
  \E op \in {"post", "put"}, k \in Keys, ct \in ClientCiphertext, token \in Tokens \cup {NoToken} :
    /\ IsIdle(t, op) /\ RowRoom /\ VersionRoom
    /\ ~Replay(k, token)
    /\ op = "post" => ~Exists(k)
    /\ Begin(t, op, "save", k,
             [secrets[k] EXCEPT !.ct = ct, !.token = token, !.deleted = "null"])
    /\ UNCHANGED <<secrets, versions, serial, ghost, Others>>

\* One entry of import_secrets: as a PUT, but the row keeps its token.
ImportLookup(t) ==
  \E k \in Keys, ct \in ClientCiphertext :
    /\ IsIdle(t, "import") /\ RowRoom /\ VersionRoom
    /\ Begin(t, "import", "save", k, [secrets[k] EXCEPT !.ct = ct, !.deleted = "null"])
    /\ UNCHANGED <<secrets, versions, serial, ghost, Others>>

\* secret_rotate: only a live secret; every other field is the copy's.
RotateLookup(t) ==
  \E k \in Keys, ct \in ClientCiphertext :
    /\ IsIdle(t, "rotate") /\ VersionRoom
    /\ Live(k)
    /\ Begin(t, "rotate", "save", k, [secrets[k] EXCEPT !.ct = ct])
    /\ UNCHANGED <<secrets, versions, serial, ghost, Others>>

(***************************************************************************)
(* Restoring a version, over the API or in the browser: the secret is      *)
(* looked up, deleted or not, then the version.  The API then saves the    *)
(* whole row, the browser view only its ciphertext.                        *)
(***************************************************************************)
RestoreVersionLookup(t) ==
  \E op \in {"restore_version", "web_restore"}, k \in Keys :
    /\ IsIdle(t, op) /\ VersionRoom
    /\ Exists(k)
    /\ Begin(t, op, "get_version", k, secrets[k])
    /\ UNCHANGED <<secrets, versions, serial, ghost, Others>>

GetVersion(t) ==
  /\ thread[t].pc = "get_version"
  /\ \/ \E v \in versions :
          /\ v.sid = thread[t].row.id
          /\ thread' = [thread EXCEPT ![t].row.ct = v.ct,
                          ![t].pc = IF thread[t].op = "web_restore"
                                      THEN "save_ciphertext" ELSE "save"]
     \/ Finish(t)                         \* no such version
  /\ UNCHANGED <<secrets, versions, serial, ghost, Others>>

\* Mutant: secret_rotate saves the row and creates no version.
SaveUnarchived(t) ==
  LET k == thread[t].name
      copy == thread[t].row
      row == IF copy.id = 0 THEN [copy EXCEPT !.id = serial.row] ELSE copy
  IN /\ thread[t].pc = "save"
     /\ ~RowLocked(k)
     /\ IF Exists(k) /\ secrets[k].id # copy.id
          THEN /\ Finish(t)
               /\ UNCHANGED <<secrets, serial, ghost>>
          ELSE /\ secrets' = [secrets EXCEPT ![k] = row]
               /\ serial' = [serial EXCEPT !.row = IF copy.id = 0 THEN @ + 1 ELSE @]
               /\ IF thread[t].op = "rotate" THEN Finish(t)
                    ELSE thread' = [thread EXCEPT ![t].row = row, ![t].pc = "version"]
               /\ ghost' = Recorded(t, k, row)
     /\ UNCHANGED <<versions, Others>>

(***************************************************************************)
(* Model.save(): an UPDATE of every column by primary key, and an INSERT   *)
(* when the copy has no primary key or the UPDATE matched no row.  The     *)
(* INSERT fails if another row has the name by now.                        *)
(***************************************************************************)
Save(t) ==
  LET k == thread[t].name
      copy == thread[t].row
      row == IF copy.id = 0 THEN [copy EXCEPT !.id = serial.row] ELSE copy
  IN /\ thread[t].pc = "save"
     /\ ~RowLocked(k)
     /\ IF Exists(k) /\ secrets[k].id # copy.id
          THEN /\ Finish(t)
               /\ UNCHANGED <<secrets, serial, ghost>>
          ELSE /\ secrets' = [secrets EXCEPT ![k] = row]
               /\ serial' = [serial EXCEPT !.row = IF copy.id = 0 THEN @ + 1 ELSE @]
               /\ thread' = [thread EXCEPT ![t].row = row, ![t].pc = "version"]
               /\ ghost' = Recorded(t, k, row)
     /\ UNCHANGED <<versions, Others>>

\* save(update_fields=["ciphertext"]) of the browser's version restore.
SaveCiphertext(t) ==
  LET k == thread[t].name
      ct == thread[t].row.ct
  IN /\ thread[t].pc = "save_ciphertext"
     /\ ~RowLocked(k)
     /\ IF RowHasId(k, thread[t].row.id)
          THEN /\ secrets' = [secrets EXCEPT ![k].ct = ct]
               /\ Goto(t, "version")
               /\ ghost' = Recorded(t, k, [secrets[k] EXCEPT !.ct = ct])
          ELSE /\ Finish(t)
               /\ UNCHANGED <<secrets, ghost>>
     /\ UNCHANGED <<versions, serial, Others>>

\* Mutant: a secret keeps its newest version only.
ReplaceVersion(t) ==
  LET sid == thread[t].row.id
  IN /\ thread[t].pc = "version"
     /\ IF RowHasId(thread[t].name, sid)
          THEN /\ versions' = {v \in versions : v.sid # sid} \cup
                    {[vid |-> serial.version, sid |-> sid, ct |-> thread[t].row.ct, by |-> NoToken]}
               /\ serial' = [serial EXCEPT !.version = @ + 1]
          ELSE UNCHANGED <<versions, serial>>
     /\ Finish(t)
     /\ UNCHANGED <<secrets, ghost, Others>>

\* SecretVersion.objects.create; its foreign key fails when the secret is gone.
CreateVersion(t) ==
  LET sid == thread[t].row.id
      by == IF thread[t].op \in {"post", "put"} THEN thread[t].row.token ELSE NoToken
  IN /\ thread[t].pc = "version"
     /\ IF RowHasId(thread[t].name, sid)
          THEN /\ versions' = versions \cup
                    {[vid |-> serial.version, sid |-> sid, ct |-> thread[t].row.ct, by |-> by]}
               /\ serial' = [serial EXCEPT !.version = @ + 1]
          ELSE UNCHANGED <<versions, serial>>
     /\ Finish(t)
     /\ UNCHANGED <<secrets, ghost, Others>>
-----------------------------------------------------------------------------
(***************************************************************************)
(* soft_delete and restore change the copy's deleted_at and save only that *)
(* column; the API and the browser use the same two methods.               *)
(***************************************************************************)
DeleteLookup(t) ==
  \E k \in Keys :
    /\ IsIdle(t, "delete") /\ Live(k)
    /\ Begin(t, "delete", "save_deleted", k, [secrets[k] EXCEPT !.deleted = "recent"])
    /\ UNCHANGED <<secrets, versions, serial, ghost, Others>>

RestoreLookup(t) ==
  \E k \in Keys :
    /\ IsIdle(t, "restore") /\ Exists(k) /\ ~Live(k)
    /\ Begin(t, "restore", "save_deleted", k, [secrets[k] EXCEPT !.deleted = "null"])
    /\ UNCHANGED <<secrets, versions, serial, ghost, Others>>

\* Mutant: restore saves every column of its copy.
SaveWholeRow(t) ==
  LET k == thread[t].name
  IN /\ thread[t].pc = "save_deleted"
     /\ ~RowLocked(k)
     /\ IF RowHasId(k, thread[t].row.id)
          THEN /\ secrets' = [secrets EXCEPT ![k] = thread[t].row]
               /\ ghost' = Recorded(t, k, secrets[k])
          ELSE UNCHANGED <<secrets, ghost>>
     /\ Finish(t)
     /\ UNCHANGED <<versions, serial, Others>>

\* save(update_fields=["deleted_at"]) of either.
SaveDeletedAt(t) ==
  LET k == thread[t].name
      row == [secrets[k] EXCEPT !.deleted = thread[t].row.deleted]
  IN /\ thread[t].pc = "save_deleted"
     /\ ~RowLocked(k)
     /\ IF RowHasId(k, thread[t].row.id)
          THEN /\ secrets' = [secrets EXCEPT ![k] = row]
               /\ ghost' = Recorded(t, k, row)
          ELSE UNCHANGED <<secrets, ghost>>
     /\ Finish(t)
     /\ UNCHANGED <<versions, serial, Others>>

(***************************************************************************)
(* Hard deletes.  secret_force_delete selects one row and                  *)
(* cleanup_deleted_secrets every expired one; both then delete by primary  *)
(* key in one transaction, whatever the rows hold by then: the versions    *)
(* first, then the secrets.  A version created in between fails the        *)
(* deferred foreign key at the commit, and the deletion is rolled back.    *)
(***************************************************************************)
BeginDelete(t, op, ids) ==
  thread' = [thread EXCEPT ![t] = [Idle EXCEPT !.op = op, !.pc = "delete_versions", !.ids = ids]]

ForceDeleteLookup(t) ==
  \E k \in Keys :
    /\ IsIdle(t, "force_delete") /\ Exists(k)
    /\ BeginDelete(t, "force_delete", {secrets[k].id})
    /\ UNCHANGED <<secrets, versions, serial, ghost, Others>>

Expired == {k \in Keys : Exists(k) /\ secrets[k].deleted = "expired"}

\* Mutant: every deleted secret is selected.
SelectDeleted(t) ==
  LET deleted == {k \in Keys : Exists(k) /\ ~Live(k)}
  IN /\ IsIdle(t, "cleanup") /\ deleted # {}
     /\ BeginDelete(t, "cleanup", {secrets[k].id : k \in deleted})
     /\ UNCHANGED <<secrets, versions, serial, ghost, Others>>

CleanupSelect(t) ==
  /\ IsIdle(t, "cleanup") /\ Expired # {}
  /\ BeginDelete(t, "cleanup", {secrets[k].id : k \in Expired})
  /\ UNCHANGED <<secrets, versions, serial, ghost, Others>>

Owned(ids) == {v \in versions : v.sid \in ids}

\* Mutant: a hard delete without a transaction.
DeleteVersionsAtOnce(t) ==
  /\ thread[t].pc = "delete_versions"
  /\ \A v \in Owned(thread[t].ids) : ~VersionLocked(v.vid)
  /\ versions' = versions \ Owned(thread[t].ids)
  /\ Goto(t, "delete_secrets")
  /\ UNCHANGED <<secrets, serial, ghost, Others>>

\* The deletion locks the versions it deletes until it commits.
DeleteVersions(t) ==
  LET vs == Owned(thread[t].ids)
  IN /\ thread[t].pc = "delete_versions"
     /\ \A v \in vs : ~VersionLocked(v.vid)
     /\ tx' = [tx EXCEPT ![t].deleted = {v.vid : v \in vs}]
     /\ Goto(t, "delete_secrets")
     /\ UNCHANGED <<env, secrets, versions, serial, sess, ghost>>

DeleteSecrets(t) ==
  LET ids == thread[t].ids
  IN /\ thread[t].pc = "delete_secrets"
     /\ \A k \in Keys : secrets[k].id \in ids => ~RowLocked(k)
     /\ IF \A v \in Owned(ids) : v.vid \in tx[t].deleted
          THEN /\ secrets' = [k \in Keys |-> IF secrets[k].id \in ids THEN NoRow ELSE secrets[k]]
               /\ versions' = versions \ Owned(ids)
          ELSE UNCHANGED <<secrets, versions>>
     /\ CloseTransaction(t)
     /\ UNCHANGED <<env, serial, sess, ghost>>

(***************************************************************************)
(* Reads.  secret_detail and secrets_batch_get look rows up and then ask   *)
(* for the salt, export_secrets asks for the salt and then evaluates its   *)
(* query; the client derives the key from that salt.  Of the rows of one   *)
(* query any one is kept, in "row"; the salt is kept in "derived".         *)
(***************************************************************************)
GetLookup(t) ==
  \E k \in Keys :
    /\ IsIdle(t, "get") /\ Live(k)
    /\ Begin(t, "get", "read_salt", k, secrets[k])
    /\ ghost' = [ghost EXCEPT !.torn = IF k \in ghost.stray THEN @ \cup {t} ELSE @]
    /\ UNCHANGED <<secrets, versions, serial, Others>>

ReadSalt(t) ==
  /\ thread[t].pc = "read_salt"
  /\ thread' = [thread EXCEPT ![t].derived = env.salt, ![t].pc = "answer"]
  /\ UNCHANGED <<secrets, versions, serial, ghost, Others>>

ExportSalt(t) ==
  /\ IsIdle(t, "export")
  /\ thread' = [thread EXCEPT ![t] =
                  [Idle EXCEPT !.op = "export", !.pc = "read_rows", !.derived = env.salt]]
  /\ UNCHANGED <<secrets, versions, serial, ghost, Others>>

ReadRows(t) ==
  \E k \in Keys :
    /\ thread[t].pc = "read_rows" /\ Live(k)
    /\ thread' = [thread EXCEPT ![t].name = k, ![t].row = secrets[k], ![t].pc = "answer"]
    /\ ghost' = [ghost EXCEPT !.torn = IF k \in ghost.stray THEN @ \cup {t} ELSE @]
    /\ UNCHANGED <<secrets, versions, serial, Others>>

\* The answer goes out; an export may hold no secret.
Answer(t) ==
  /\ \/ thread[t].pc = "answer"
     \/ thread[t].pc = "read_rows" /\ ~\E k \in Keys : Live(k)
  /\ Finish(t)
  /\ ghost' = [ghost EXCEPT !.torn = @ \ {t}]
  /\ UNCHANGED <<secrets, versions, serial, Others>>

\* The recovery window of a deleted secret passes.
WindowPasses ==
  /\ "age" \in Ops
  /\ \E k \in Keys :
       /\ Exists(k) /\ secrets[k].deleted = "recent" /\ ~RowLocked(k)
       /\ secrets' = [secrets EXCEPT ![k].deleted = "expired"]
  /\ UNCHANGED <<versions, serial, thread, ghost, Others>>

SecretApiStep(t) ==
  \/ WriteLookup(t) \/ ImportLookup(t) \/ RotateLookup(t)
  \/ RestoreVersionLookup(t) \/ GetVersion(t)
  \/ Save(t) \/ SaveCiphertext(t) \/ CreateVersion(t)
  \/ DeleteLookup(t) \/ RestoreLookup(t) \/ SaveDeletedAt(t)
  \/ ForceDeleteLookup(t) \/ CleanupSelect(t) \/ DeleteVersions(t) \/ DeleteSecrets(t)
  \/ GetLookup(t) \/ ReadSalt(t) \/ ExportSalt(t) \/ ReadRows(t) \/ Answer(t)
=============================================================================
