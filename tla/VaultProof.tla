----------------------------- MODULE VaultProof -----------------------------
(***************************************************************************)
(* Proofs about Vault, for any number of secrets, sessions and threads and *)
(* any bounds, in five parts, each of which rests on those before it: the  *)
(* types and the salts; that Vault implements SecretStore; what a rekey    *)
(* leaves behind; what the API promises of a secret's history; and that    *)
(* rekeys never wait for each other.                                       *)
(***************************************************************************)
EXTENDS Vault, TLAPS

\* The records a thread and its transaction start from have the types they should.
LEMMA InitialRecords ==
  /\ NoRow \in Row
  /\ Idle \in ThreadState
  /\ NoTx \in Transaction
  BY KeysAssumption
  DEF NoRow, Row, Ciphertext, NoCiphertext, DeletedAt, Idle, ThreadState, OpNames, Pcs,
         NoKey, NoTx, Transaction, Version

\* Ending a request, with or without a transaction, keeps the threads' types.
LEMMA RequestEnd ==
  ASSUME TypeOK, NEW t \in Threads
  PROVE  /\ Finish(t) => thread' \in [Threads -> ThreadState]
         /\ CloseTransaction(t) => /\ thread' \in [Threads -> ThreadState]
                                   /\ tx' \in [Threads -> Transaction]
  BY InitialRecords DEF TypeOK, Finish, CloseTransaction

\* Moving a thread on keeps its type.
LEMMA GotoType ==
  ASSUME TypeOK, NEW t \in Threads, NEW pc \in Pcs, Goto(t, pc)
  PROVE  thread' \in [Threads -> ThreadState]
  BY DEF TypeOK, Goto, ThreadState

\* A request that looked up a row starts with a well-typed thread.
LEMMA BeginType ==
  ASSUME TypeOK, NEW t \in Threads, NEW op \in OpNames, NEW pc \in Pcs, NEW k \in Keys,
         NEW row \in Row, Begin(t, op, pc, k, row)
  PROVE  thread' \in [Threads -> ThreadState]
  <1>1. [Idle EXCEPT !.op = op, !.pc = pc, !.name = k, !.row = row] \in ThreadState
    BY InitialRecords DEF ThreadState, Idle
  <1>2. QED
    BY <1>1 DEF TypeOK, Begin

\* So does a hard delete, and a request of the browser.
LEMMA BeginDeleteType ==
  ASSUME TypeOK, NEW t \in Threads, NEW op \in OpNames, NEW ids \in SUBSET Nat,
         BeginDelete(t, op, ids)
  PROVE  thread' \in [Threads -> ThreadState]
  <1>1. [Idle EXCEPT !.op = op, !.pc = "delete_versions", !.ids = ids] \in ThreadState
    BY InitialRecords DEF ThreadState, Idle, Pcs
  <1>2. QED
    BY <1>1 DEF TypeOK, BeginDelete

LEMMA BeginWebType ==
  ASSUME TypeOK, NEW t \in Threads, NEW op \in OpNames, NEW pc \in Pcs, NEW s \in Sessions,
         BeginWeb(t, op, pc, s)
  PROVE  thread' \in [Threads -> ThreadState]
  <1>1. [Idle EXCEPT !.op = op, !.pc = pc, !.session = s, !.key = sess[s]] \in ThreadState
    BY InitialRecords DEF TypeOK, ThreadState, Idle
  <1>2. QED
    BY <1>1 DEF TypeOK, BeginWeb
-----------------------------------------------------------------------------
\* Fields read from well-typed records.
LEMMA FieldTypes ==
  ASSUME TypeOK
  PROVE  /\ env.salt \in Nat /\ ghost.issued \subseteq Nat
         /\ serial.row \in Nat /\ serial.version \in Nat /\ serial.salt \in Nat
         /\ \A k \in Keys : secrets[k] \in Row /\ secrets[k].ct \in Ciphertext
                            /\ secrets[k].id \in Nat
         /\ \A v \in versions : v.vid \in Nat /\ v.sid \in Nat /\ v.ct \in Ciphertext
         /\ \A t \in Threads : thread[t] \in ThreadState /\ tx[t] \in Transaction
         /\ \A t \in Threads : thread[t].row \in Row /\ thread[t].row.ct \in Ciphertext
                               /\ thread[t].row.id \in Nat /\ thread[t].key \in Nat
                               /\ thread[t].name \in Keys
                               /\ thread[t].ids \in SUBSET Nat
  BY DEF TypeOK, GhostState, Row, Version, ThreadState, Serial

\* Row writes of the API keep the rows' types.
LEMMA StrayType ==
  ASSUME TypeOK, NEW k \in Keys, NEW salt
  PROVE  Stray(k, salt) \in SUBSET (Keys)
  BY DEF TypeOK, GhostState, Stray

\* What a save records is history of the right type, and issues no salt.
LEMMA HoldingType ==
  ASSUME NEW row \in Row
  PROVE  Holding(row) \in Value
  BY DEF Holding, Value, Row, Ciphertext

LEMMA RecordedType ==
  ASSUME TypeOK, NEW t \in Threads, NEW k \in Keys, NEW row \in Row
  PROVE  Recorded(t, k, row) \in GhostState
  <1>1. Stray(k, row.ct.salt) \in SUBSET (Keys)
    BY StrayType
  <1>2. Holding(row) \in Value
    BY HoldingType
  <1>3. Spent(t, k, row) \subseteq Retry
    BY DEF Spent, Retry, Row
  <1>4. Revived(row) \subseteq Nat
    BY DEF Revived, Row
  <1>5. WrittenBack(k, row) \subseteq Value
    <2>1. ASSUME NEW u \in Threads, NEW r \in tx[u].rows
          PROVE  [sid |-> row.id, val |-> r.ct.val] \in Value
      BY DEF TypeOK, Transaction, Ciphertext, Row, Value
    <2>2. QED
      BY <2>1 DEF WrittenBack
  <1>6. QED
    BY <1>1, <1>2, <1>3, <1>4, <1>5 DEF Recorded, TypeOK, GhostState

LEMMA RecordedIssued ==
  ASSUME TypeOK, NEW t, NEW k, NEW row
  PROVE  Recorded(t, k, row).issued = ghost.issued
  BY DEF Recorded, TypeOK, GhostState

LEMMA SecretApiType ==
  ASSUME TypeOK, NEW t \in Threads, SecretApiStep(t)
  PROVE  TypeOK'
  <1> USE FieldTypes
  <1>1. CASE WriteLookup(t)
    <2>1. PICK op \in {"post", "put"}, k \in Keys, ct \in ClientCiphertext,
               token \in Tokens \cup {NoToken} :
             Begin(t, op, "save", k,
                   [secrets[k] EXCEPT !.ct = ct, !.token = token, !.deleted = "null"])
      BY <1>1 DEF WriteLookup
    <2>2. [secrets[k] EXCEPT !.ct = ct, !.token = token, !.deleted = "null"] \in Row
      BY ZenonT(40) DEF ClientCiphertext, Row, Ciphertext, DeletedAt
    <2>3. thread' \in [Threads -> ThreadState]
      BY <2>1, <2>2, BeginType DEF OpNames, Pcs
    <2>4. QED
      BY <1>1, <2>3 DEF WriteLookup, TypeOK, Others
  <1>2. CASE ImportLookup(t)
    <2>1. PICK k \in Keys, ct \in ClientCiphertext :
             Begin(t, "import", "save", k, [secrets[k] EXCEPT !.ct = ct, !.deleted = "null"])
      BY <1>2 DEF ImportLookup
    <2>2. [secrets[k] EXCEPT !.ct = ct, !.deleted = "null"] \in Row
      BY ZenonT(40) DEF ClientCiphertext, Row, Ciphertext, DeletedAt
    <2>3. thread' \in [Threads -> ThreadState]
      BY <2>1, <2>2, BeginType DEF OpNames, Pcs
    <2>4. QED
      BY <1>2, <2>3 DEF ImportLookup, TypeOK, Others
  <1>3. CASE RotateLookup(t)
    <2>1. PICK k \in Keys, ct \in ClientCiphertext :
             Begin(t, "rotate", "save", k, [secrets[k] EXCEPT !.ct = ct])
      BY <1>3 DEF RotateLookup
    <2>2. [secrets[k] EXCEPT !.ct = ct] \in Row
      BY DEF ClientCiphertext, Row, Ciphertext
    <2>3. thread' \in [Threads -> ThreadState]
      BY <2>1, <2>2, BeginType DEF OpNames, Pcs
    <2>4. QED
      BY <1>3, <2>3 DEF RotateLookup, TypeOK, Others
  <1>4. CASE RestoreVersionLookup(t)
    <2>1. PICK op \in {"restore_version", "web_restore"}, k \in Keys :
             Begin(t, op, "get_version", k, secrets[k])
      BY <1>4 DEF RestoreVersionLookup
    <2>2. thread' \in [Threads -> ThreadState]
      BY <2>1, BeginType DEF OpNames, Pcs
    <2>3. QED
      BY <1>4, <2>2 DEF RestoreVersionLookup, TypeOK, Others
  <1>5. CASE GetVersion(t)
    <2>1. thread' \in [Threads -> ThreadState]
      <3>1. CASE Finish(t)
        BY <3>1, RequestEnd
      <3>2. ASSUME NEW v \in versions, NEW pc \in {"save_ciphertext", "save"},
                   thread' = [thread EXCEPT ![t].row.ct = v.ct, ![t].pc = pc]
            PROVE  thread' \in [Threads -> ThreadState]
        <4>1. [thread[t].row EXCEPT !.ct = v.ct] \in Row
          BY DEF Row
        <4>2. [thread[t] EXCEPT !.row = [@ EXCEPT !.ct = v.ct], !.pc = pc] \in ThreadState
          BY <4>1 DEF ThreadState, Pcs
        <4>3. QED
          BY <3>2, <4>2 DEF TypeOK
      <3>3. QED
        BY <1>5, <3>1, <3>2 DEF GetVersion
    <2>2. QED
      BY <1>5, <2>1 DEF GetVersion, TypeOK, Others
  <1>6. CASE Save(t)
    <2> DEFINE k == thread[t].name
               copy == thread[t].row
               row == IF copy.id = 0 THEN [copy EXCEPT !.id = serial.row] ELSE copy
    <2>1. row \in Row
      BY DEF TypeOK, Row, Serial
    <2>2. CASE Finish(t) /\ UNCHANGED <<secrets, serial, ghost>>
      BY <1>6, <2>2, RequestEnd DEF Save, TypeOK, Others
    <2>3. CASE /\ secrets' = [secrets EXCEPT ![k] = row]
               /\ serial' = [serial EXCEPT !.row = IF copy.id = 0 THEN @ + 1 ELSE @]
               /\ thread' = [thread EXCEPT ![t].row = row, ![t].pc = "version"]
               /\ ghost' = Recorded(t, k, row)
      <3>1. secrets' \in [Keys -> Row]
        BY <2>1, <2>3 DEF TypeOK
      <3>2. serial' \in [row: Serial, version: Serial, salt: Serial]
        BY <2>3 DEF TypeOK, Serial
      <3>3. thread' \in [Threads -> ThreadState]
        <4>1. [thread[t] EXCEPT !.row = row, !.pc = "version"] \in ThreadState
          BY <2>1, ZenonT(40) DEF ThreadState, Pcs
        <4>2. QED
          BY <2>3, <4>1 DEF TypeOK
      <3>4. ghost' \in GhostState
        BY <2>1, <2>3, RecordedType
      <3>5. QED
        BY <1>6, <3>1, <3>2, <3>3, <3>4 DEF Save, TypeOK, Others
    <2>4. QED
      BY <1>6, <2>2, <2>3 DEF Save
  <1>7. CASE SaveCiphertext(t)
    <2> DEFINE k == thread[t].name
               ct == thread[t].row.ct
    <2>1. CASE RowHasId(k, thread[t].row.id)
      <3>1. secrets' \in [Keys -> Row]
        BY <1>7, <2>1 DEF SaveCiphertext, TypeOK, Row
      <3>2. thread' \in [Threads -> ThreadState]
        BY <1>7, <2>1, GotoType DEF SaveCiphertext, Pcs
      <3>3. ghost' \in GhostState
        <4>1. [secrets[k] EXCEPT !.ct = ct] \in Row
          BY DEF Row
        <4>2. QED
          BY <1>7, <2>1, <4>1, RecordedType DEF SaveCiphertext
      <3>4. QED
        BY <1>7, <3>1, <3>2, <3>3 DEF SaveCiphertext, TypeOK, Others
    <2>2. CASE ~RowHasId(k, thread[t].row.id)
      BY <1>7, <2>2, RequestEnd DEF SaveCiphertext, TypeOK, Others
    <2>3. QED
      BY <2>1, <2>2
  <1>8. CASE CreateVersion(t)
    <2> DEFINE sid == thread[t].row.id
               by == IF thread[t].op \in {"post", "put"} THEN thread[t].row.token ELSE NoToken
               new == [vid |-> serial.version, sid |-> sid, ct |-> thread[t].row.ct, by |-> by]
    <2>1. new \in Version
      BY DEF TypeOK, Version, Row, Serial
    <2>2. versions' \subseteq Version
      BY <1>8, <2>1 DEF CreateVersion, TypeOK
    <2>3. serial' \in [row: Serial, version: Serial, salt: Serial]
      BY <1>8 DEF CreateVersion, TypeOK, Serial
    <2>4. thread' \in [Threads -> ThreadState]
      BY <1>8, RequestEnd DEF CreateVersion
    <2>5. QED
      BY <1>8, <2>2, <2>3, <2>4 DEF CreateVersion, TypeOK, Others
  <1>9. CASE DeleteLookup(t)
    <2>1. PICK k \in Keys :
             Begin(t, "delete", "save_deleted", k, [secrets[k] EXCEPT !.deleted = "recent"])
      BY <1>9 DEF DeleteLookup
    <2>2. [secrets[k] EXCEPT !.deleted = "recent"] \in Row
      BY DEF Row, DeletedAt
    <2>3. thread' \in [Threads -> ThreadState]
      BY <2>1, <2>2, BeginType DEF OpNames, Pcs
    <2>4. QED
      BY <1>9, <2>3 DEF DeleteLookup, TypeOK, Others
  <1>10. CASE RestoreLookup(t)
    <2>1. PICK k \in Keys :
             Begin(t, "restore", "save_deleted", k, [secrets[k] EXCEPT !.deleted = "null"])
      BY <1>10 DEF RestoreLookup
    <2>2. [secrets[k] EXCEPT !.deleted = "null"] \in Row
      BY DEF Row, DeletedAt
    <2>3. thread' \in [Threads -> ThreadState]
      BY <2>1, <2>2, BeginType DEF OpNames, Pcs
    <2>4. QED
      BY <1>10, <2>3 DEF RestoreLookup, TypeOK, Others
  <1>11. CASE SaveDeletedAt(t)
    <2> DEFINE k == thread[t].name
    <2>1. thread' \in [Threads -> ThreadState]
      BY <1>11, RequestEnd DEF SaveDeletedAt
    <2>2. CASE RowHasId(k, thread[t].row.id)
      <3>1. thread[t].row.deleted \in DeletedAt
        BY DEF Row
      <3> DEFINE row == [secrets[k] EXCEPT !.deleted = thread[t].row.deleted]
      <3>5. row \in Row
        BY <3>1 DEF Row
      <3>2. secrets' \in [Keys -> Row]
        BY <1>11, <2>2, <3>5 DEF SaveDeletedAt, TypeOK
      <3>3. ghost' \in GhostState
        BY <1>11, <2>2, <3>5, RecordedType DEF SaveDeletedAt
      <3>4. QED
        BY <1>11, <2>1, <3>2, <3>3 DEF SaveDeletedAt, TypeOK, Others
    <2>3. CASE ~RowHasId(k, thread[t].row.id)
      BY <1>11, <2>1, <2>3 DEF SaveDeletedAt, TypeOK, Others
    <2>4. QED
      BY <2>2, <2>3
  <1>12. CASE ForceDeleteLookup(t)
    <2>1. PICK k \in Keys : BeginDelete(t, "force_delete", {secrets[k].id})
      BY <1>12 DEF ForceDeleteLookup
    <2>2. thread' \in [Threads -> ThreadState]
      BY <2>1, BeginDeleteType DEF OpNames
    <2>3. QED
      BY <1>12, <2>2 DEF ForceDeleteLookup, TypeOK, Others
  <1>13. CASE CleanupSelect(t)
    <2>1. {secrets[k].id : k \in Expired} \in SUBSET Nat
      BY DEF Expired
    <2>2. thread' \in [Threads -> ThreadState]
      BY <1>13, <2>1, BeginDeleteType DEF CleanupSelect, OpNames
    <2>3. QED
      BY <1>13, <2>2 DEF CleanupSelect, TypeOK, Others
  <1>14. CASE DeleteVersions(t)
    <2>1. thread' \in [Threads -> ThreadState]
      BY <1>14, GotoType DEF DeleteVersions, Pcs
    <2>2. tx' \in [Threads -> Transaction]
      <3>1. {v.vid : v \in Owned(thread[t].ids)} \in SUBSET Nat
        BY DEF Owned
      <3>2. [tx[t] EXCEPT !.deleted = {v.vid : v \in Owned(thread[t].ids)}] \in Transaction
        BY <3>1 DEF Transaction
      <3>3. QED
        BY <1>14, <3>2 DEF DeleteVersions, TypeOK
    <2>3. QED
      BY <1>14, <2>1, <2>2 DEF DeleteVersions, TypeOK
  <1>15. CASE DeleteSecrets(t)
    <2>1. /\ thread' \in [Threads -> ThreadState]
          /\ tx' \in [Threads -> Transaction]
      BY <1>15, RequestEnd DEF DeleteSecrets
    <2>2. secrets' \in [Keys -> Row] /\ versions' \subseteq Version
      BY <1>15, InitialRecords DEF DeleteSecrets, TypeOK
    <2>3. QED
      BY <1>15, <2>1, <2>2 DEF DeleteSecrets, TypeOK
  <1>16. CASE GetLookup(t)
    <2>1. PICK k \in Keys : Begin(t, "get", "read_salt", k, secrets[k])
      BY <1>16 DEF GetLookup
    <2>2. thread' \in [Threads -> ThreadState]
      BY <2>1, BeginType DEF OpNames, Pcs
    <2>3. QED
      BY <1>16, <2>2 DEF GetLookup, TypeOK, GhostState, Others
  <1>17. CASE ReadSalt(t)
    <2>1. [thread[t] EXCEPT !.derived = env.salt, !.pc = "answer"] \in ThreadState
      BY DEF ThreadState, Pcs
    <2>2. QED
      BY <1>17, <2>1 DEF ReadSalt, TypeOK, Others
  <1>18. CASE ExportSalt(t)
    <2>1. [Idle EXCEPT !.op = "export", !.pc = "read_rows", !.derived = env.salt] \in ThreadState
      BY InitialRecords DEF ThreadState, Idle, OpNames, Pcs
    <2>2. QED
      BY <1>18, <2>1 DEF ExportSalt, TypeOK, Others
  <1>19. CASE ReadRows(t)
    <2>1. PICK k \in Keys :
             /\ thread' = [thread EXCEPT ![t].name = k, ![t].row = secrets[k],
                                        ![t].pc = "answer"]
             /\ ghost' = [ghost EXCEPT !.torn = IF k \in ghost.stray THEN @ \cup {t} ELSE @]
      BY <1>19 DEF ReadRows
    <2>2. [thread[t] EXCEPT !.name = k, !.row = secrets[k], !.pc = "answer"] \in ThreadState
      BY DEF ThreadState, Pcs
    <2>3. thread' \in [Threads -> ThreadState]
      BY <2>1, <2>2 DEF TypeOK
    <2>4. ghost' \in GhostState
      BY <2>1 DEF TypeOK, GhostState
    <2>5. UNCHANGED <<env, secrets, versions, serial, sess, tx>>
      BY <1>19 DEF ReadRows, Others
    <2>6. QED
      BY <2>3, <2>4, <2>5 DEF TypeOK
  <1>20. CASE Answer(t)
    <2>1. thread' \in [Threads -> ThreadState]
      BY <1>20, RequestEnd DEF Answer
    <2>2. QED
      BY <1>20, <2>1 DEF Answer, TypeOK, GhostState, Others
  <1>21. QED
    BY <1>1, <1>2, <1>3, <1>4, <1>5, <1>6, <1>7, <1>8, <1>9, <1>10, <1>11, <1>12, <1>13,
       <1>14, <1>15, <1>16, <1>17, <1>18, <1>19, <1>20 DEF SecretApiStep
-----------------------------------------------------------------------------
\* The browser's requests and the rekey keep the types too.
LEMMA RekeyRequestType ==
  ASSUME TypeOK, NEW t \in Threads, RekeyRequest(t)
  PROVE  TypeOK'
  <1>1. thread' \in [Threads -> ThreadState]
    <2>1. CASE Lock(t)
      <3>1. PICK s \in Sessions :
               thread' = [thread EXCEPT ![t] =
                            [Idle EXCEPT !.op = "lock", !.pc = "respond", !.session = s]]
        BY <2>1 DEF Lock
      <3>2. [Idle EXCEPT !.op = "lock", !.pc = "respond", !.session = s] \in ThreadState
        BY InitialRecords DEF ThreadState, Idle, OpNames, Pcs
      <3>3. QED
        BY <3>1, <3>2 DEF TypeOK
    <2>2. CASE \E s \in Sessions, op \in OpNames, pc \in Pcs : BeginWeb(t, op, pc, s)
      BY <2>2, BeginWebType
    <2>3. QED
      BY <2>1, <2>2 DEF RekeyRequest, StartUnlock, ModifySession, StartAdd, StartRekey,
                        OpNames, Pcs
  <1>2. UNCHANGED <<env, secrets, versions, serial, sess, tx, ghost>>
    BY DEF RekeyRequest, StartUnlock, Lock, ModifySession, StartAdd, StartRekey
  <1>3. QED
    BY <1>1, <1>2 DEF TypeOK

\* Re-encrypting changes the key and keeps a ciphertext a ciphertext.
LEMMA RewrapType ==
  ASSUME TypeOK, NEW t \in Threads, NEW ct \in Ciphertext
  PROVE  Rewrap(t, ct) \in Ciphertext
  BY DEF TypeOK, Transaction, Rewrap, Ciphertext

LEMMA CommitType ==
  ASSUME TypeOK, NEW t \in Threads
  PROVE  /\ \A k \in Keys : RowAfter(t, k) \in Row
         /\ \A v \in versions : VersionAfter(t, v) \in Version
  <1>1. ASSUME NEW k \in Keys PROVE RowAfter(t, k) \in Row
    <2>1. CASE \E w \in tx[t].rowWrites : w.name = k
      <3> DEFINE w == CHOOSE w \in tx[t].rowWrites : w.name = k
      <3>1. w \in tx[t].rowWrites
        BY <2>1
      <3>2. w.ct \in Ciphertext
        BY <3>1 DEF TypeOK, Transaction
      <3>3. [secrets[k] EXCEPT !.ct = w.ct] \in Row
        BY <3>2 DEF TypeOK, Row
      <3>4. QED
        BY <2>1, <3>3 DEF RowAfter
    <2>2. CASE ~\E w \in tx[t].rowWrites : w.name = k
      BY <2>2 DEF RowAfter, TypeOK
    <2>3. QED
      BY <2>1, <2>2
  <1>2. ASSUME NEW v \in versions PROVE VersionAfter(t, v) \in Version
    <2>1. CASE \E w \in tx[t].versionWrites : w.vid = v.vid
      <3> DEFINE w == CHOOSE w \in tx[t].versionWrites : w.vid = v.vid
      <3>1. w \in tx[t].versionWrites
        BY <2>1
      <3>2. w.ct \in Ciphertext
        BY <3>1 DEF TypeOK, Transaction
      <3>3. [v EXCEPT !.ct = w.ct] \in Version
        BY <3>2 DEF TypeOK, Version
      <3>4. QED
        BY <2>1, <3>3 DEF VersionAfter
    <2>2. CASE ~\E w \in tx[t].versionWrites : w.vid = v.vid
      BY <2>2 DEF VersionAfter, TypeOK
    <2>3. QED
      BY <2>1, <2>2
  <1>3. QED
    BY <1>1, <1>2

LEMMA RekeyType ==
  ASSUME TypeOK, NEW t \in Threads, RekeyStep(t)
  PROVE  TypeOK'
  <1> USE FieldTypes
  <1>1. CASE Respond(t)
    <2>1. thread' \in [Threads -> ThreadState]
      BY <1>1, RequestEnd DEF Respond
    <2>2. sess' \in [Sessions -> Nat]
      BY <1>1 DEF Respond, TypeOK
    <2>3. thread[t].session \in Sessions \cup {NoSession}
      BY DEF ThreadState
    <2>4. ghost' \in GhostState
      BY <1>1, <2>3 DEF Respond, TypeOK, GhostState, Tainted
    <2>5. QED
      BY <1>1, <2>1, <2>2, <2>4 DEF Respond, TypeOK
  <1>2. CASE DeriveKey(t)
    <2>1. thread' \in [Threads -> ThreadState]
      <3>1. PICK key \in {env.salt, NoKey} :
               thread' = [thread EXCEPT ![t].derived = key, ![t].pc = "verify"]
        BY <1>2 DEF DeriveKey
      <3>2. key \in Nat
        BY DEF NoKey
      <3>3. [thread[t] EXCEPT !.derived = key, !.pc = "verify"] \in ThreadState
        BY <3>2 DEF ThreadState, Pcs
      <3>4. QED
        BY <3>1, <3>3 DEF TypeOK
    <2>2. QED
      BY <1>2, <2>1 DEF DeriveKey, TypeOK
  <1>3. CASE VerifyKey(t)
    <2>1. CASE Finish(t) /\ UNCHANGED <<tx, serial>>
      BY <1>3, <2>1, RequestEnd DEF VerifyKey, TypeOK
    <2>2. CASE /\ thread' = [thread EXCEPT ![t].key = thread[t].derived, ![t].pc = "respond"]
               /\ UNCHANGED <<tx, serial>>
      <3>1. [thread[t] EXCEPT !.key = thread[t].derived, !.pc = "respond"] \in ThreadState
        BY DEF ThreadState, Pcs
      <3>2. thread' \in [Threads -> ThreadState]
        BY <2>2, <3>1 DEF TypeOK
      <3>3. QED
        BY <1>3, <2>2, <3>2 DEF VerifyKey, TypeOK
    <2>3. CASE /\ Goto(t, "list")
               /\ tx' = [tx EXCEPT ![t].new = serial.salt]
               /\ serial' = [serial EXCEPT !.salt = @ + 1]
      <3>1. thread' \in [Threads -> ThreadState]
        BY <2>3, GotoType DEF Pcs
      <3>2. [tx[t] EXCEPT !.new = serial.salt] \in Transaction
        BY DEF Transaction
      <3>3. tx' \in [Threads -> Transaction]
        BY <2>3, <3>2 DEF TypeOK
      <3>4. serial' \in [row: Serial, version: Serial, salt: Serial]
        BY <2>3 DEF TypeOK, Serial
      <3>5. QED
        BY <1>3, <3>1, <3>3, <3>4 DEF VerifyKey, TypeOK
    <2>4. QED
      BY <1>3, <2>1, <2>2, <2>3 DEF VerifyKey
  <1>4. CASE UpdateOrCreate(t)
    <2>1. PICK k \in Keys, val \in Vals :
             LET ct == [salt |-> thread[t].key, val |-> val]
             IN /\ IF Exists(k)
                     THEN /\ secrets' = [secrets EXCEPT ![k].ct = ct]
                          /\ UNCHANGED serial
                     ELSE /\ secrets' = [secrets EXCEPT ![k] =
                                            [NoRow EXCEPT !.id = serial.row, !.ct = ct]]
                          /\ serial' = [serial EXCEPT !.row = @ + 1]
                /\ ghost' = [Recorded(t, k, secrets'[k]) EXCEPT
                               !.unarchived = @ \cup {Holding(secrets'[k])}]
      BY <1>4 DEF UpdateOrCreate
    <2> DEFINE ct == [salt |-> thread[t].key, val |-> val]
    <2>2. ct \in Ciphertext
      BY DEF Ciphertext
    <2>3. /\ [secrets[k] EXCEPT !.ct = ct] \in Row
          /\ [NoRow EXCEPT !.id = serial.row, !.ct = ct] \in Row
      BY <2>2, InitialRecords DEF Row, TypeOK, Serial
    <2>4. secrets' \in [Keys -> Row]
      BY <2>1, <2>3 DEF TypeOK
    <2>5. serial' \in [row: Serial, version: Serial, salt: Serial]
      BY <2>1 DEF TypeOK, Serial
    <2>6. ghost' \in GhostState
      <3>1. secrets'[k] \in Row
        BY <2>4
      <3>2. Holding(secrets'[k]) \in Value /\ Recorded(t, k, secrets'[k]) \in GhostState
        BY <3>1, HoldingType, RecordedType
      <3>3. QED
        BY <2>1, <3>2 DEF GhostState
    <2>7. thread' \in [Threads -> ThreadState]
      BY <1>4, RequestEnd DEF UpdateOrCreate
    <2>8. QED
      BY <1>4, <2>4, <2>5, <2>6, <2>7 DEF UpdateOrCreate, TypeOK
  <1>5. CASE ListLiveSecrets(t)
    <2> DEFINE rows == {[name |-> k, id |-> secrets[k].id, ct |-> secrets[k].ct] :
                          k \in {k \in Keys : Live(k)}}
    <2>1. rows \subseteq [name: Keys, id: Nat, ct: Ciphertext]
      OBVIOUS
    <2> HIDE DEF rows
    <2>2. [tx[t] EXCEPT !.rows = rows, !.mark = serial.version] \in Transaction
      BY <2>1 DEF Transaction
    <2>3. tx' \in [Threads -> Transaction]
      BY <1>5, <2>2 DEF ListLiveSecrets, TypeOK, rows
    <2>4. thread' \in [Threads -> ThreadState]
      BY <1>5, GotoType DEF ListLiveSecrets, Pcs
    <2>5. QED
      BY <1>5, <2>3, <2>4 DEF ListLiveSecrets, TypeOK
  <1>6. CASE ReencryptSecret(t)
    <2>1. PICK r \in tx[t].rows :
             \/ CloseTransaction(t)
             \/ /\ tx' = [tx EXCEPT ![t].rows = @ \ {r},
                           ![t].rowWrites = @ \cup {[name |-> r.name, ct |-> Rewrap(t, r.ct)]}]
                /\ UNCHANGED thread
      BY <1>6 DEF ReencryptSecret, First
    <2>2. CASE CloseTransaction(t)
      BY <1>6, <2>2, RequestEnd DEF ReencryptSecret, TypeOK
    <2>3. ASSUME tx' = [tx EXCEPT ![t].rows = @ \ {r},
                          ![t].rowWrites = @ \cup {[name |-> r.name, ct |-> Rewrap(t, r.ct)]}],
                 UNCHANGED thread
          PROVE  TypeOK'
      <3>1. r.name \in Keys /\ r.ct \in Ciphertext
        BY DEF Transaction
      <3>2. [name |-> r.name, ct |-> Rewrap(t, r.ct)] \in [name: Keys, ct: Ciphertext]
        BY <3>1, RewrapType
      <3>3. [tx[t] EXCEPT !.rows = @ \ {r},
               !.rowWrites = @ \cup {[name |-> r.name, ct |-> Rewrap(t, r.ct)]}] \in Transaction
        BY <3>2 DEF Transaction
      <3>4. tx' \in [Threads -> Transaction]
        BY <2>3, <3>3 DEF TypeOK
      <3>5. QED
        BY <1>6, <2>3, <3>4 DEF ReencryptSecret, TypeOK
    <2>4. QED
      BY <2>1, <2>2, <2>3
  <1>7. CASE ListAllSecrets(t)
    <2> DEFINE owners == {[name |-> k, id |-> secrets[k].id] : k \in {k \in Keys : Exists(k)}}
    <2>1. owners \subseteq [name: Keys, id: Nat]
      OBVIOUS
    <2>2. [tx[t] EXCEPT !.owners = owners] \in Transaction
      BY <2>1 DEF Transaction
    <2>3. tx' \in [Threads -> Transaction]
      BY <1>7, <2>2 DEF ListAllSecrets, TypeOK
    <2>4. thread' \in [Threads -> ThreadState]
      BY <1>7, GotoType DEF ListAllSecrets, Pcs
    <2>5. QED
      BY <1>7, <2>3, <2>4 DEF ListAllSecrets, TypeOK
  <1>8. CASE ListVersions(t)
    <2>1. PICK o \in tx[t].owners :
             tx' = [tx EXCEPT ![t].owners = @ \ {o},
                              ![t].history = {v \in versions : v.sid = o.id}]
      BY <1>8 DEF ListVersions, First
    <2>2. {v \in versions : v.sid = o.id} \subseteq Version
      BY DEF TypeOK
    <2>3. [tx[t] EXCEPT !.owners = @ \ {o}, !.history = {v \in versions : v.sid = o.id}]
            \in Transaction
      BY <2>2 DEF Transaction
    <2>4. tx' \in [Threads -> Transaction]
      BY <2>1, <2>3 DEF TypeOK
    <2>5. QED
      BY <1>8, <2>4 DEF ListVersions, TypeOK
  <1>9. CASE ReencryptVersion(t)
    <2>1. PICK v \in tx[t].history :
             \/ CloseTransaction(t)
             \/ /\ tx' = [tx EXCEPT ![t].history = @ \ {v},
                           ![t].versionWrites = @ \cup {[vid |-> v.vid, ct |-> Rewrap(t, v.ct)]}]
                /\ UNCHANGED thread
      BY <1>9 DEF ReencryptVersion, Newest
    <2>2. CASE CloseTransaction(t)
      BY <1>9, <2>2, RequestEnd DEF ReencryptVersion, TypeOK
    <2>3. ASSUME tx' = [tx EXCEPT ![t].history = @ \ {v},
                          ![t].versionWrites = @ \cup {[vid |-> v.vid, ct |-> Rewrap(t, v.ct)]}],
                 UNCHANGED thread
          PROVE  TypeOK'
      <3>1. v.vid \in Nat /\ v.ct \in Ciphertext
        BY DEF Transaction, Version
      <3>2. [vid |-> v.vid, ct |-> Rewrap(t, v.ct)] \in [vid: Nat, ct: Ciphertext]
        BY <3>1, RewrapType
      <3>3. [tx[t] EXCEPT !.history = @ \ {v},
               !.versionWrites = @ \cup {[vid |-> v.vid, ct |-> Rewrap(t, v.ct)]}] \in Transaction
        BY <3>2 DEF Transaction
      <3>4. tx' \in [Threads -> Transaction]
        BY <2>3, <3>3 DEF TypeOK
      <3>5. QED
        BY <1>9, <2>3, <3>4 DEF ReencryptVersion, TypeOK
    <2>4. QED
      BY <2>1, <2>2, <2>3
  <1>10. CASE Commit(t)
    <2>1. env' \in [salt: Nat, requires_rekey: BOOLEAN] /\ ghost' \in GhostState
      <3>1. tx[t].new \in Nat
        BY DEF Transaction
      <3>2. QED
        BY <1>10, <3>1 DEF Commit, Reading, TypeOK, GhostState
    <2>2. secrets' \in [Keys -> Row] /\ versions' \subseteq Version
      BY <1>10, CommitType DEF Commit
    <2>3. [NoTx EXCEPT !.sessions = Sessions] \in Transaction
      BY InitialRecords DEF NoTx, Transaction
    <2>4. tx' \in [Threads -> Transaction]
      BY <1>10, <2>3 DEF Commit, TypeOK
    <2>5. thread' \in [Threads -> ThreadState]
      BY <1>10, GotoType DEF Commit, Pcs
    <2>6. QED
      BY <1>10, <2>1, <2>2, <2>4, <2>5 DEF Commit, TypeOK
  <1>11. CASE ForgetSession(t)
    <2>1. PICK s \in tx[t].sessions :
             /\ sess' = [sess EXCEPT ![s] = NoKey]
             /\ tx' = [tx EXCEPT ![t].sessions = @ \ {s}]
             /\ ghost' = [ghost EXCEPT !.tainted = @ \ {s}]
      BY <1>11 DEF ForgetSession
    <2>2. [tx[t] EXCEPT !.sessions = @ \ {s}] \in Transaction
      BY DEF Transaction
    <2>3. tx' \in [Threads -> Transaction] /\ sess' \in [Sessions -> Nat]
      BY <2>1, <2>2 DEF TypeOK, NoKey
    <2>4. ghost' \in GhostState
      BY <2>1 DEF TypeOK, GhostState
    <2>5. QED
      BY <1>11, <2>3, <2>4 DEF ForgetSession, TypeOK
  <1>12. CASE ForgetOwnKey(t)
    <2>1. thread' \in [Threads -> ThreadState]
      <3>1. [thread[t] EXCEPT !.key = NoKey, !.pc = "respond"] \in ThreadState
        BY DEF ThreadState, Pcs, NoKey
      <3>2. QED
        BY <1>12, <3>1, RequestEnd DEF ForgetOwnKey, TypeOK
    <2>2. QED
      BY <1>12, <2>1 DEF ForgetOwnKey, TypeOK
  <1>13. QED
    BY <1>1, <1>2, <1>3, <1>4, <1>5, <1>6, <1>7, <1>8, <1>9, <1>10, <1>11, <1>12 DEF RekeyStep
-----------------------------------------------------------------------------
(***************************************************************************)
(* Every variable keeps its type, whatever requests run and wherever they  *)
(* are interrupted.                                                        *)
(***************************************************************************)
THEOREM TypeCorrect == Spec => []TypeOK
  <1>1. Init => TypeOK
    BY InitialRecords DEF Init, TypeOK, GhostState, Serial, NoKey
  <1>2. TypeOK /\ [Next]_vars => TypeOK'
    <2> SUFFICES ASSUME TypeOK, [Next]_vars PROVE TypeOK'
      OBVIOUS
    <2>1. ASSUME NEW t \in Threads, SecretApiStep(t) PROVE TypeOK'
      BY <2>1, SecretApiType
    <2>2. ASSUME NEW t \in Threads, RekeyStep(t) PROVE TypeOK'
      BY <2>2, RekeyType
    <2>3. ASSUME NEW t \in Threads, RekeyRequest(t) PROVE TypeOK'
      BY <2>3, RekeyRequestType
    <2>4. ASSUME NEW t \in Threads, DeadlockDetected(t) PROVE TypeOK'
      BY <2>4, RequestEnd DEF DeadlockDetected, TypeOK
    <2>5. ASSUME NEW t \in Threads, Crash(t) PROVE TypeOK'
      <3>1. /\ thread' \in [Threads -> ThreadState]
            /\ tx' \in [Threads -> Transaction]
        BY <2>5, RequestEnd DEF Crash
      <3>2. /\ Holding(thread[t].row) \in Value
            /\ tx[t].sessions \subseteq Sessions
        BY FieldTypes, HoldingType DEF Transaction
      <3>3. ghost' \in GhostState
        BY <2>5, <3>2 DEF Crash, TypeOK, GhostState
      <3>4. QED
        BY <2>5, <3>1, <3>3 DEF Crash, TypeOK
    <2>6. CASE WindowPasses
      <3>1. \A k \in Keys : [secrets[k] EXCEPT !.deleted = "expired"] \in Row
        BY FieldTypes DEF Row, DeletedAt
      <3>2. QED
        BY <2>6, <3>1 DEF WindowPasses, TypeOK, Others
    <2>7. CASE RequireRekey
      BY <2>7 DEF RequireRekey, TypeOK
    <2>8. CASE UNCHANGED vars
      BY <2>8 DEF vars, TypeOK
    <2>9. QED
      BY <2>1, <2>2, <2>3, <2>4, <2>5, <2>6, <2>7, <2>8 DEF Next
  <1>3. QED
    BY <1>1, <1>2, PTL DEF Spec
-----------------------------------------------------------------------------
(***************************************************************************)
(* A step of one thread that issues no salt: it is enough to look at that  *)
(* thread and at the rows and sessions.                                    *)
(***************************************************************************)
LEMMA LocalStep ==
  ASSUME SaltInvariant, NEW t \in Threads,
         \A u \in Threads \ {t} : thread'[u] = thread[u] /\ tx'[u] = tx[u],
         ghost'.issued = ghost.issued, env'.salt = env.salt,
         NoOrphanCiphertext', SessionsKnown', ThreadKnown(t)', TransactionKnown(t)'
  PROVE  SaltInvariant'
  BY DEF SaltInvariant, ThreadKnown, TransactionKnown, Known

\* Between requests there is nothing to check.
LEMMA IdleKnown ==
  ASSUME TypeOK, NEW t \in Threads, CloseTransaction(t)
  PROVE  /\ ThreadKnown(t)' /\ TransactionKnown(t)'
         /\ \A u \in Threads \ {t} : thread'[u] = thread[u] /\ tx'[u] = tx[u]
  BY DEF TypeOK, CloseTransaction, Finish, Idle, NoTx, ThreadKnown, TransactionKnown, Known,
         NoKey

LEMMA FinishKnown ==
  ASSUME TypeOK, SaltInvariant, NEW t \in Threads, Finish(t), UNCHANGED tx,
         thread[t].pc \notin {"reencrypt", "versions"}
  PROVE  /\ ThreadKnown(t)' /\ TransactionKnown(t)'
         /\ \A u \in Threads \ {t} : thread'[u] = thread[u] /\ tx'[u] = tx[u]
  BY DEF TypeOK, Finish, Idle, ThreadKnown, TransactionKnown, Known, NoKey, SaltInvariant

\* Rows, versions and sessions that a step leaves alone stay known.
LEMMA SameRows ==
  ASSUME SaltInvariant, ghost'.issued = ghost.issued
  PROVE  /\ UNCHANGED <<secrets, versions>> => NoOrphanCiphertext'
         /\ UNCHANGED sess => SessionsKnown'
  BY DEF SaltInvariant, NoOrphanCiphertext, SessionsKnown, Known, Exists

\* A request that begins holds no key but its session's, and a row it may save
\* is under a salt that has been issued.
LEMMA BeginKnown ==
  ASSUME TypeOK, SaltInvariant, NEW t \in Threads, thread[t] = Idle,
         NEW op, NEW pc \in {"save", "get_version", "save_deleted"}, NEW k, NEW row,
         Begin(t, op, pc, k, row), pc = "save" => row.ct.salt \in ghost.issued,
         UNCHANGED tx, ghost'.issued = ghost.issued
  PROVE  /\ ThreadKnown(t)' /\ TransactionKnown(t)'
         /\ \A u \in Threads \ {t} : thread'[u] = thread[u] /\ tx'[u] = tx[u]
  <1>1. thread'[t] = [Idle EXCEPT !.op = op, !.pc = pc, !.name = k, !.row = row]
    BY DEF TypeOK, Begin
  <1>2. /\ thread'[t].pc = pc /\ thread'[t].row = row
        /\ thread'[t].key = NoKey /\ thread'[t].derived = NoKey
    BY <1>1 DEF Idle
  <1>3. tx[t].rowWrites = {} /\ tx[t].versionWrites = {}
    BY DEF SaltInvariant, TransactionKnown, Idle
  <1>4. ThreadKnown(t)'
    BY <1>2 DEF ThreadKnown, Known
  <1>5. TransactionKnown(t)'
    BY <1>2, <1>3 DEF TransactionKnown
  <1>6. \A u \in Threads \ {t} : thread'[u] = thread[u] /\ tx'[u] = tx[u]
    BY DEF TypeOK, Begin
  <1>7. QED
    BY <1>4, <1>5, <1>6

LEMMA BeginWebKnown ==
  ASSUME TypeOK, SaltInvariant, NEW t \in Threads, thread[t] = Idle,
         NEW op, NEW pc \in {"salt", "respond", "update_or_create"}, NEW s \in Sessions,
         BeginWeb(t, op, pc, s), pc = "update_or_create" => sess[s] # NoKey,
         UNCHANGED tx, ghost'.issued = ghost.issued
  PROVE  /\ ThreadKnown(t)' /\ TransactionKnown(t)'
         /\ \A u \in Threads \ {t} : thread'[u] = thread[u] /\ tx'[u] = tx[u]
  <1>1. thread'[t] = [Idle EXCEPT !.op = op, !.pc = pc, !.session = s, !.key = sess[s]]
    BY DEF TypeOK, BeginWeb
  <1>2. thread'[t].pc = pc /\ thread'[t].key = sess[s] /\ thread'[t].derived = NoKey
    BY <1>1 DEF Idle
  <1>3. tx[t].rowWrites = {} /\ tx[t].versionWrites = {}
    BY DEF SaltInvariant, TransactionKnown, Idle
  <1>4. ThreadKnown(t)'
    BY <1>2 DEF SaltInvariant, SessionsKnown, ThreadKnown, Known
  <1>5. TransactionKnown(t)'
    BY <1>2, <1>3 DEF TransactionKnown
  <1>6. \A u \in Threads \ {t} : thread'[u] = thread[u] /\ tx'[u] = tx[u]
    BY DEF TypeOK, BeginWeb
  <1>7. QED
    BY <1>4, <1>5, <1>6

\* A thread that moves on outside the rewriting part of a rekey.
LEMMA MoveKnown ==
  ASSUME TypeOK, SaltInvariant, NEW t \in Threads, NEW next,
         thread[t].pc \notin {"reencrypt", "versions"},
         thread' = [thread EXCEPT ![t] = next],
         Known(next.key), Known(next.derived),
         next.pc \in {"save", "save_ciphertext", "version"}
           => next.row.ct.salt \in ghost.issued,
         next.pc = "update_or_create" => next.key \in ghost.issued,
         \A u \in Threads \ {t} : tx'[u] = tx[u],
         tx'[t].rowWrites = tx[t].rowWrites, tx'[t].versionWrites = tx[t].versionWrites,
         ghost'.issued = ghost.issued
  PROVE  /\ ThreadKnown(t)' /\ TransactionKnown(t)'
         /\ \A u \in Threads \ {t} : thread'[u] = thread[u] /\ tx'[u] = tx[u]
  <1>1. thread'[t] = next /\ \A u \in Threads \ {t} : thread'[u] = thread[u]
    BY DEF TypeOK
  <1>2. tx[t].rowWrites = {} /\ tx[t].versionWrites = {}
    BY DEF SaltInvariant, TransactionKnown
  <1>3. ThreadKnown(t)'
    BY <1>1 DEF ThreadKnown, Known
  <1>4. TransactionKnown(t)'
    BY <1>2 DEF TransactionKnown
  <1>5. QED
    BY <1>1, <1>3, <1>4

\* A step of one thread that changes no row, no session and no salt.
LEMMA QuietStep ==
  ASSUME SaltInvariant, NEW t \in Threads, UNCHANGED <<env, secrets, versions, sess>>,
         ghost'.issued = ghost.issued, ThreadKnown(t)', TransactionKnown(t)',
         \A u \in Threads \ {t} : thread'[u] = thread[u] /\ tx'[u] = tx[u]
  PROVE  SaltInvariant'
  BY SameRows, LocalStep

\* A row the API writes is under a salt that has been issued.
LEMMA RowStep ==
  ASSUME SaltInvariant, UNCHANGED versions, ghost'.issued = ghost.issued,
         \A k \in Keys : \/ secrets'[k].ct.salt \in ghost.issued
                         \/ secrets'[k].id = 0
                         \/ secrets'[k].id = secrets[k].id /\ secrets'[k].ct = secrets[k].ct
  PROVE  NoOrphanCiphertext'
  BY DEF SaltInvariant, NoOrphanCiphertext, Exists

LEMMA ApiLookupSalts ==
  ASSUME TypeOK, SaltInvariant, NEW t \in Threads,
         \/ WriteLookup(t) \/ ImportLookup(t) \/ RotateLookup(t) \/ RestoreVersionLookup(t)
         \/ DeleteLookup(t) \/ RestoreLookup(t) \/ ForceDeleteLookup(t) \/ CleanupSelect(t)
  PROVE  SaltInvariant'
  <1>1. UNCHANGED <<env, secrets, versions, serial, sess, tx, ghost>> /\ thread[t] = Idle
    BY DEF WriteLookup, ImportLookup, RotateLookup, RestoreVersionLookup, DeleteLookup,
           RestoreLookup, ForceDeleteLookup, CleanupSelect, Others, IsIdle
  <1>2. ASSUME NEW op, NEW pc \in {"save", "get_version", "save_deleted"}, NEW k \in Keys,
               NEW row, Begin(t, op, pc, k, row),
               pc = "save" => row.ct.salt \in ghost.issued
        PROVE  SaltInvariant'
    BY <1>1, <1>2, BeginKnown, QuietStep
  <1>3. ASSUME NEW op, NEW ids, BeginDelete(t, op, ids) PROVE SaltInvariant'
    <2> DEFINE next == [Idle EXCEPT !.op = op, !.pc = "delete_versions", !.ids = ids]
    <2>1. next.pc = "delete_versions" /\ next.key = NoKey /\ next.derived = NoKey
      BY DEF Idle
    <2>2. thread' = [thread EXCEPT ![t] = next]
      BY <1>3 DEF BeginDelete
    <2>3. thread[t].pc = "idle"
      BY <1>1 DEF Idle
    <2> HIDE DEF next
    <2>4. QED
      BY <1>1, <2>1, <2>2, <2>3, MoveKnown, QuietStep DEF Known
  <1>4. \A ct \in ClientCiphertext : ct.salt \in ghost.issued
    BY DEF ClientCiphertext
  <1>5. ASSUME NEW k \in Keys, NEW ct, NEW token
        PROVE  /\ [secrets[k] EXCEPT !.ct = ct, !.token = token, !.deleted = "null"].ct = ct
               /\ [secrets[k] EXCEPT !.ct = ct, !.deleted = "null"].ct = ct
               /\ [secrets[k] EXCEPT !.ct = ct].ct = ct
    BY FieldTypes DEF Row
  <1>6. CASE WriteLookup(t)
    <2>1. PICK op \in {"post", "put"}, k \in Keys, ct \in ClientCiphertext,
               token \in Tokens \cup {NoToken} :
             Begin(t, op, "save", k,
                   [secrets[k] EXCEPT !.ct = ct, !.token = token, !.deleted = "null"])
      BY <1>6 DEF WriteLookup
    <2> DEFINE row == [secrets[k] EXCEPT !.ct = ct, !.token = token, !.deleted = "null"]
    <2>2. row.ct.salt \in ghost.issued
      BY <1>4, <1>5
    <2>3. Begin(t, op, "save", k, row)
      BY <2>1
    <2> HIDE DEF row
    <2>4. QED
      BY <1>2, <2>2, <2>3
  <1>7. CASE ImportLookup(t)
    BY <1>2, <1>4, <1>5, <1>7 DEF ImportLookup
  <1>8. CASE RotateLookup(t)
    BY <1>2, <1>4, <1>5, <1>8 DEF RotateLookup
  <1>9. CASE RestoreVersionLookup(t)
    BY <1>2, <1>9 DEF RestoreVersionLookup
  <1>10. CASE DeleteLookup(t)
    BY <1>2, <1>10 DEF DeleteLookup
  <1>11. CASE RestoreLookup(t)
    BY <1>2, <1>11 DEF RestoreLookup
  <1>12. CASE ForceDeleteLookup(t)
    BY <1>3, <1>12 DEF ForceDeleteLookup
  <1>13. CASE CleanupSelect(t)
    BY <1>3, <1>13 DEF CleanupSelect
  <1>14. QED
    BY <1>6, <1>7, <1>8, <1>9, <1>10, <1>11, <1>12, <1>13

LEMMA ApiWriteSalts ==
  ASSUME TypeOK, SaltInvariant, NEW t \in Threads,
         \/ GetVersion(t) \/ Save(t) \/ SaveCiphertext(t) \/ CreateVersion(t)
         \/ SaveDeletedAt(t) \/ DeleteVersions(t) \/ DeleteSecrets(t)
  PROVE  SaltInvariant'
  <1> USE FieldTypes
  <1>1. thread[t].pc \notin {"reencrypt", "versions"}
    BY DEF GetVersion, Save, SaveCiphertext, CreateVersion, SaveDeletedAt, DeleteVersions,
           DeleteSecrets
  <1>2. /\ UNCHANGED <<env, sess>> /\ ghost'.issued = ghost.issued
        /\ thread[t].pc \in {"save", "save_ciphertext", "version"}
             => thread[t].row.ct.salt \in ghost.issued
        /\ Known(thread[t].key) /\ Known(thread[t].derived)
    <2>1. UNCHANGED <<env, sess>> /\ ghost'.issued = ghost.issued
      BY RecordedIssued
      DEF GetVersion, Save, SaveCiphertext, CreateVersion, SaveDeletedAt, DeleteVersions,
             DeleteSecrets, Others
    <2>2. QED
      BY <2>1 DEF SaltInvariant, ThreadKnown
  <1>3. CASE GetVersion(t)
    <2>1. CASE Finish(t)
      BY <1>1, <1>2, <1>3, <2>1, FinishKnown, QuietStep DEF GetVersion, Others
    <2>2. ASSUME NEW v \in versions, NEW pc \in {"save_ciphertext", "save"},
                 thread' = [thread EXCEPT ![t].row.ct = v.ct, ![t].pc = pc]
          PROVE  SaltInvariant'
      <3> DEFINE next == [thread[t] EXCEPT !.row.ct = v.ct, !.pc = pc]
      <3>1. thread' = [thread EXCEPT ![t] = next]
        BY <2>2 DEF TypeOK
      <3>2. next.pc = pc /\ next.key = thread[t].key /\ next.derived = thread[t].derived
        BY DEF ThreadState
      <3>3. next.row = [thread[t].row EXCEPT !.ct = v.ct]
        BY DEF ThreadState
      <3>4. next.row.ct = v.ct
        BY <3>3 DEF Row
      <3>5. v.ct.salt \in ghost.issued
        BY DEF SaltInvariant, NoOrphanCiphertext
      <3>6. UNCHANGED <<secrets, versions, tx>>
        BY <1>3 DEF GetVersion, Others
      <3> HIDE DEF next
      <3>7. QED
        BY <1>1, <1>2, <3>1, <3>2, <3>4, <3>5, <3>6, MoveKnown, QuietStep
    <2>3. QED
      BY <1>3, <2>1, <2>2 DEF GetVersion
  <1>4. CASE Save(t)
    <2> DEFINE k == thread[t].name
               copy == thread[t].row
               row == IF copy.id = 0 THEN [copy EXCEPT !.id = serial.row] ELSE copy
    <2>1. CASE Finish(t) /\ UNCHANGED secrets
      BY <1>1, <1>2, <1>4, <2>1, FinishKnown, QuietStep DEF Save, Others
    <2>2. CASE /\ secrets' = [secrets EXCEPT ![k] = row]
               /\ thread' = [thread EXCEPT ![t].row = row, ![t].pc = "version"]
      <3> DEFINE next == [thread[t] EXCEPT !.row = row, !.pc = "version"]
      <3>1. row.ct = copy.ct
        BY DEF Row
      <3>2. copy.ct.salt \in ghost.issued
        BY <1>2, <1>4 DEF Save
      <3> HIDE DEF row
      <3>3. thread' = [thread EXCEPT ![t] = next]
        BY <2>2 DEF TypeOK
      <3>4. /\ next.pc = "version" /\ next.key = thread[t].key
            /\ next.derived = thread[t].derived /\ next.row = row
        BY DEF ThreadState
      <3>5. \A n \in Keys : secrets'[n] = row \/ secrets'[n] = secrets[n]
        BY <2>2 DEF TypeOK
      <3>6. UNCHANGED <<versions, tx>>
        BY <1>4 DEF Save, Others
      <3>7. NoOrphanCiphertext'
        BY <1>2, <3>1, <3>2, <3>5, <3>6, RowStep
      <3> HIDE DEF next
      <3>8. /\ ThreadKnown(t)' /\ TransactionKnown(t)'
            /\ \A u \in Threads \ {t} : thread'[u] = thread[u] /\ tx'[u] = tx[u]
        BY <1>1, <1>2, <3>1, <3>2, <3>3, <3>4, <3>6, MoveKnown
      <3>9. QED
        BY <1>2, <3>7, <3>8, SameRows, LocalStep
    <2>3. QED
      BY <1>4, <2>1, <2>2 DEF Save
  <1>5. CASE SaveCiphertext(t)
    <2> DEFINE k == thread[t].name
               ct == thread[t].row.ct
    <2>1. CASE Finish(t) /\ UNCHANGED secrets
      BY <1>1, <1>2, <1>5, <2>1, FinishKnown, QuietStep DEF SaveCiphertext, Others
    <2>2. CASE secrets' = [secrets EXCEPT ![k].ct = ct] /\ Goto(t, "version")
      <3> DEFINE next == [thread[t] EXCEPT !.pc = "version"]
      <3>1. ct.salt \in ghost.issued
        BY <1>2, <1>5 DEF SaveCiphertext
      <3>2. thread' = [thread EXCEPT ![t] = next]
        BY <2>2 DEF Goto, TypeOK
      <3>3. /\ next.pc = "version" /\ next.key = thread[t].key
            /\ next.derived = thread[t].derived /\ next.row.ct = ct
        BY DEF ThreadState
      <3>4. \A n \in Keys : secrets'[n].ct = ct \/ secrets'[n] = secrets[n]
        BY <2>2 DEF TypeOK, Row
      <3>5. UNCHANGED <<versions, tx>>
        BY <1>5 DEF SaveCiphertext, Others
      <3>6. NoOrphanCiphertext'
        BY <1>2, <3>1, <3>4, <3>5, RowStep
      <3> HIDE DEF next
      <3>7. /\ ThreadKnown(t)' /\ TransactionKnown(t)'
            /\ \A u \in Threads \ {t} : thread'[u] = thread[u] /\ tx'[u] = tx[u]
        BY <1>1, <1>2, <3>1, <3>2, <3>3, <3>5, MoveKnown
      <3>8. QED
        BY <1>2, <3>6, <3>7, SameRows, LocalStep
    <2>3. QED
      BY <1>5, <2>1, <2>2 DEF SaveCiphertext
  <1>6. CASE CreateVersion(t)
    <2>1. \A v \in versions' : v \in versions \/ v.ct = thread[t].row.ct
      BY <1>6 DEF CreateVersion
    <2>2. thread[t].row.ct.salt \in ghost.issued
      BY <1>2, <1>6 DEF CreateVersion
    <2>3. NoOrphanCiphertext'
      BY <1>2, <1>6, <2>1, <2>2 DEF CreateVersion, SaltInvariant, NoOrphanCiphertext, Exists
    <2>4. Finish(t) /\ UNCHANGED tx
      BY <1>6 DEF CreateVersion, Others
    <2>5. QED
      BY <1>1, <1>2, <2>3, <2>4, FinishKnown, SameRows, LocalStep
  <1>7. CASE SaveDeletedAt(t)
    <2>1. \A n \in Keys : secrets'[n].id = secrets[n].id /\ secrets'[n].ct = secrets[n].ct
      BY <1>7 DEF SaveDeletedAt, TypeOK, Row
    <2>2. Finish(t) /\ UNCHANGED <<tx, versions>>
      BY <1>7 DEF SaveDeletedAt, Others
    <2>3. NoOrphanCiphertext'
      BY <1>2, <2>1, <2>2, RowStep
    <2>4. QED
      BY <1>1, <1>2, <2>2, <2>3, FinishKnown, SameRows, LocalStep
  <1>8. CASE DeleteVersions(t)
    <2> DEFINE next == [thread[t] EXCEPT !.pc = "delete_secrets"]
    <2>1. thread' = [thread EXCEPT ![t] = next]
      BY <1>8 DEF DeleteVersions, Goto, TypeOK
    <2>2. /\ next.pc = "delete_secrets" /\ next.key = thread[t].key
          /\ next.derived = thread[t].derived
      BY DEF ThreadState
    <2>3. /\ \A u \in Threads \ {t} : tx'[u] = tx[u]
          /\ tx'[t].rowWrites = tx[t].rowWrites /\ tx'[t].versionWrites = tx[t].versionWrites
      <3>1. PICK ids : tx' = [tx EXCEPT ![t].deleted = ids]
        BY <1>8 DEF DeleteVersions
      <3>2. tx'[t] = [tx[t] EXCEPT !.deleted = ids] /\ \A u \in Threads \ {t} : tx'[u] = tx[u]
        BY <3>1 DEF TypeOK
      <3>3. QED
        BY <3>2 DEF Transaction
    <2>4. UNCHANGED <<secrets, versions>>
      BY <1>8 DEF DeleteVersions
    <2> HIDE DEF next
    <2>5. QED
      BY <1>1, <1>2, <2>1, <2>2, <2>3, <2>4, MoveKnown, QuietStep
  <1>9. CASE DeleteSecrets(t)
    <2>1. /\ \A n \in Keys : secrets'[n] = NoRow \/ secrets'[n] = secrets[n]
          /\ versions' \subseteq versions
      BY <1>9 DEF DeleteSecrets
    <2>2. NoOrphanCiphertext'
      BY <1>2, <2>1 DEF SaltInvariant, NoOrphanCiphertext, Exists, NoRow
    <2>3. CloseTransaction(t)
      BY <1>9 DEF DeleteSecrets
    <2>4. QED
      BY <1>2, <2>2, <2>3, IdleKnown, SameRows, LocalStep
  <1>10. QED
    BY <1>3, <1>4, <1>5, <1>6, <1>7, <1>8, <1>9

\* Reading writes nothing, and the salt it reads is the environment's.
LEMMA ApiReadSalts ==
  ASSUME TypeOK, SaltInvariant, NEW t \in Threads,
         \/ GetLookup(t) \/ ReadSalt(t) \/ ExportSalt(t) \/ ReadRows(t) \/ Answer(t)
  PROVE  SaltInvariant'
  <1> USE FieldTypes
  <1>1. UNCHANGED <<env, secrets, versions, sess, tx>> /\ ghost'.issued = ghost.issued
    BY DEF GetLookup, ReadSalt, ExportSalt, ReadRows, Answer, Others, TypeOK, GhostState
  <1>2. Known(env.salt) /\ Known(thread[t].key) /\ Known(thread[t].derived) /\ Known(NoKey)
    BY DEF SaltInvariant, ThreadKnown, Known
  <1>3. thread[t].pc \notin {"reencrypt", "versions"}
    <2>1. thread[t] = Idle \/ thread[t].pc \in {"read_salt", "read_rows", "answer"}
      BY DEF GetLookup, ReadSalt, ExportSalt, ReadRows, Answer, IsIdle
    <2>2. QED
      BY <2>1 DEF Idle
  <1>4. ASSUME NEW next, thread' = [thread EXCEPT ![t] = next],
               next.pc \in {"read_salt", "read_rows", "answer"},
               Known(next.key), Known(next.derived)
        PROVE  SaltInvariant'
    BY <1>1, <1>3, <1>4, MoveKnown, QuietStep
  <1>5. CASE GetLookup(t)
    <2>1. PICK k \in Keys : Begin(t, "get", "read_salt", k, secrets[k])
      BY <1>5 DEF GetLookup
    <2> DEFINE next == [Idle EXCEPT !.op = "get", !.pc = "read_salt", !.name = k,
                                   !.row = secrets[k]]
    <2>2. thread' = [thread EXCEPT ![t] = next]
      BY <2>1 DEF Begin
    <2>3. next.pc = "read_salt" /\ next.key = NoKey /\ next.derived = NoKey
      BY DEF Idle
    <2> HIDE DEF next
    <2>4. QED
      BY <1>2, <1>4, <2>2, <2>3
  <1>6. CASE ReadSalt(t)
    <2> DEFINE next == [thread[t] EXCEPT !.derived = env.salt, !.pc = "answer"]
    <2>1. thread' = [thread EXCEPT ![t] = next]
      BY <1>6 DEF ReadSalt, TypeOK
    <2>2. next.pc = "answer" /\ next.key = thread[t].key /\ next.derived = env.salt
      BY DEF ThreadState
    <2> HIDE DEF next
    <2>3. QED
      BY <1>2, <1>4, <2>1, <2>2
  <1>7. CASE ExportSalt(t)
    <2> DEFINE next == [Idle EXCEPT !.op = "export", !.pc = "read_rows", !.derived = env.salt]
    <2>1. thread' = [thread EXCEPT ![t] = next]
      BY <1>7 DEF ExportSalt
    <2>2. next.pc = "read_rows" /\ next.key = NoKey /\ next.derived = env.salt
      BY DEF Idle
    <2> HIDE DEF next
    <2>3. QED
      BY <1>2, <1>4, <2>1, <2>2
  <1>8. CASE ReadRows(t)
    <2>1. PICK k \in Keys :
             thread' = [thread EXCEPT ![t].name = k, ![t].row = secrets[k], ![t].pc = "answer"]
      BY <1>8 DEF ReadRows
    <2> DEFINE next == [thread[t] EXCEPT !.name = k, !.row = secrets[k], !.pc = "answer"]
    <2>2. thread' = [thread EXCEPT ![t] = next]
      BY <2>1 DEF TypeOK
    <2>3. next.pc = "answer" /\ next.key = thread[t].key /\ next.derived = thread[t].derived
      BY DEF ThreadState
    <2> HIDE DEF next
    <2>4. QED
      BY <1>2, <1>4, <2>2, <2>3
  <1>9. CASE Answer(t)
    BY <1>1, <1>3, <1>9, FinishKnown, QuietStep DEF Answer
  <1>10. QED
    BY <1>5, <1>6, <1>7, <1>8, <1>9

\* The browser's requests and the session's own steps.
LEMMA SessionSalts ==
  ASSUME TypeOK, SaltInvariant, NEW t \in Threads,
         \/ RekeyRequest(t) \/ Respond(t) \/ DeriveKey(t) \/ VerifyKey(t)
         \/ UpdateOrCreate(t) \/ ForgetSession(t) \/ ForgetOwnKey(t)
  PROVE  SaltInvariant'
  <1> USE FieldTypes
  <1>1. /\ UNCHANGED <<env, versions>> /\ ghost'.issued = ghost.issued
        /\ Known(thread[t].key) /\ Known(thread[t].derived)
        /\ env.salt \in ghost.issued
    <2>1. UNCHANGED <<env, versions>>
      BY DEF RekeyRequest, StartUnlock, Lock, ModifySession, StartAdd, StartRekey, Respond,
             DeriveKey, VerifyKey, UpdateOrCreate, ForgetSession, ForgetOwnKey
    <2>2. ghost'.issued = ghost.issued
      <3>1. CASE UpdateOrCreate(t)
        <4>1. PICK k \in Keys : ghost' = [Recorded(t, k, secrets'[k]) EXCEPT
                                          !.unarchived = @ \cup {Holding(secrets'[k])}]
          BY <3>1 DEF UpdateOrCreate
        <4>2. QED
          BY <4>1, RecordedIssued DEF Recorded, TypeOK, GhostState
      <3>2. QED
        BY <3>1 DEF RekeyRequest, StartUnlock, Lock, ModifySession, StartAdd, StartRekey, Respond,
               DeriveKey, VerifyKey, ForgetSession, ForgetOwnKey, TypeOK, GhostState
    <2>3. QED
      BY <2>1, <2>2 DEF SaltInvariant, ThreadKnown
  <1>2. CASE RekeyRequest(t)
    <2>1. UNCHANGED <<secrets, sess, tx>> /\ thread[t] = Idle
      BY <1>2 DEF RekeyRequest, StartUnlock, Lock, ModifySession, StartAdd, StartRekey, IsIdle
    <2>2. CASE Lock(t)
      <3>1. PICK s \in Sessions :
               thread' = [thread EXCEPT ![t] =
                            [Idle EXCEPT !.op = "lock", !.pc = "respond", !.session = s]]
        BY <2>2 DEF Lock
      <3> DEFINE next == [Idle EXCEPT !.op = "lock", !.pc = "respond", !.session = s]
      <3>2. next.pc = "respond" /\ next.key = NoKey /\ next.derived = NoKey
        BY DEF Idle
      <3>3. thread[t].pc = "idle"
        BY <2>1 DEF Idle
      <3> HIDE DEF next
      <3>4. thread' = [thread EXCEPT ![t] = next]
        BY <3>1 DEF next
      <3>5. QED
        BY <1>1, <2>1, <3>2, <3>3, <3>4, MoveKnown, QuietStep DEF Known
    <2>3. ASSUME NEW s \in Sessions, NEW op, NEW pc \in {"salt", "respond", "update_or_create"},
                 BeginWeb(t, op, pc, s), pc = "update_or_create" => sess[s] # NoKey
          PROVE  SaltInvariant'
      BY <1>1, <2>1, <2>3, BeginWebKnown, QuietStep
    <2>4. QED
      BY <1>2, <2>2, <2>3 DEF RekeyRequest, StartUnlock, ModifySession, StartAdd, StartRekey
  <1>3. CASE Respond(t)
    <2>1. thread[t].pc = "respond" /\ Finish(t) /\ UNCHANGED <<secrets, tx>>
      BY <1>3 DEF Respond
    <2>2. \A s \in Sessions : sess'[s] = sess[s] \/ sess'[s] = thread[t].key
      BY <1>3 DEF Respond, TypeOK
    <2>3. SessionsKnown'
      BY <1>1, <2>2 DEF SaltInvariant, SessionsKnown, Known
    <2>4. QED
      BY <1>1, <2>1, <2>3, FinishKnown, SameRows, LocalStep
  <1>4. CASE DeriveKey(t)
    <2>1. PICK key \in {env.salt, NoKey} :
             thread' = [thread EXCEPT ![t].derived = key, ![t].pc = "verify"]
      BY <1>4 DEF DeriveKey
    <2> DEFINE next == [thread[t] EXCEPT !.derived = key, !.pc = "verify"]
    <2>2. thread' = [thread EXCEPT ![t] = next]
      BY <2>1 DEF TypeOK
    <2>3. next.pc = "verify" /\ next.key = thread[t].key /\ next.derived = key
      BY DEF ThreadState
    <2>4. thread[t].pc = "salt" /\ UNCHANGED <<secrets, sess, tx>>
      BY <1>4 DEF DeriveKey
    <2> HIDE DEF next
    <2>5. QED
      BY <1>1, <2>2, <2>3, <2>4, MoveKnown, QuietStep DEF Known
  <1>5. CASE VerifyKey(t)
    <2>1. thread[t].pc = "verify" /\ UNCHANGED <<secrets, sess>>
      BY <1>5 DEF VerifyKey
    <2>2. CASE Finish(t) /\ UNCHANGED tx
      BY <1>1, <2>1, <2>2, FinishKnown, QuietStep
    <2>3. CASE /\ thread' = [thread EXCEPT ![t].key = thread[t].derived, ![t].pc = "respond"]
               /\ UNCHANGED tx
      <3> DEFINE next == [thread[t] EXCEPT !.key = thread[t].derived, !.pc = "respond"]
      <3>1. thread' = [thread EXCEPT ![t] = next]
        BY <2>3 DEF TypeOK
      <3>2. /\ next.pc = "respond" /\ next.key = thread[t].derived
            /\ next.derived = thread[t].derived
        BY DEF ThreadState
      <3> HIDE DEF next
      <3>3. QED
        BY <1>1, <2>1, <2>3, <3>1, <3>2, MoveKnown, QuietStep
    <2>4. CASE Goto(t, "list") /\ tx' = [tx EXCEPT ![t].new = serial.salt]
      <3> DEFINE next == [thread[t] EXCEPT !.pc = "list"]
      <3>1. thread' = [thread EXCEPT ![t] = next]
        BY <2>4 DEF Goto, TypeOK
      <3>2. next.pc = "list" /\ next.key = thread[t].key /\ next.derived = thread[t].derived
        BY DEF ThreadState
      <3>3. tx'[t] = [tx[t] EXCEPT !.new = serial.salt] /\ \A u \in Threads \ {t} : tx'[u] = tx[u]
        BY <2>4 DEF TypeOK
      <3>4. tx'[t].rowWrites = tx[t].rowWrites /\ tx'[t].versionWrites = tx[t].versionWrites
        BY <3>3 DEF Transaction
      <3> HIDE DEF next
      <3>5. QED
        BY <1>1, <2>1, <3>1, <3>2, <3>3, <3>4, MoveKnown, QuietStep
    <2>5. QED
      BY <1>5, <2>2, <2>3, <2>4 DEF VerifyKey
  <1>6. CASE UpdateOrCreate(t)
    <2>1. /\ thread[t].pc = "update_or_create" /\ Finish(t) /\ UNCHANGED <<sess, tx>>
          /\ thread[t].key \in ghost.issued
      BY <1>6 DEF UpdateOrCreate, SaltInvariant, ThreadKnown
    <2>2. PICK k, ct :
             /\ k \in Keys /\ ct.salt = thread[t].key
             /\ \/ secrets' = [secrets EXCEPT ![k].ct = ct]
                \/ secrets' = [secrets EXCEPT ![k] = [NoRow EXCEPT !.id = serial.row, !.ct = ct]]
      BY <1>6 DEF UpdateOrCreate
    <2>3. [NoRow EXCEPT !.id = serial.row, !.ct = ct].ct = ct
      BY DEF NoRow
    <2>4. \A n \in Keys : secrets'[n].ct = ct \/ secrets'[n] = secrets[n]
      <3>1. [secrets[k] EXCEPT !.ct = ct].ct = ct
        BY DEF Row
      <3>2. secrets \in [Keys -> Row]
        BY DEF TypeOK
      <3>3. CASE secrets' = [secrets EXCEPT ![k].ct = ct]
        BY <3>1, <3>2, <3>3
      <3>4. CASE secrets' = [secrets EXCEPT ![k] = [NoRow EXCEPT !.id = serial.row, !.ct = ct]]
        BY <2>3, <3>2, <3>4
      <3>5. QED
        BY <2>2, <3>3, <3>4
    <2>5. NoOrphanCiphertext'
      BY <1>1, <2>1, <2>2, <2>4, RowStep
    <2>6. QED
      BY <1>1, <2>1, <2>5, FinishKnown, SameRows, LocalStep
  <1>7. CASE ForgetSession(t)
    <2>1. PICK s \in Sessions :
             /\ sess' = [sess EXCEPT ![s] = NoKey]
             /\ tx' = [tx EXCEPT ![t].sessions = tx[t].sessions \ {s}]
      BY <1>7 DEF ForgetSession, Transaction
    <2>2. tx'[t] = [tx[t] EXCEPT !.sessions = tx[t].sessions \ {s}] /\ \A u \in Threads \ {t} : tx'[u] = tx[u]
      BY <2>1 DEF TypeOK
    <2>3. /\ tx'[t].new = tx[t].new /\ tx'[t].rowWrites = tx[t].rowWrites
          /\ tx'[t].versionWrites = tx[t].versionWrites
      BY <2>2 DEF Transaction
    <2>4. UNCHANGED <<secrets, thread>>
      BY <1>7 DEF ForgetSession
    <2>5. SessionsKnown'
      BY <1>1, <2>1 DEF SaltInvariant, SessionsKnown, Known, TypeOK
    <2>6. ThreadKnown(t)' /\ TransactionKnown(t)'
      BY <1>1, <2>3, <2>4 DEF SaltInvariant, ThreadKnown, TransactionKnown, Known
    <2>7. QED
      BY <1>1, <2>2, <2>4, <2>5, <2>6, SameRows, LocalStep
  <1>8. CASE ForgetOwnKey(t)
    <2>1. thread[t].pc = "forget" /\ UNCHANGED <<secrets, sess, tx>>
      BY <1>8 DEF ForgetOwnKey
    <2>2. CASE Finish(t)
      BY <1>1, <2>1, <2>2, FinishKnown, QuietStep
    <2>3. CASE thread' = [thread EXCEPT ![t].key = NoKey, ![t].pc = "respond"]
      <3> DEFINE next == [thread[t] EXCEPT !.key = NoKey, !.pc = "respond"]
      <3>1. thread' = [thread EXCEPT ![t] = next]
        BY <2>3 DEF TypeOK
      <3>2. next.pc = "respond" /\ next.key = NoKey /\ next.derived = thread[t].derived
        BY DEF ThreadState
      <3> HIDE DEF next
      <3>3. QED
        BY <1>1, <2>1, <3>1, <3>2, MoveKnown, QuietStep DEF Known
    <2>4. QED
      BY <1>8, <2>2, <2>3 DEF ForgetOwnKey
  <1>9. QED
    BY <1>2, <1>3, <1>4, <1>5, <1>6, <1>7, <1>8

\* A rekey writes under its new salt only, outside the tables until it commits.
LEMMA CommitSalts ==
  ASSUME TypeOK, SaltInvariant, NEW t \in Threads
  PROVE  /\ \A k \in Keys : RowAfter(t, k).id = secrets[k].id /\
              (Exists(k) => RowAfter(t, k).ct.salt \in ghost.issued \cup {tx[t].new})
         /\ \A v \in versions : VersionAfter(t, v).ct.salt \in ghost.issued \cup {tx[t].new}
  <1> USE FieldTypes
  <1>1. ASSUME NEW k \in Keys
        PROVE  /\ RowAfter(t, k).id = secrets[k].id
               /\ Exists(k) => RowAfter(t, k).ct.salt \in ghost.issued \cup {tx[t].new}
    <2>1. CASE \E w \in tx[t].rowWrites : w.name = k
      <3> DEFINE w == CHOOSE w \in tx[t].rowWrites : w.name = k
      <3>1. w \in tx[t].rowWrites
        BY <2>1
      <3>2. w.ct.salt = tx[t].new
        BY <3>1 DEF SaltInvariant, TransactionKnown
      <3>3. RowAfter(t, k) = [secrets[k] EXCEPT !.ct = w.ct]
        BY <2>1 DEF RowAfter
      <3> HIDE DEF w
      <3>4. RowAfter(t, k).ct = w.ct /\ RowAfter(t, k).id = secrets[k].id
        BY <3>3 DEF Row
      <3>5. QED
        BY <3>2, <3>4
    <2>2. CASE ~\E w \in tx[t].rowWrites : w.name = k
      BY <2>2 DEF RowAfter, SaltInvariant, NoOrphanCiphertext
    <2>3. QED
      BY <2>1, <2>2
  <1>2. ASSUME NEW v \in versions
        PROVE  VersionAfter(t, v).ct.salt \in ghost.issued \cup {tx[t].new}
    <2>1. CASE \E w \in tx[t].versionWrites : w.vid = v.vid
      <3> DEFINE w == CHOOSE w \in tx[t].versionWrites : w.vid = v.vid
      <3>1. w \in tx[t].versionWrites
        BY <2>1
      <3>2. w.ct.salt = tx[t].new
        BY <3>1 DEF SaltInvariant, TransactionKnown
      <3>3. VersionAfter(t, v) = [v EXCEPT !.ct = w.ct]
        BY <2>1 DEF VersionAfter
      <3> HIDE DEF w
      <3>4. VersionAfter(t, v).ct = w.ct
        BY <3>3 DEF TypeOK, Version
      <3>5. QED
        BY <3>2, <3>4
    <2>2. CASE ~\E w \in tx[t].versionWrites : w.vid = v.vid
      BY <2>2 DEF VersionAfter, SaltInvariant, NoOrphanCiphertext
    <2>3. QED
      BY <2>1, <2>2
  <1>3. QED
    BY <1>1, <1>2

LEMMA RekeySalts ==
  ASSUME TypeOK, SaltInvariant, NEW t \in Threads,
         \/ ListLiveSecrets(t) \/ ReencryptSecret(t) \/ ListAllSecrets(t)
         \/ ListVersions(t) \/ ReencryptVersion(t)
  PROVE  SaltInvariant'
  <1> USE FieldTypes
  <1>1. UNCHANGED <<env, secrets, versions, sess, ghost>>
    BY DEF ListLiveSecrets, ReencryptSecret, ListAllSecrets, ListVersions, ReencryptVersion
  <1>2. CASE CloseTransaction(t)
    BY <1>1, <1>2, IdleKnown, QuietStep
  <1>3. ASSUME NEW open, tx' = [tx EXCEPT ![t] = open],
               NEW pc \in {"reencrypt", "versions"},
               thread' = [thread EXCEPT ![t].pc = pc],
               open.new = tx[t].new,
               \A w \in open.rowWrites : w \in tx[t].rowWrites \/ w.ct.salt = tx[t].new,
               \A w \in open.versionWrites : w \in tx[t].versionWrites \/ w.ct.salt = tx[t].new
        PROVE  SaltInvariant'
    <2>1. tx'[t] = open /\ \A u \in Threads \ {t} : tx'[u] = tx[u]
      BY <1>3 DEF TypeOK
    <2>2. /\ thread'[t] = [thread[t] EXCEPT !.pc = pc]
          /\ \A u \in Threads \ {t} : thread'[u] = thread[u]
      BY <1>3 DEF TypeOK
    <2>3. /\ thread'[t].pc = pc /\ thread'[t].key = thread[t].key
          /\ thread'[t].derived = thread[t].derived
      BY <2>2 DEF ThreadState
    <2>4. ThreadKnown(t)'
      BY <1>1, <2>3 DEF SaltInvariant, ThreadKnown, Known
    <2>5. TransactionKnown(t)'
      BY <1>3, <2>1, <2>3 DEF SaltInvariant, TransactionKnown
    <2>6. QED
      BY <1>1, <2>1, <2>2, <2>4, <2>5, QuietStep
  <1>4. ASSUME NEW pc, thread[t].pc = pc, UNCHANGED thread
        PROVE  thread' = [thread EXCEPT ![t].pc = pc]
    BY <1>4 DEF TypeOK, ThreadState
  <1>5. CASE ListLiveSecrets(t)
    <2>1. PICK rows, mark : tx' = [tx EXCEPT ![t].rows = rows, ![t].mark = mark]
      BY <1>5 DEF ListLiveSecrets
    <2> DEFINE open == [tx[t] EXCEPT !.rows = rows, !.mark = mark]
    <2>2. tx' = [tx EXCEPT ![t] = open]
      BY <2>1 DEF TypeOK
    <2>3. /\ open.new = tx[t].new /\ open.rowWrites = tx[t].rowWrites
          /\ open.versionWrites = tx[t].versionWrites
      BY DEF Transaction
    <2>4. thread' = [thread EXCEPT ![t].pc = "reencrypt"]
      BY <1>5 DEF ListLiveSecrets, Goto
    <2> HIDE DEF open
    <2>5. QED
      BY <1>3, <2>2, <2>3, <2>4
  <1>6. CASE ReencryptSecret(t)
    <2>1. PICK r \in tx[t].rows :
             \/ CloseTransaction(t)
             \/ /\ tx' = [tx EXCEPT ![t].rows = @ \ {r},
                           ![t].rowWrites = @ \cup {[name |-> r.name, ct |-> Rewrap(t, r.ct)]}]
                /\ UNCHANGED thread
      BY <1>6 DEF ReencryptSecret, First
    <2>2. CASE CloseTransaction(t)
      BY <2>2, <1>2
    <2>3. CASE /\ tx' = [tx EXCEPT ![t].rows = @ \ {r},
                           ![t].rowWrites = @ \cup {[name |-> r.name, ct |-> Rewrap(t, r.ct)]}]
               /\ UNCHANGED thread
      <3> DEFINE write == [name |-> r.name, ct |-> Rewrap(t, r.ct)]
                 open == [tx[t] EXCEPT !.rows = @ \ {r}, !.rowWrites = @ \cup {write}]
      <3>1. r.ct \in Ciphertext
        BY DEF Transaction
      <3>2. write.ct.salt = tx[t].new
        BY <3>1 DEF Rewrap, Ciphertext
      <3>3. tx' = [tx EXCEPT ![t] = open]
        BY <2>3 DEF TypeOK
      <3> HIDE DEF write
      <3>4. /\ open.new = tx[t].new /\ open.rowWrites = tx[t].rowWrites \cup {write}
            /\ open.versionWrites = tx[t].versionWrites
        BY DEF Transaction
      <3>5. thread' = [thread EXCEPT ![t].pc = "reencrypt"]
        BY <1>4, <1>6, <2>3 DEF ReencryptSecret
      <3> HIDE DEF open
      <3>6. QED
        BY <1>3, <3>2, <3>3, <3>4, <3>5
    <2>4. QED
      BY <2>1, <2>2, <2>3
  <1>7. CASE ListAllSecrets(t)
    <2>1. PICK owners : tx' = [tx EXCEPT ![t].owners = owners]
      BY <1>7 DEF ListAllSecrets
    <2> DEFINE open == [tx[t] EXCEPT !.owners = owners]
    <2>2. tx' = [tx EXCEPT ![t] = open]
      BY <2>1 DEF TypeOK
    <2>3. /\ open.new = tx[t].new /\ open.rowWrites = tx[t].rowWrites
          /\ open.versionWrites = tx[t].versionWrites
      BY DEF Transaction
    <2>4. thread' = [thread EXCEPT ![t].pc = "versions"]
      BY <1>7 DEF ListAllSecrets, Goto
    <2> HIDE DEF open
    <2>5. QED
      BY <1>3, <2>2, <2>3, <2>4
  <1>8. CASE ListVersions(t)
    <2>1. PICK owners, history :
             tx' = [tx EXCEPT ![t].owners = owners, ![t].history = history]
      BY <1>8 DEF ListVersions
    <2> DEFINE open == [tx[t] EXCEPT !.owners = owners, !.history = history]
    <2>2. tx' = [tx EXCEPT ![t] = open]
      BY <2>1 DEF TypeOK
    <2>3. /\ open.new = tx[t].new /\ open.rowWrites = tx[t].rowWrites
          /\ open.versionWrites = tx[t].versionWrites
      BY DEF Transaction
    <2>4. thread' = [thread EXCEPT ![t].pc = "versions"]
      BY <1>4, <1>8 DEF ListVersions
    <2> HIDE DEF open
    <2>5. QED
      BY <1>3, <2>2, <2>3, <2>4
  <1>9. CASE ReencryptVersion(t)
    <2>1. PICK v \in tx[t].history :
             \/ CloseTransaction(t)
             \/ /\ tx' = [tx EXCEPT ![t].history = @ \ {v},
                           ![t].versionWrites = @ \cup {[vid |-> v.vid, ct |-> Rewrap(t, v.ct)]}]
                /\ UNCHANGED thread
      BY <1>9 DEF ReencryptVersion, Newest
    <2>2. CASE CloseTransaction(t)
      BY <2>2, <1>2
    <2>3. CASE /\ tx' = [tx EXCEPT ![t].history = @ \ {v},
                           ![t].versionWrites = @ \cup {[vid |-> v.vid, ct |-> Rewrap(t, v.ct)]}]
               /\ UNCHANGED thread
      <3> DEFINE write == [vid |-> v.vid, ct |-> Rewrap(t, v.ct)]
                 open == [tx[t] EXCEPT !.history = @ \ {v}, !.versionWrites = @ \cup {write}]
      <3>1. v.ct \in Ciphertext
        BY DEF Transaction, Version
      <3>2. write.ct.salt = tx[t].new
        BY <3>1 DEF Rewrap, Ciphertext
      <3>3. tx' = [tx EXCEPT ![t] = open]
        BY <2>3 DEF TypeOK
      <3> HIDE DEF write
      <3>4. /\ open.new = tx[t].new /\ open.rowWrites = tx[t].rowWrites
            /\ open.versionWrites = tx[t].versionWrites \cup {write}
        BY DEF Transaction
      <3>5. thread' = [thread EXCEPT ![t].pc = "versions"]
        BY <1>4, <1>9, <2>3 DEF ReencryptVersion
      <3> HIDE DEF open
      <3>6. QED
        BY <1>3, <3>2, <3>3, <3>4, <3>5
    <2>4. QED
      BY <2>1, <2>2, <2>3
  <1>10. QED
    BY <1>5, <1>6, <1>7, <1>8, <1>9

\* The commit makes the new salt the environment's together with the writes.
LEMMA CommitKeepsSalts ==
  ASSUME TypeOK, SaltInvariant, NEW t \in Threads, Commit(t)
  PROVE  SaltInvariant'
  <1> USE FieldTypes
  <1>1. /\ env'.salt = tx[t].new /\ ghost'.issued = ghost.issued \cup {tx[t].new}
        /\ UNCHANGED sess
    BY DEF Commit, TypeOK, GhostState
  <1>2. /\ tx'[t] = [NoTx EXCEPT !.sessions = Sessions]
        /\ \A u \in Threads \ {t} : tx'[u] = tx[u]
    BY DEF Commit, TypeOK
  <1>3. /\ thread'[t] = [thread[t] EXCEPT !.pc = "forget"]
        /\ \A u \in Threads \ {t} : thread'[u] = thread[u]
    BY DEF Commit, Goto, TypeOK
  <1>4. NoOrphanCiphertext'
    <2>1. ASSUME NEW k \in Keys, Exists(k)' PROVE secrets'[k].ct.salt \in ghost'.issued
      <3>1. secrets'[k] = RowAfter(t, k)
        BY DEF Commit
      <3>2. QED
        BY <1>1, <2>1, <3>1, CommitSalts DEF Exists
    <2>2. ASSUME NEW v \in versions' PROVE v.ct.salt \in ghost'.issued
      BY <1>1, CommitSalts DEF Commit
    <2>3. QED
      BY <2>1, <2>2 DEF NoOrphanCiphertext
  <1>5. SessionsKnown'
    BY <1>1 DEF SaltInvariant, SessionsKnown, Known
  <1>6. ThreadKnown(t)' /\ TransactionKnown(t)'
    <2>1. /\ thread'[t].pc = "forget" /\ thread'[t].key = thread[t].key
          /\ thread'[t].derived = thread[t].derived
      BY <1>3 DEF ThreadState
    <2>2. tx'[t].rowWrites = {} /\ tx'[t].versionWrites = {}
      BY <1>2 DEF NoTx
    <2>3. ThreadKnown(t)'
      BY <1>1, <2>1 DEF SaltInvariant, ThreadKnown, Known
    <2>4. QED
      BY <2>2, <2>3 DEF TransactionKnown
  <1>7. \A u \in Threads \ {t} : ThreadKnown(u)' /\ TransactionKnown(u)'
    BY <1>1, <1>2, <1>3 DEF SaltInvariant, ThreadKnown, TransactionKnown, Known
  <1>8. QED
    BY <1>1, <1>4, <1>5, <1>6, <1>7 DEF SaltInvariant
-----------------------------------------------------------------------------
(***************************************************************************)
(* The ciphertexts at rest, and all that a session, a thread or an open    *)
(* transaction may still write, are under salts that have been the         *)
(* environment's.                                                          *)
(***************************************************************************)
THEOREM SaltsIssued == Spec => []SaltInvariant
  <1>1. Init => SaltInvariant
    BY DEF Init, SaltInvariant, NoOrphanCiphertext, SessionsKnown, ThreadKnown,
           TransactionKnown, Known, Exists, NoRow, Idle, NoTx, NoKey
  <1>2. TypeOK /\ SaltInvariant /\ [Next]_vars => SaltInvariant'
    <2> SUFFICES ASSUME TypeOK, SaltInvariant, [Next]_vars PROVE SaltInvariant'
      OBVIOUS
    <2>1. ASSUME NEW t \in Threads, SecretApiStep(t) PROVE SaltInvariant'
      BY <2>1, ApiLookupSalts, ApiWriteSalts, ApiReadSalts DEF SecretApiStep
    <2>2. ASSUME NEW t \in Threads, RekeyStep(t) \/ RekeyRequest(t) PROVE SaltInvariant'
      BY <2>2, SessionSalts, RekeySalts, CommitKeepsSalts DEF RekeyStep
    <2>3. ASSUME NEW t \in Threads, CloseTransaction(t), ghost'.issued = ghost.issued,
                 UNCHANGED <<env, secrets, versions, sess>>
          PROVE  SaltInvariant'
      BY <2>3, IdleKnown, QuietStep
    <2>4. ASSUME NEW t \in Threads, DeadlockDetected(t) PROVE SaltInvariant'
      BY <2>3, <2>4 DEF DeadlockDetected
    <2>5. ASSUME NEW t \in Threads, Crash(t) PROVE SaltInvariant'
      <3>1. ghost'.issued = ghost.issued
        BY <2>5 DEF Crash, TypeOK, GhostState
      <3>2. QED
        BY <2>3, <2>5, <3>1 DEF Crash
    <2>6. CASE WindowPasses
      <3>1. \A k \in Keys : secrets'[k].id = secrets[k].id /\ secrets'[k].ct = secrets[k].ct
        BY <2>6, FieldTypes DEF WindowPasses, TypeOK, Row
      <3>2. UNCHANGED <<env, versions, sess, thread, tx, ghost>>
        BY <2>6 DEF WindowPasses, Others
      <3>3. NoOrphanCiphertext'
        BY <3>1, <3>2, RowStep
      <3>4. QED
        BY <3>2, <3>3 DEF SaltInvariant, SessionsKnown, ThreadKnown, TransactionKnown, Known
    <2>7. CASE RequireRekey
      <3>1. env'.salt = env.salt
        BY <2>7 DEF RequireRekey, TypeOK
      <3>2. QED
        BY <2>7, <3>1 DEF RequireRekey, SaltInvariant, NoOrphanCiphertext, SessionsKnown,
                          ThreadKnown, TransactionKnown, Known, Exists
    <2>8. CASE UNCHANGED vars
      BY <2>8 DEF vars, SaltInvariant, NoOrphanCiphertext, SessionsKnown, ThreadKnown,
                  TransactionKnown, Known, Exists
    <2>9. QED
      BY <2>1, <2>2, <2>4, <2>5, <2>6, <2>7, <2>8 DEF Next
  <1>3. QED
    BY <1>1, <1>2, TypeCorrect, PTL DEF Spec

(***************************************************************************)
(* No ciphertext at rest, in a secret or in its history, is ever under a   *)
(* salt that was lost with a rolled-back rekey (project_rekey's atomic     *)
(* block).                                                                 *)
(***************************************************************************)
THEOREM NothingOrphaned == Spec => []NoOrphanCiphertext
  <1>1. SaltInvariant => NoOrphanCiphertext
    BY DEF SaltInvariant
  <1>2. QED
    BY <1>1, SaltsIssued, PTL
-----------------------------------------------------------------------------
(***************************************************************************)
(* Vault implements SecretStore, for any number of secrets, sessions and   *)
(* threads and any bounds: the initial states map to initial states, and   *)
(* every step maps to a step of the store or to none.                      *)
(***************************************************************************)

(***************************************************************************)
(* Why it holds.  Primary keys are not used twice: a secret's is nobody    *)
(* else's, neither now nor in the copies that threads may still save.      *)
(***************************************************************************)
IdsFresh ==
  /\ \A k \in Keys : secrets[k].id < serial.row
  /\ \A t \in Threads : thread[t].row.id < serial.row

IdsOwned ==
  /\ \A j, k \in Keys : Exists(k) /\ secrets[j].id = secrets[k].id => j = k
  /\ \A t \in Threads, k \in Keys :
       Exists(k) /\ secrets[k].id = thread[t].row.id => k = thread[t].name
  /\ \A t, u \in Threads :
       thread[t].row.id # 0 /\ thread[t].row.id = thread[u].row.id => thread[t].name = thread[u].name

\* What a secret holds, and what a thread is about to archive, has been written.
ValuesWritten ==
  /\ \A k \in Keys : Exists(k) => Holding(secrets[k]) \in ghost.written
  /\ \A t \in Threads : thread[t].pc = "version" => Holding(thread[t].row) \in ghost.written

\* A version is younger than the next, is the only one of its number, and its
\* secret is there.
VersionsOwned ==
  /\ \A v \in versions :
       v.vid < serial.version /\ \E k \in Keys : Exists(k) /\ v.sid = secrets[k].id
  /\ \A v, w \in versions : v.vid = w.vid => v = w

(***************************************************************************)
(* What a rekey has read and means to write back was the value of the row  *)
(* it read, and still is the value of the version; the rows it has locked  *)
(* are there.                                                              *)
(***************************************************************************)
SameValue(w) ==
  w.vid < serial.version /\ \A v \in versions : v.vid = w.vid => v.ct.val = w.ct.val

RekeyTrue(t) ==
  /\ \A r \in tx[t].rows : [sid |-> r.id, val |-> r.ct.val] \in ghost.written
  /\ \A w \in tx[t].rowWrites :
       Exists(w.name) /\ [sid |-> secrets[w.name].id, val |-> w.ct.val] \in ghost.written
  /\ \A v \in tx[t].history : SameValue(v)
  /\ \A w \in tx[t].versionWrites : SameValue(w)

StoreInvariant ==
  /\ IdsFresh /\ IdsOwned /\ ValuesWritten /\ VersionsOwned
  /\ \A t \in Threads : RekeyTrue(t) /\ 0 \notin thread[t].ids
-----------------------------------------------------------------------------
(***************************************************************************)
(* A step of one thread that leaves the secrets, the versions and what was *)
(* written alone: the thread may come to hold a copy of a row, or keep its *)
(* own, and its transaction may come to hold what is there.                *)
(***************************************************************************)
LEMMA ThreadMoves ==
  ASSUME TypeOK, StoreInvariant, NEW t \in Threads,
         UNCHANGED <<secrets, versions>>,
         serial'.row = serial.row, serial'.version = serial.version,
         ghost'.written = ghost.written,
         \A u \in Threads \ {t} : thread'[u] = thread[u] /\ tx'[u] = tx[u],
         RekeyTrue(t)',
         0 \notin thread'[t].ids,
         thread'[t].pc # "version",
         \/ thread'[t].row.id = 0
         \/ thread'[t].name \in Keys /\ thread'[t].row.id = secrets[thread'[t].name].id
         \/ thread'[t].row.id = thread[t].row.id /\ thread'[t].name = thread[t].name
  PROVE  StoreInvariant'
  <1> USE FieldTypes
  <1>1. IdsFresh'
    BY DEF StoreInvariant, IdsFresh, TypeOK, Serial
  <1>2. IdsOwned'
    BY DEF StoreInvariant, IdsOwned, Exists
  <1>3. ValuesWritten'
    BY DEF StoreInvariant, ValuesWritten, Exists
  <1>4. VersionsOwned'
    BY DEF StoreInvariant, VersionsOwned, Exists
  <1>5. \A u \in Threads \ {t} : RekeyTrue(u)' /\ 0 \notin thread'[u].ids
    BY SMTT(20) DEF StoreInvariant, RekeyTrue, SameValue, Exists
  <1>6. QED
    BY <1>1, <1>2, <1>3, <1>4, <1>5 DEF StoreInvariant

\* A transaction that keeps what it had.
LEMMA SameTransaction ==
  ASSUME StoreInvariant, NEW t \in Threads, UNCHANGED <<secrets, versions>>,
         serial'.version = serial.version, ghost'.written = ghost.written,
         tx'[t].rows = tx[t].rows, tx'[t].rowWrites = tx[t].rowWrites,
         tx'[t].history = tx[t].history, tx'[t].versionWrites = tx[t].versionWrites
  PROVE  RekeyTrue(t)'
  BY DEF StoreInvariant, RekeyTrue, SameValue, Exists

\* So a request ends, with or without a transaction ...
LEMMA Ending ==
  ASSUME TypeOK, StoreInvariant, NEW t \in Threads,
         UNCHANGED <<secrets, versions>>, serial' = serial, ghost'.written = ghost.written,
         \/ Finish(t) /\ UNCHANGED tx
         \/ CloseTransaction(t)
  PROVE  StoreInvariant'
  <1>1. /\ thread'[t] = Idle
        /\ \A u \in Threads \ {t} : thread'[u] = thread[u]
    BY DEF TypeOK, Finish, CloseTransaction
  <1>2. /\ \A u \in Threads \ {t} : tx'[u] = tx[u]
        /\ tx'[t] = tx[t] \/ tx'[t] = NoTx
    BY DEF TypeOK, CloseTransaction
  <1>3. RekeyTrue(t)'
    <2>1. CASE tx'[t] = tx[t]
      BY <2>1, SameTransaction
    <2>2. CASE tx'[t] = NoTx
      BY <2>2 DEF RekeyTrue, NoTx
    <2>3. QED
      BY <1>2, <2>1, <2>2
  <1>4. QED
    BY <1>1, <1>2, <1>3, ThreadMoves DEF Idle, NoRow

\* ... and begins or goes on, without a transaction.
LEMMA Moving ==
  ASSUME TypeOK, StoreInvariant, NEW t \in Threads, NEW next,
         UNCHANGED <<secrets, versions, tx>>, serial' = serial, ghost'.written = ghost.written,
         thread' = [thread EXCEPT ![t] = next],
         0 \notin next.ids, next.pc # "version",
         \/ next.row.id = 0
         \/ next.name \in Keys /\ next.row.id = secrets[next.name].id
         \/ next.row.id = thread[t].row.id /\ next.name = thread[t].name
  PROVE  StoreInvariant'
  <1>1. thread'[t] = next /\ \A u \in Threads \ {t} : thread'[u] = thread[u]
    BY DEF TypeOK
  <1>2. RekeyTrue(t)'
    BY SameTransaction
  <1>3. QED
    BY <1>1, <1>2, ThreadMoves

(***************************************************************************)
(* The requests that begin, and the steps that only read.                  *)
(***************************************************************************)
LEMMA LookupsKeepStore ==
  ASSUME TypeOK, StoreInvariant, NEW t \in Threads,
         \/ WriteLookup(t) \/ ImportLookup(t) \/ RotateLookup(t) \/ RestoreVersionLookup(t)
         \/ DeleteLookup(t) \/ RestoreLookup(t) \/ GetLookup(t)
  PROVE  StoreInvariant'
  <1> USE FieldTypes
  <1>1. UNCHANGED <<secrets, versions, tx, serial>> /\ ghost'.written = ghost.written
    BY DEF WriteLookup, ImportLookup, RotateLookup, RestoreVersionLookup, DeleteLookup,
           RestoreLookup, GetLookup, Others, TypeOK, GhostState
  <1>2. ASSUME NEW op, NEW pc \in {"save", "get_version", "save_deleted", "read_salt"},
               NEW k \in Keys, NEW row, Begin(t, op, pc, k, row), row.id = secrets[k].id
        PROVE  StoreInvariant'
    <2> DEFINE next == [Idle EXCEPT !.op = op, !.pc = pc, !.name = k, !.row = row]
    <2>1. /\ next.pc = pc /\ next.name = k /\ next.row = row /\ next.ids = {}
          /\ thread' = [thread EXCEPT ![t] = next]
      BY <1>2 DEF Begin, Idle
    <2> HIDE DEF next
    <2>2. QED
      BY <1>1, <1>2, <2>1, Moving
  <1>3. ASSUME NEW k \in Keys, NEW ct, NEW token, NEW deleted
        PROVE  /\ [secrets[k] EXCEPT !.ct = ct, !.token = token, !.deleted = deleted].id
                    = secrets[k].id
               /\ [secrets[k] EXCEPT !.ct = ct, !.deleted = deleted].id = secrets[k].id
               /\ [secrets[k] EXCEPT !.ct = ct].id = secrets[k].id
               /\ [secrets[k] EXCEPT !.deleted = deleted].id = secrets[k].id
    BY DEF Row
  <1>4. CASE WriteLookup(t)
    <2>1. PICK op \in {"post", "put"}, k \in Keys, ct \in ClientCiphertext,
               token \in Tokens \cup {NoToken} :
             Begin(t, op, "save", k,
                   [secrets[k] EXCEPT !.ct = ct, !.token = token, !.deleted = "null"])
      BY <1>4 DEF WriteLookup
    <2> DEFINE row == [secrets[k] EXCEPT !.ct = ct, !.token = token, !.deleted = "null"]
    <2>2. row.id = secrets[k].id
      BY <1>3
    <2>3. Begin(t, op, "save", k, row)
      BY <2>1
    <2> HIDE DEF row
    <2>4. QED
      BY <1>2, <2>2, <2>3
  <1>5. CASE ImportLookup(t)
    <2>1. PICK k \in Keys, ct \in ClientCiphertext :
             Begin(t, "import", "save", k, [secrets[k] EXCEPT !.ct = ct, !.deleted = "null"])
      BY <1>5 DEF ImportLookup
    <2> DEFINE row == [secrets[k] EXCEPT !.ct = ct, !.deleted = "null"]
    <2>2. row.id = secrets[k].id
      BY <1>3
    <2>3. Begin(t, "import", "save", k, row)
      BY <2>1
    <2> HIDE DEF row
    <2>4. QED
      BY <1>2, <2>2, <2>3
  <1>6. CASE RotateLookup(t)
    BY <1>2, <1>3, <1>6 DEF RotateLookup
  <1>7. CASE RestoreVersionLookup(t)
    BY <1>2, <1>7 DEF RestoreVersionLookup
  <1>8. CASE DeleteLookup(t)
    BY <1>2, <1>3, <1>8 DEF DeleteLookup
  <1>9. CASE RestoreLookup(t)
    BY <1>2, <1>3, <1>9 DEF RestoreLookup
  <1>10. CASE GetLookup(t)
    BY <1>2, <1>10 DEF GetLookup
  <1>11. QED
    BY <1>4, <1>5, <1>6, <1>7, <1>8, <1>9, <1>10

LEMMA DeletesBegin ==
  ASSUME TypeOK, StoreInvariant, NEW t \in Threads,
         ForceDeleteLookup(t) \/ CleanupSelect(t)
  PROVE  StoreInvariant'
  <1> USE FieldTypes
  <1>1. UNCHANGED <<secrets, versions, tx, serial, ghost>>
    BY DEF ForceDeleteLookup, CleanupSelect, Others
  <1>2. PICK op, ids : BeginDelete(t, op, ids) /\ 0 \notin ids
    <2>1. CASE ForceDeleteLookup(t)
      BY <2>1 DEF ForceDeleteLookup, Exists
    <2>2. CASE CleanupSelect(t)
      <3>1. 0 \notin {secrets[k].id : k \in Expired}
        BY DEF Expired, Exists
      <3>2. QED
        BY <2>2, <3>1 DEF CleanupSelect
    <2>3. QED
      BY <2>1, <2>2
  <1> DEFINE next == [Idle EXCEPT !.op = op, !.pc = "delete_versions", !.ids = ids]
  <1>3. /\ next.pc = "delete_versions" /\ next.row.id = 0 /\ next.ids = ids
        /\ thread' = [thread EXCEPT ![t] = next]
    BY <1>2 DEF BeginDelete, Idle, NoRow
  <1> HIDE DEF next
  <1>4. QED
    BY <1>1, <1>2, <1>3, Moving

LEMMA ReadsKeepStore ==
  ASSUME TypeOK, StoreInvariant, NEW t \in Threads,
         GetVersion(t) \/ ReadSalt(t) \/ ExportSalt(t) \/ ReadRows(t) \/ Answer(t)
  PROVE  StoreInvariant'
  <1> USE FieldTypes
  <1>1. UNCHANGED <<secrets, versions, tx, serial>> /\ ghost'.written = ghost.written
    BY DEF GetVersion, ReadSalt, ExportSalt, ReadRows, Answer, Others, TypeOK, GhostState
  <1>2. 0 \notin thread[t].ids
    BY DEF StoreInvariant
  <1>3. CASE Finish(t)
    BY <1>1, <1>3, Ending
  <1>4. CASE GetVersion(t) /\ ~Finish(t)
    <2>1. PICK v \in versions, pc \in {"save_ciphertext", "save"} :
             thread' = [thread EXCEPT ![t].row.ct = v.ct, ![t].pc = pc]
      BY <1>4 DEF GetVersion
    <2> DEFINE next == [thread[t] EXCEPT !.row.ct = v.ct, !.pc = pc]
    <2>2. thread' = [thread EXCEPT ![t] = next]
      BY <2>1 DEF TypeOK
    <2>3. /\ next.pc = pc /\ next.name = thread[t].name /\ next.ids = thread[t].ids
          /\ next.row = [thread[t].row EXCEPT !.ct = v.ct]
      BY DEF ThreadState
    <2>4. next.row.id = thread[t].row.id
      BY <2>3 DEF Row
    <2> HIDE DEF next
    <2>5. QED
      BY <1>1, <1>2, <2>2, <2>3, <2>4, Moving
  <1>5. CASE ReadSalt(t)
    <2> DEFINE next == [thread[t] EXCEPT !.derived = env.salt, !.pc = "answer"]
    <2>1. thread' = [thread EXCEPT ![t] = next]
      BY <1>5 DEF ReadSalt, TypeOK
    <2>2. /\ next.pc = "answer" /\ next.name = thread[t].name /\ next.ids = thread[t].ids
          /\ next.row = thread[t].row
      BY DEF ThreadState
    <2> HIDE DEF next
    <2>3. QED
      BY <1>1, <1>2, <2>1, <2>2, Moving
  <1>6. CASE ExportSalt(t)
    <2> DEFINE next == [Idle EXCEPT !.op = "export", !.pc = "read_rows", !.derived = env.salt]
    <2>1. /\ next.pc = "read_rows" /\ next.row.id = 0 /\ next.ids = {}
          /\ thread' = [thread EXCEPT ![t] = next]
      BY <1>6 DEF ExportSalt, Idle, NoRow
    <2> HIDE DEF next
    <2>2. QED
      BY <1>1, <2>1, Moving
  <1>7. CASE ReadRows(t)
    <2>1. PICK k \in Keys :
             thread' = [thread EXCEPT ![t].name = k, ![t].row = secrets[k], ![t].pc = "answer"]
      BY <1>7 DEF ReadRows
    <2> DEFINE next == [thread[t] EXCEPT !.name = k, !.row = secrets[k], !.pc = "answer"]
    <2>2. thread' = [thread EXCEPT ![t] = next]
      BY <2>1 DEF TypeOK
    <2>3. next.pc = "answer" /\ next.name = k /\ next.ids = thread[t].ids /\ next.row = secrets[k]
      BY DEF ThreadState
    <2> HIDE DEF next
    <2>4. QED
      BY <1>1, <1>2, <2>2, <2>3, Moving
  <1>8. QED
    BY <1>3, <1>4, <1>5, <1>6, <1>7 DEF Answer

(***************************************************************************)
(* The browser's requests, and the rekey up to its commit: what it has     *)
(* written so far is its own.                                              *)
(***************************************************************************)
LEMMA WebKeepsStore ==
  ASSUME TypeOK, StoreInvariant, NEW t \in Threads,
         RekeyRequest(t) \/ DeriveKey(t) \/ VerifyKey(t) \/ Respond(t) \/ ForgetOwnKey(t)
  PROVE  StoreInvariant'
  <1> USE FieldTypes
  <1>1. UNCHANGED <<secrets, versions>> /\ ghost'.written = ghost.written
    BY DEF RekeyRequest, StartUnlock, Lock, ModifySession, StartAdd, StartRekey, DeriveKey,
           VerifyKey, Respond, ForgetOwnKey, TypeOK, GhostState
  <1>2. 0 \notin thread[t].ids
    BY DEF StoreInvariant
  <1>3. ASSUME UNCHANGED <<tx, serial>>, NEW next, thread' = [thread EXCEPT ![t] = next],
               next.row.id = 0 /\ next.ids = {} /\ next.pc # "version"
        PROVE  StoreInvariant'
    BY <1>1, <1>3, Moving
  <1>4. ASSUME UNCHANGED <<tx, serial>>, NEW next, thread' = [thread EXCEPT ![t] = next],
               next.row = thread[t].row /\ next.ids = thread[t].ids /\ next.pc # "version",
               next.name = thread[t].name
        PROVE  StoreInvariant'
    BY <1>1, <1>2, <1>4, Moving
  <1>5. CASE RekeyRequest(t)
    <2>1. UNCHANGED <<tx, serial>>
      BY <1>5 DEF RekeyRequest, StartUnlock, Lock, ModifySession, StartAdd, StartRekey
    <2>2. CASE Lock(t)
      <3>1. PICK s \in Sessions :
               thread' = [thread EXCEPT ![t] =
                            [Idle EXCEPT !.op = "lock", !.pc = "respond", !.session = s]]
        BY <2>2 DEF Lock
      <3> DEFINE next == [Idle EXCEPT !.op = "lock", !.pc = "respond", !.session = s]
      <3>2. next.row.id = 0 /\ next.ids = {} /\ next.pc = "respond"
        BY DEF Idle, NoRow
      <3> HIDE DEF next
      <3>3. QED
        BY <1>3, <2>1, <3>1, <3>2 DEF next
    <2>3. ASSUME NEW op, NEW s, NEW pc \in {"salt", "respond", "update_or_create"},
                 BeginWeb(t, op, pc, s)
          PROVE  StoreInvariant'
      <3> DEFINE next == [Idle EXCEPT !.op = op, !.pc = pc, !.session = s, !.key = sess[s]]
      <3>1. next.row.id = 0 /\ next.ids = {} /\ next.pc = pc
        BY DEF Idle, NoRow
      <3>2. thread' = [thread EXCEPT ![t] = next]
        BY <2>3 DEF BeginWeb
      <3> HIDE DEF next
      <3>3. QED
        BY <1>3, <2>1, <2>3, <3>1, <3>2
    <2>4. CASE StartUnlock(t) \/ ModifySession(t) \/ StartAdd(t) \/ StartRekey(t)
      BY <2>3, <2>4 DEF StartUnlock, ModifySession, StartAdd, StartRekey
    <2>5. QED
      BY <1>5, <2>2, <2>4 DEF RekeyRequest
  <1>6. CASE DeriveKey(t)
    <2>1. PICK key : thread' = [thread EXCEPT ![t].derived = key, ![t].pc = "verify"]
      BY <1>6 DEF DeriveKey
    <2> DEFINE next == [thread[t] EXCEPT !.derived = key, !.pc = "verify"]
    <2>2. thread' = [thread EXCEPT ![t] = next]
      BY <2>1 DEF TypeOK
    <2>3. /\ next.row = thread[t].row /\ next.ids = thread[t].ids /\ next.pc = "verify"
          /\ next.name = thread[t].name
      BY DEF ThreadState
    <2>4. UNCHANGED <<tx, serial>>
      BY <1>6 DEF DeriveKey
    <2> HIDE DEF next
    <2>5. QED
      BY <1>4, <2>2, <2>3, <2>4
  <1>7. CASE Finish(t) /\ UNCHANGED <<tx, serial>>
    BY <1>1, <1>7, Ending
  <1>8. CASE VerifyKey(t) /\ ~(Finish(t) /\ UNCHANGED <<tx, serial>>)
    <2>1. CASE /\ thread' = [thread EXCEPT ![t].key = thread[t].derived, ![t].pc = "respond"]
               /\ UNCHANGED <<tx, serial>>
      <3> DEFINE next == [thread[t] EXCEPT !.key = thread[t].derived, !.pc = "respond"]
      <3>1. thread' = [thread EXCEPT ![t] = next]
        BY <2>1 DEF TypeOK
      <3>2. /\ next.row = thread[t].row /\ next.ids = thread[t].ids /\ next.pc = "respond"
            /\ next.name = thread[t].name
        BY DEF ThreadState
      <3> HIDE DEF next
      <3>3. QED
        BY <1>4, <2>1, <3>1, <3>2
    <2>2. CASE /\ Goto(t, "list")
               /\ tx' = [tx EXCEPT ![t].new = serial.salt]
               /\ serial' = [serial EXCEPT !.salt = @ + 1]
      <3>1. serial'.row = serial.row /\ serial'.version = serial.version
        BY <2>2 DEF TypeOK
      <3>2. /\ thread'[t].row = thread[t].row /\ thread'[t].ids = thread[t].ids
            /\ thread'[t].name = thread[t].name /\ thread'[t].pc = "list"
        BY <2>2 DEF Goto, TypeOK, ThreadState
      <3>3. /\ tx'[t].rows = tx[t].rows /\ tx'[t].rowWrites = tx[t].rowWrites
            /\ tx'[t].history = tx[t].history /\ tx'[t].versionWrites = tx[t].versionWrites
        BY <2>2 DEF TypeOK, Transaction
      <3>4. \A u \in Threads \ {t} : thread'[u] = thread[u] /\ tx'[u] = tx[u]
        BY <2>2 DEF Goto, TypeOK
      <3>5. RekeyTrue(t)'
        BY <1>1, <3>1, <3>3, SameTransaction
      <3>6. QED
        BY <1>1, <1>2, <3>1, <3>2, <3>4, <3>5, ThreadMoves
    <2>3. QED
      BY <1>8, <2>1, <2>2 DEF VerifyKey
  <1>9. CASE ForgetOwnKey(t) /\ ~Finish(t)
    <2> DEFINE next == [thread[t] EXCEPT !.key = NoKey, !.pc = "respond"]
    <2>1. thread' = [thread EXCEPT ![t] = next]
      BY <1>9 DEF ForgetOwnKey, TypeOK
    <2>2. /\ next.row = thread[t].row /\ next.ids = thread[t].ids /\ next.pc = "respond"
          /\ next.name = thread[t].name
      BY DEF ThreadState
    <2>3. UNCHANGED <<tx, serial>>
      BY <1>9 DEF ForgetOwnKey
    <2> HIDE DEF next
    <2>4. QED
      BY <1>4, <2>1, <2>2, <2>3
  <1>10. CASE Respond(t)
    BY <1>7, <1>10 DEF Respond
  <1>11. QED
    BY <1>5, <1>6, <1>7, <1>8, <1>9, <1>10 DEF ForgetOwnKey

\* A step of a thread's own transaction.
LEMMA TransactionMoves ==
  ASSUME TypeOK, StoreInvariant, NEW t \in Threads,
         UNCHANGED <<secrets, versions, serial>>, ghost'.written = ghost.written,
         \/ UNCHANGED thread /\ thread[t].pc # "version"
         \/ \E pc \in Pcs \ {"version"} : Goto(t, pc),
         \A u \in Threads \ {t} : tx'[u] = tx[u],
         RekeyTrue(t)'
  PROVE  StoreInvariant'
  <1>1. /\ thread'[t].row = thread[t].row /\ thread'[t].ids = thread[t].ids
        /\ thread'[t].name = thread[t].name /\ thread'[t].pc # "version"
    BY DEF Goto, TypeOK, ThreadState
  <1>2. \A u \in Threads \ {t} : thread'[u] = thread[u]
    BY DEF Goto, TypeOK
  <1>3. 0 \notin thread[t].ids
    BY DEF StoreInvariant
  <1>4. QED
    BY <1>1, <1>2, <1>3, ThreadMoves

LEMMA RekeyListsStore ==
  ASSUME TypeOK, StoreInvariant, NEW t \in Threads,
         \/ ListLiveSecrets(t) \/ ListAllSecrets(t) \/ ListVersions(t)
         \/ DeleteVersions(t) \/ ForgetSession(t)
  PROVE  StoreInvariant'
  <1> USE FieldTypes
  <1>1. UNCHANGED <<secrets, versions, serial>> /\ ghost'.written = ghost.written
    BY DEF ListLiveSecrets, ListAllSecrets, ListVersions, DeleteVersions, ForgetSession,
           TypeOK, GhostState
  <1>2. \A u \in Threads \ {t} : tx'[u] = tx[u]
    BY DEF ListLiveSecrets, ListAllSecrets, ListVersions, DeleteVersions, ForgetSession, TypeOK
  <1>3. RekeyTrue(t)
    BY DEF StoreInvariant
  <1>4. \/ UNCHANGED thread /\ thread[t].pc # "version"
        \/ \E pc \in Pcs \ {"version"} : Goto(t, pc)
    BY DEF ListLiveSecrets, ListAllSecrets, ListVersions, DeleteVersions, ForgetSession, Pcs
  <1>5. CASE ListLiveSecrets(t)
    <2> DEFINE listed == {[name |-> k, id |-> secrets[k].id, ct |-> secrets[k].ct] :
                            k \in {k \in Keys : Live(k)}}
    <2>1. /\ tx'[t].rows = listed /\ tx'[t].rowWrites = tx[t].rowWrites
          /\ tx'[t].history = tx[t].history /\ tx'[t].versionWrites = tx[t].versionWrites
      BY <1>5 DEF ListLiveSecrets, TypeOK, Transaction
    <2>2. \A r \in listed : [sid |-> r.id, val |-> r.ct.val] \in ghost.written
      BY DEF StoreInvariant, ValuesWritten, Live, Holding
    <2> HIDE DEF listed
    <2>3. RekeyTrue(t)'
      BY <1>1, <1>3, <2>1, <2>2 DEF RekeyTrue, SameValue, Exists
    <2>4. QED
      BY <1>1, <1>2, <1>4, <2>3, TransactionMoves
  <1>6. CASE ListVersions(t)
    <2>1. PICK o \in First(tx[t].owners) :
             tx' = [tx EXCEPT ![t].owners = @ \ {o},
                              ![t].history = {v \in versions : v.sid = o.id}]
      BY <1>6 DEF ListVersions
    <2>2. /\ tx'[t].rows = tx[t].rows /\ tx'[t].rowWrites = tx[t].rowWrites
          /\ tx'[t].versionWrites = tx[t].versionWrites
          /\ tx'[t].history \subseteq versions
      BY <2>1 DEF TypeOK, Transaction
    <2>3. \A v \in versions : SameValue(v)
      BY DEF StoreInvariant, VersionsOwned, SameValue
    <2>4. RekeyTrue(t)'
      BY <1>1, <1>3, <2>2, <2>3 DEF RekeyTrue, SameValue, Exists
    <2>5. QED
      BY <1>1, <1>2, <1>4, <2>4, TransactionMoves
  <1>7. CASE ListAllSecrets(t) \/ DeleteVersions(t) \/ ForgetSession(t)
    <2>1. /\ tx'[t].rows = tx[t].rows /\ tx'[t].rowWrites = tx[t].rowWrites
          /\ tx'[t].history = tx[t].history /\ tx'[t].versionWrites = tx[t].versionWrites
      BY <1>7 DEF ListAllSecrets, DeleteVersions, ForgetSession, TypeOK, Transaction
    <2>2. RekeyTrue(t)'
      BY <1>1, <2>1, SameTransaction
    <2>3. QED
      BY <1>1, <1>2, <1>4, <2>2, TransactionMoves
  <1>8. QED
    BY <1>5, <1>6, <1>7

LEMMA RekeyWritesStore ==
  ASSUME TypeOK, StoreInvariant, NEW t \in Threads,
         ReencryptSecret(t) \/ ReencryptVersion(t)
  PROVE  StoreInvariant'
  <1> USE FieldTypes
  <1>1. UNCHANGED <<secrets, versions, serial, ghost>>
    BY DEF ReencryptSecret, ReencryptVersion
  <1>2. CASE CloseTransaction(t)
    BY <1>1, <1>2, Ending
  <1>3. RekeyTrue(t)
    BY DEF StoreInvariant
  <1>4. ASSUME NEW ct \in Ciphertext PROVE Rewrap(t, ct).val = ct.val
    BY DEF Rewrap, Ciphertext
  <1>5. CASE ReencryptSecret(t) /\ ~CloseTransaction(t)
    <2>1. PICK r \in First(tx[t].rows) :
             /\ RowHasId(r.name, r.id)
             /\ tx' = [tx EXCEPT ![t].rows = @ \ {r},
                         ![t].rowWrites = @ \cup {[name |-> r.name, ct |-> Rewrap(t, r.ct)]}]
             /\ UNCHANGED thread
      BY <1>5 DEF ReencryptSecret
    <2>2. r \in tx[t].rows /\ r.ct \in Ciphertext
      BY DEF First, Transaction
    <2> DEFINE write == [name |-> r.name, ct |-> Rewrap(t, r.ct)]
    <2>3. /\ tx'[t].rows = tx[t].rows \ {r} /\ tx'[t].rowWrites = tx[t].rowWrites \cup {write}
          /\ tx'[t].history = tx[t].history /\ tx'[t].versionWrites = tx[t].versionWrites
          /\ \A u \in Threads \ {t} : tx'[u] = tx[u]
      BY <2>1 DEF TypeOK, Transaction
    <2>4. /\ Exists(write.name)
          /\ [sid |-> secrets[write.name].id, val |-> write.ct.val] \in ghost.written
      BY <1>3, <1>4, <2>1, <2>2 DEF RekeyTrue, RowHasId
    <2> HIDE DEF write
    <2>5. RekeyTrue(t)'
      BY <1>1, <1>3, <2>3, <2>4 DEF RekeyTrue, SameValue, Exists
    <2>6. thread[t].pc # "version"
      BY <1>5 DEF ReencryptSecret
    <2>7. QED
      BY <1>1, <2>1, <2>3, <2>5, <2>6, TransactionMoves
  <1>6. CASE ReencryptVersion(t) /\ ~CloseTransaction(t)
    <2>1. PICK v \in Newest(tx[t].history) :
             /\ tx' = [tx EXCEPT ![t].history = @ \ {v},
                         ![t].versionWrites = @ \cup {[vid |-> v.vid, ct |-> Rewrap(t, v.ct)]}]
             /\ UNCHANGED thread
      BY <1>6 DEF ReencryptVersion
    <2>2. v \in tx[t].history /\ v.ct \in Ciphertext
      BY DEF Newest, Transaction, Version
    <2> DEFINE write == [vid |-> v.vid, ct |-> Rewrap(t, v.ct)]
    <2>3. /\ tx'[t].rows = tx[t].rows /\ tx'[t].rowWrites = tx[t].rowWrites
          /\ tx'[t].history = tx[t].history \ {v}
          /\ tx'[t].versionWrites = tx[t].versionWrites \cup {write}
          /\ \A u \in Threads \ {t} : tx'[u] = tx[u]
      BY <2>1 DEF TypeOK, Transaction
    <2>4. SameValue(write)
      BY <1>3, <1>4, <2>2 DEF RekeyTrue, SameValue
    <2> HIDE DEF write
    <2>5. RekeyTrue(t)'
      BY <1>1, <1>3, <2>3, <2>4 DEF RekeyTrue, SameValue, Exists
    <2>6. thread[t].pc # "version"
      BY <1>6 DEF ReencryptVersion
    <2>7. QED
      BY <1>1, <2>1, <2>3, <2>5, <2>6, TransactionMoves
  <1>7. QED
    BY <1>2, <1>5, <1>6

\* What happens to a request from outside.
LEMMA EndsKeepStore ==
  ASSUME TypeOK, StoreInvariant,
         (\E t \in Threads : DeadlockDetected(t) \/ Crash(t)) \/ RequireRekey \/ UNCHANGED vars
  PROVE  StoreInvariant'
  <1>1. ASSUME NEW t \in Threads, DeadlockDetected(t) \/ Crash(t) PROVE StoreInvariant'
    <2>1. UNCHANGED <<secrets, versions, serial>> /\ ghost'.written = ghost.written
      BY <1>1 DEF DeadlockDetected, Crash, TypeOK, GhostState
    <2>2. CloseTransaction(t)
      BY <1>1 DEF DeadlockDetected, Crash
    <2>3. QED
      BY <2>1, <2>2, Ending
  <1>2. CASE RequireRekey \/ UNCHANGED vars
    <2>1. UNCHANGED <<secrets, versions, serial, thread, tx, ghost>>
      BY <1>2 DEF RequireRekey, vars
    <2>2. IdsFresh' /\ IdsOwned'
      BY <2>1 DEF StoreInvariant, IdsFresh, IdsOwned, Exists
    <2>3. ValuesWritten' /\ VersionsOwned'
      BY <2>1 DEF StoreInvariant, ValuesWritten, VersionsOwned, Exists
    <2>4. \A t \in Threads : RekeyTrue(t)' /\ 0 \notin thread'[t].ids
      BY <2>1 DEF StoreInvariant, RekeyTrue, SameValue, Exists
    <2>5. QED
      BY <2>2, <2>3, <2>4 DEF StoreInvariant
  <1>3. QED
    BY <1>1, <1>2

(***************************************************************************)
(* One row changes, or comes to be: under the identity it had, under a new *)
(* one, or under that of a copy a thread has kept of this name's row.      *)
(***************************************************************************)
TakesIdentity(k, row) ==
  \/ Exists(k) /\ row.id = secrets[k].id
  \/ ~Exists(k) /\ row.id = serial.row
  \/ ~Exists(k) /\ \E t \in Threads : thread[t].name = k /\ thread[t].row.id = row.id

\* The identity is nobody else's.
LEMMA IdentityIsOwn ==
  ASSUME TypeOK, StoreInvariant, NEW k \in Keys, NEW row, row.id # 0, TakesIdentity(k, row)
  PROVE  /\ \A j \in Keys \ {k} : secrets[j].id # row.id
         /\ \A u \in Threads : thread[u].row.id = row.id => thread[u].name = k
         /\ ~Exists(k) => \A v \in versions : v.sid # row.id
  <1> USE FieldTypes
  <1>1. \A j \in Keys \ {k} : secrets[j].id # row.id
    <2> SUFFICES ASSUME NEW j \in Keys \ {k}, secrets[j].id = row.id PROVE FALSE
      OBVIOUS
    <2>1. Exists(j)
      BY DEF Exists
    <2>2. CASE Exists(k) /\ row.id = secrets[k].id
      BY <2>1, <2>2 DEF StoreInvariant, IdsOwned
    <2>3. CASE row.id = serial.row
      BY <2>3 DEF StoreInvariant, IdsFresh
    <2>4. CASE \E t \in Threads : thread[t].name = k /\ thread[t].row.id = row.id
      BY <2>1, <2>4 DEF StoreInvariant, IdsOwned
    <2>5. QED
      BY <2>2, <2>3, <2>4 DEF TakesIdentity
  <1>2. \A u \in Threads : thread[u].row.id = row.id => thread[u].name = k
    <2> SUFFICES ASSUME NEW u \in Threads, thread[u].row.id = row.id PROVE thread[u].name = k
      OBVIOUS
    <2>1. CASE Exists(k) /\ row.id = secrets[k].id
      BY <2>1 DEF StoreInvariant, IdsOwned
    <2>2. CASE row.id = serial.row
      BY <2>2 DEF StoreInvariant, IdsFresh
    <2>3. CASE \E t \in Threads : thread[t].name = k /\ thread[t].row.id = row.id
      BY <2>3 DEF StoreInvariant, IdsOwned
    <2>4. QED
      BY <2>1, <2>2, <2>3 DEF TakesIdentity
  <1>3. ASSUME ~Exists(k), NEW v \in versions PROVE v.sid # row.id
    BY <1>1, <1>3 DEF StoreInvariant, VersionsOwned
  <1>4. QED
    BY <1>1, <1>2, <1>3

RowWrite(k, row) ==
  /\ row.id # 0 /\ TakesIdentity(k, row) /\ ~RowLocked(k)
  /\ UNCHANGED <<versions, tx>> /\ secrets' = [secrets EXCEPT ![k] = row]
  /\ serial'.version = serial.version
  /\ serial'.row \in Nat /\ serial.row <= serial'.row /\ row.id < serial'.row
  /\ ghost'.written = ghost.written \cup {Holding(row)}
  /\ \A u \in Threads :
       \/ thread'[u] = thread[u]
       \/ /\ 0 \notin thread'[u].ids /\ thread'[u].row.id \in Nat
          /\ thread'[u].row.id # 0 => thread'[u].name = k /\ thread'[u].row.id = row.id
          /\ thread'[u].pc = "version" => Holding(thread'[u].row) = Holding(row)

LEMMA RowChanges ==
  ASSUME TypeOK, StoreInvariant, NEW k \in Keys, NEW row, RowWrite(k, row)
  PROVE  StoreInvariant'
  <1> USE FieldTypes DEF RowWrite
  <1>1. /\ \A j \in Keys \ {k} : secrets[j].id # row.id
        /\ \A u \in Threads : thread[u].row.id = row.id => thread[u].name = k
    BY IdentityIsOwn
  <1>2. /\ secrets'[k] = row /\ Exists(k)'
        /\ \A j \in Keys \ {k} : secrets'[j] = secrets[j] /\ (Exists(j)' <=> Exists(j))
    BY DEF TypeOK, Exists
  <1>3. Exists(k) => row.id = secrets[k].id
    BY DEF TakesIdentity
  <1>4. IdsFresh'
    <2>1. \A j \in Keys : secrets'[j].id < serial'.row
      BY <1>2 DEF StoreInvariant, IdsFresh
    <2>2. \A u \in Threads : thread'[u].row.id < serial'.row
      BY DEF StoreInvariant, IdsFresh
    <2>3. QED
      BY <2>1, <2>2 DEF IdsFresh
  <1>5. IdsOwned'
    <2>1. \A i, j \in Keys : Exists(j)' /\ secrets'[i].id = secrets'[j].id => i = j
      BY <1>1, <1>2 DEF StoreInvariant, IdsOwned
    <2>2. \A u \in Threads, j \in Keys :
            Exists(j)' /\ secrets'[j].id = thread'[u].row.id => j = thread'[u].name
      BY <1>1, <1>2 DEF StoreInvariant, IdsOwned, Exists
    <2>3. \A u, v \in Threads :
            thread'[u].row.id # 0 /\ thread'[u].row.id = thread'[v].row.id
              => thread'[u].name = thread'[v].name
      BY <1>1 DEF StoreInvariant, IdsOwned
    <2>4. QED
      BY <2>1, <2>2, <2>3 DEF IdsOwned
  <1>6. ValuesWritten'
    BY <1>2 DEF StoreInvariant, ValuesWritten
  <1>7. VersionsOwned'
    BY <1>2, <1>3 DEF StoreInvariant, VersionsOwned
  <1>8. ASSUME NEW u \in Threads PROVE RekeyTrue(u)'
    <2>1. \A w \in tx[u].rowWrites : w.name \in Keys \ {k}
      BY DEF RowLocked, HoldsRow, Transaction
    <2>2. QED
      BY <1>2, <2>1 DEF StoreInvariant, RekeyTrue, SameValue
  <1>9. \A u \in Threads : 0 \notin thread'[u].ids
    BY DEF StoreInvariant
  <1>10. QED
    BY <1>4, <1>5, <1>6, <1>7, <1>8, <1>9 DEF StoreInvariant

\* The statements that write one row, and the passing of its window.
FindsNoRow(t) == Finish(t) /\ UNCHANGED <<secrets, versions, serial, tx, ghost>>

LEMMA SaveWrites ==
  ASSUME TypeOK, StoreInvariant, NEW t \in Threads, Save(t), ~FindsNoRow(t)
  PROVE  \E k \in Keys : \E row : RowWrite(k, row)
  <1> USE FieldTypes
  <1> DEFINE k == thread[t].name
             copy == thread[t].row
             row == IF copy.id = 0 THEN [copy EXCEPT !.id = serial.row] ELSE copy
  <1>1. /\ ~RowLocked(k) /\ ~(Exists(k) /\ secrets[k].id # copy.id)
        /\ secrets' = [secrets EXCEPT ![k] = row]
        /\ serial' = [serial EXCEPT !.row = IF copy.id = 0 THEN @ + 1 ELSE @]
        /\ thread' = [thread EXCEPT ![t].row = row, ![t].pc = "version"]
        /\ ghost' = Recorded(t, k, row)
        /\ UNCHANGED <<versions, tx>>
    BY DEF Save, Others, FindsNoRow
  <1>2. row.id = (IF copy.id = 0 THEN serial.row ELSE copy.id) /\ row.id \in Nat
    BY DEF Row, TypeOK, Serial
  <1>3. /\ serial'.version = serial.version
        /\ serial'.row = IF copy.id = 0 THEN serial.row + 1 ELSE serial.row
        /\ serial.row # 0
    BY <1>1 DEF TypeOK, Serial
  <1>4. ghost'.written = ghost.written \cup {Holding(row)}
    BY <1>1 DEF Recorded, TypeOK, GhostState
  <1>5. /\ thread'[t].row = row /\ thread'[t].name = k /\ thread'[t].ids = thread[t].ids
        /\ \A u \in Threads \ {t} : thread'[u] = thread[u]
    BY <1>1 DEF TypeOK, ThreadState
  <1> HIDE DEF row
  <1>6. row.id # 0 /\ TakesIdentity(k, row)
    BY <1>1, <1>2, <1>3 DEF TakesIdentity, Exists
  <1>7. row.id < serial'.row
    BY <1>2, <1>3 DEF StoreInvariant, IdsFresh
  <1>8. 0 \notin thread'[t].ids
    BY <1>5 DEF StoreInvariant
  <1>9. thread'[t].row.id = row.id /\ Holding(thread'[t].row) = Holding(row)
    BY <1>5
  <1>10. \A u \in Threads :
           \/ thread'[u] = thread[u]
           \/ /\ 0 \notin thread'[u].ids /\ thread'[u].row.id \in Nat
              /\ thread'[u].row.id # 0 => thread'[u].name = k /\ thread'[u].row.id = row.id
              /\ thread'[u].pc = "version" => Holding(thread'[u].row) = Holding(row)
    BY <1>2, <1>5, <1>8, <1>9
  <1> HIDE DEF k, copy
  <1>11. serial'.row \in Nat /\ serial.row <= serial'.row
    BY <1>3
  <1>12. RowWrite(k, row)
    BY <1>1, <1>3, <1>4, <1>6, <1>7, <1>10, <1>11 DEF RowWrite
  <1>13. QED
    BY <1>12 DEF k

LEMMA SaveFieldWrites ==
  ASSUME TypeOK, StoreInvariant, NEW t \in Threads,
         SaveCiphertext(t) \/ SaveDeletedAt(t), ~FindsNoRow(t)
  PROVE  \E k \in Keys : \E row : RowWrite(k, row)
  <1> USE FieldTypes
  <1> DEFINE k == thread[t].name
  <1>1. PICK row :
          /\ \/ row = [secrets[k] EXCEPT !.ct = thread[t].row.ct] /\ Goto(t, "version")
             \/ row = [secrets[k] EXCEPT !.deleted = thread[t].row.deleted] /\ Finish(t)
          /\ secrets' = [secrets EXCEPT ![k] = row] /\ ghost' = Recorded(t, k, row)
          /\ ~RowLocked(k) /\ RowHasId(k, thread[t].row.id)
          /\ UNCHANGED <<versions, tx, serial>>
    <2>1. CASE SaveCiphertext(t)
      <3> DEFINE row == [secrets[k] EXCEPT !.ct = thread[t].row.ct]
      <3>1. /\ Goto(t, "version") /\ ghost' = Recorded(t, k, row)
            /\ ~RowLocked(k) /\ RowHasId(k, thread[t].row.id)
            /\ UNCHANGED <<versions, tx, serial>>
        BY <2>1 DEF SaveCiphertext, Others, FindsNoRow
      <3>2. secrets' = [secrets EXCEPT ![k] = row]
        BY <2>1 DEF SaveCiphertext, Others, FindsNoRow, TypeOK
      <3>3. QED
        BY <3>1, <3>2
    <2>2. CASE SaveDeletedAt(t)
      BY <2>2 DEF SaveDeletedAt, Others, FindsNoRow
    <2>3. QED
      BY <2>1, <2>2
  <1>2. row.id = secrets[k].id
    BY <1>1 DEF Row
  <1>3. Exists(k) /\ secrets[k].id = thread[t].row.id
    BY <1>1 DEF RowHasId
  <1>4. ghost'.written = ghost.written \cup {Holding(row)}
    BY <1>1 DEF Recorded, TypeOK, GhostState
  <1>5. 0 \notin thread[t].ids
    BY DEF StoreInvariant
  <1>6. \A u \in Threads :
          \/ thread'[u] = thread[u]
          \/ /\ 0 \notin thread'[u].ids /\ thread'[u].row.id \in Nat
             /\ thread'[u].row.id # 0 => thread'[u].name = k /\ thread'[u].row.id = row.id
             /\ thread'[u].pc = "version" => Holding(thread'[u].row) = Holding(row)
    <2>1. CASE Finish(t)
      BY <2>1 DEF Finish, TypeOK, Idle, NoRow
    <2>2. CASE row = [secrets[k] EXCEPT !.ct = thread[t].row.ct] /\ Goto(t, "version")
      <3>1. row.ct = thread[t].row.ct
        BY <2>2 DEF Row
      <3>2. /\ thread'[t].row = thread[t].row /\ thread'[t].name = k
            /\ thread'[t].ids = thread[t].ids /\ \A u \in Threads \ {t} : thread'[u] = thread[u]
        BY <2>2 DEF Goto, TypeOK, ThreadState
      <3>3. QED
        BY <1>2, <1>3, <1>5, <3>1, <3>2 DEF Holding
    <2>3. QED
      BY <1>1, <2>1, <2>2
  <1>7. TakesIdentity(k, row) /\ row.id # 0 /\ row.id < serial.row
    BY <1>2, <1>3 DEF TakesIdentity, Exists, StoreInvariant, IdsFresh
  <1>8. RowWrite(k, row)
    BY <1>1, <1>4, <1>6, <1>7 DEF RowWrite
  <1> HIDE DEF k
  <1>9. QED
    BY <1>8 DEF k

LEMMA AddWrites ==
  ASSUME TypeOK, StoreInvariant, NEW t \in Threads, UpdateOrCreate(t)
  PROVE  \E k \in Keys : \E row : RowWrite(k, row)
  <1> USE FieldTypes
  <1>1. PICK k \in Keys, val \in Vals :
          LET ct == [salt |-> thread[t].key, val |-> val]
          IN /\ ~RowLocked(k)
             /\ IF Exists(k)
                  THEN secrets' = [secrets EXCEPT ![k].ct = ct] /\ UNCHANGED serial
                  ELSE /\ secrets' = [secrets EXCEPT ![k] =
                                        [NoRow EXCEPT !.id = serial.row, !.ct = ct]]
                       /\ serial' = [serial EXCEPT !.row = @ + 1]
             /\ LET row == secrets'[k]
                IN ghost' = [Recorded(t, k, row) EXCEPT !.unarchived = @ \cup {Holding(row)}]
             /\ Finish(t) /\ UNCHANGED <<versions, tx>>
    BY DEF UpdateOrCreate
  <1> DEFINE row == secrets'[k]
  <1>2. secrets' = [secrets EXCEPT ![k] = row]
    BY <1>1 DEF TypeOK
  <1>3. /\ serial'.version = serial.version /\ serial'.row \in Nat /\ serial.row # 0
        /\ serial'.row = IF Exists(k) THEN serial.row ELSE serial.row + 1
    BY <1>1 DEF TypeOK, Serial
  <1>4. row.id = IF Exists(k) THEN secrets[k].id ELSE serial.row
    <2>1. CASE Exists(k)
      <3>1. row = [secrets[k] EXCEPT !.ct = [salt |-> thread[t].key, val |-> val]]
        BY <1>1, <2>1 DEF TypeOK
      <3>2. QED
        BY <2>1, <3>1 DEF Row
    <2>2. CASE ~Exists(k)
      BY <1>1, <2>2, ZenonT(40) DEF TypeOK, NoRow
    <2>3. QED
      BY <2>1, <2>2
  <1> HIDE DEF row
  <1>5. ghost'.written = ghost.written \cup {Holding(row)}
    BY <1>1 DEF row, Recorded, TypeOK, GhostState
  <1>6. \A u \in Threads : thread'[u] = thread[u] \/ thread'[u] = Idle
    BY <1>1 DEF Finish, TypeOK
  <1>7. TakesIdentity(k, row) /\ row.id # 0 /\ row.id < serial'.row
    BY <1>3, <1>4 DEF TakesIdentity, Exists, StoreInvariant, IdsFresh
  <1>8. Idle.ids = {} /\ Idle.row.id = 0 /\ Idle.pc # "version"
    BY DEF Idle, NoRow
  <1>9. RowWrite(k, row)
    BY <1>1, <1>2, <1>3, <1>5, <1>6, <1>7, <1>8 DEF RowWrite
  <1>10. QED
    BY <1>9

LEMMA WindowWrites ==
  ASSUME TypeOK, StoreInvariant, WindowPasses
  PROVE  \E k \in Keys : \E row : RowWrite(k, row)
  <1> USE FieldTypes
  <1>1. PICK k \in Keys :
          /\ Exists(k) /\ ~RowLocked(k)
          /\ secrets' = [secrets EXCEPT ![k] = [secrets[k] EXCEPT !.deleted = "expired"]]
          /\ UNCHANGED <<versions, serial, thread, ghost, tx>>
    BY DEF WindowPasses, Others, TypeOK
  <1> DEFINE row == [secrets[k] EXCEPT !.deleted = "expired"]
  <1>2. row.id = secrets[k].id /\ row.ct = secrets[k].ct
    BY DEF Row
  <1>3. secrets' = [secrets EXCEPT ![k] = row]
    BY <1>1
  <1> HIDE DEF row
  <1>4. Holding(row) \in ghost.written
    BY <1>1, <1>2 DEF StoreInvariant, ValuesWritten, Holding
  <1>5. ghost'.written = ghost.written \cup {Holding(row)}
    BY <1>1, <1>4
  <1>6. TakesIdentity(k, row) /\ row.id # 0 /\ row.id < serial.row
    BY <1>1, <1>2 DEF TakesIdentity, Exists, StoreInvariant, IdsFresh
  <1>7. UNCHANGED <<versions, tx, serial, thread>> /\ ~RowLocked(k)
    BY <1>1
  <1>8. RowWrite(k, row)
    BY <1>3, <1>5, <1>6, <1>7 DEF RowWrite
  <1>9. QED
    BY <1>8

(***************************************************************************)
(* The steps that change the history: a new version, a hard delete, the    *)
(* commit of a rekey.                                                      *)
(***************************************************************************)
Archives(t) ==
  /\ thread[t].pc = "version" /\ RowHasId(thread[t].name, thread[t].row.id)
  /\ \E v : /\ v.vid = serial.version /\ v.sid = thread[t].row.id
            /\ v.ct = thread[t].row.ct
            /\ versions' = versions \cup {v}
  /\ serial'.row = serial.row /\ serial'.version = serial.version + 1
  /\ Finish(t)
  /\ UNCHANGED <<secrets, tx, ghost>>

LEMMA VersionArchives ==
  ASSUME TypeOK, NEW t \in Threads, CreateVersion(t)
  PROVE  \/ Archives(t)
         \/ /\ ~RowHasId(thread[t].name, thread[t].row.id)
            /\ UNCHANGED <<secrets, versions, serial, tx, ghost>> /\ Finish(t)
  <1> DEFINE by == IF thread[t].op \in {"post", "put"} THEN thread[t].row.token ELSE NoToken
             new == [vid |-> serial.version, sid |-> thread[t].row.id, ct |-> thread[t].row.ct,
                     by |-> by]
  <1>1. /\ new.vid = serial.version /\ new.sid = thread[t].row.id /\ new.ct = thread[t].row.ct
    OBVIOUS
  <1>2. CASE RowHasId(thread[t].name, thread[t].row.id)
    <2>1. versions' = versions \cup {new} /\ Finish(t) /\ UNCHANGED <<secrets, tx, ghost>>
      BY <1>2 DEF CreateVersion, Others
    <2>2. serial'.row = serial.row /\ serial'.version = serial.version + 1
      BY <1>2 DEF CreateVersion, TypeOK
    <2>3. thread[t].pc = "version"
      BY DEF CreateVersion
    <2> HIDE DEF new
    <2>4. QED
      BY <1>1, <1>2, <2>1, <2>2, <2>3 DEF Archives
  <1>3. CASE ~RowHasId(thread[t].name, thread[t].row.id)
    BY <1>3 DEF CreateVersion, Others
  <1>4. QED
    BY <1>2, <1>3

LEMMA ArchiveKeepsStore ==
  ASSUME TypeOK, StoreInvariant, NEW t \in Threads, Archives(t)
  PROVE  StoreInvariant'
  <1> USE FieldTypes
  <1>1. PICK new : /\ new.vid = serial.version /\ new.sid = thread[t].row.id
                   /\ versions' = versions \cup {new}
    BY DEF Archives
  <1>2. /\ UNCHANGED <<secrets, tx, ghost>>
        /\ serial'.row = serial.row /\ serial'.version = serial.version + 1
        /\ RowHasId(thread[t].name, thread[t].row.id)
    BY DEF Archives
  <1>3. thread'[t] = Idle /\ \A u \in Threads \ {t} : thread'[u] = thread[u]
    BY DEF Archives, Finish, TypeOK
  <1>4. Idle.ids = {} /\ Idle.row.id = 0 /\ Idle.pc # "version"
    BY DEF Idle, NoRow
  <1>5. IdsFresh'
    BY <1>2, <1>3, <1>4 DEF StoreInvariant, IdsFresh, TypeOK, Serial
  <1>6. IdsOwned'
    BY <1>2, <1>3, <1>4 DEF StoreInvariant, IdsOwned, Exists
  <1>7. ValuesWritten'
    BY <1>2, <1>3, <1>4 DEF StoreInvariant, ValuesWritten, Exists
  <1>8. VersionsOwned'
    <2>1. \A v \in versions : v.vid < serial.version
      BY DEF StoreInvariant, VersionsOwned
    <2>2. new.sid = secrets[thread[t].name].id /\ Exists(thread[t].name)
      BY <1>1, <1>2 DEF RowHasId
    <2>3. \A v \in versions' :
            v.vid < serial'.version /\ \E k \in Keys : Exists(k)' /\ v.sid = secrets'[k].id
      BY <1>1, <1>2, <2>1, <2>2 DEF StoreInvariant, VersionsOwned, Exists
    <2>4. \A v, w \in versions' : v.vid = w.vid => v = w
      BY <1>1, <2>1 DEF StoreInvariant, VersionsOwned
    <2>5. QED
      BY <2>3, <2>4 DEF VersionsOwned
  <1>9. ASSUME NEW w, w.vid \in Nat, SameValue(w) PROVE SameValue(w)'
    BY <1>1, <1>2, <1>9 DEF SameValue
  <1>10. ASSUME NEW u \in Threads PROVE RekeyTrue(u)' /\ 0 \notin thread'[u].ids
    <2>1. /\ \A w \in tx[u].history : SameValue(w) /\ w.vid \in Nat
          /\ \A w \in tx[u].versionWrites : SameValue(w) /\ w.vid \in Nat
      BY DEF StoreInvariant, RekeyTrue, Transaction, Version
    <2>2. QED
      BY <1>2, <1>3, <1>4, <1>9, <2>1 DEF StoreInvariant, RekeyTrue, Exists
  <1>11. QED
    BY <1>5, <1>6, <1>7, <1>8, <1>10 DEF StoreInvariant

LEMMA DestroyKeepsStore ==
  ASSUME TypeOK, StoreInvariant, NEW t \in Threads, DeleteSecrets(t)
  PROVE  StoreInvariant'
  <1> USE FieldTypes
  <1> DEFINE ids == thread[t].ids
  <1>1. UNCHANGED <<serial, ghost>> /\ CloseTransaction(t)
    BY DEF DeleteSecrets
  <1>2. CASE UNCHANGED <<secrets, versions>>
    BY <1>1, <1>2, Ending
  <1>3. CASE /\ secrets' = [k \in Keys |-> IF secrets[k].id \in ids THEN NoRow ELSE secrets[k]]
             /\ versions' = versions \ Owned(ids)
    <2>1. \A k \in Keys : secrets'[k] = IF secrets[k].id \in ids THEN NoRow ELSE secrets[k]
      BY <1>3
    <2>2. NoRow.id = 0
      BY DEF NoRow
    <2>3. /\ \A k \in Keys : Exists(k)' => secrets'[k] = secrets[k] /\ Exists(k)
          /\ \A k \in Keys : secrets'[k].id \in {0, secrets[k].id}
      BY <2>1, <2>2 DEF Exists
    <2>4. /\ \A u \in Threads \ {t} : thread'[u] = thread[u] /\ tx'[u] = tx[u]
          /\ thread'[t] = Idle /\ tx'[t] = NoTx
      BY <1>1 DEF CloseTransaction, Finish, TypeOK
    <2>5. Idle.ids = {} /\ Idle.row.id = 0 /\ Idle.pc # "version"
      BY DEF Idle, NoRow
    <2>6. IdsFresh'
      BY <1>1, <2>3, <2>4, <2>5 DEF StoreInvariant, IdsFresh, TypeOK, Serial
    <2>7. IdsOwned'
      BY <2>3, <2>4, <2>5 DEF StoreInvariant, IdsOwned, Exists
    <2>8. ValuesWritten'
      BY <1>1, <2>3, <2>4, <2>5 DEF StoreInvariant, ValuesWritten
    <2>9. VersionsOwned'
      <3>1. \A v \in versions' : v \in versions /\ v.sid \notin ids
        BY <1>3 DEF Owned
      <3>2. \A k \in Keys : Exists(k) /\ secrets[k].id \notin ids
                              => Exists(k)' /\ secrets'[k].id = secrets[k].id
        BY <2>1 DEF Exists
      <3>3. QED
        BY <1>1, <3>1, <3>2 DEF StoreInvariant, VersionsOwned
    <2>10. ASSUME NEW u \in Threads PROVE RekeyTrue(u)' /\ 0 \notin thread'[u].ids
      <3>1. CASE u = t
        BY <2>4, <2>5, <3>1 DEF RekeyTrue, NoTx
      <3>2. CASE u # t
        <4>1. \A w \in tx[u].rowWrites : w.name \in Keys /\ RowLocked(w.name)
          BY DEF RowLocked, HoldsRow, Transaction
        <4>2. \A k \in Keys : secrets[k].id \in ids => ~RowLocked(k)
          BY DEF DeleteSecrets
        <4>3. \A w \in tx[u].rowWrites : secrets'[w.name] = secrets[w.name]
          BY <2>1, <4>1, <4>2
        <4>4. versions' \subseteq versions
          BY <1>3
        <4>5. QED
          BY <1>1, <2>4, <3>2, <4>3, <4>4 DEF StoreInvariant, RekeyTrue, SameValue, Exists
      <3>3. QED
        BY <3>1, <3>2
    <2>11. QED
      BY <2>6, <2>7, <2>8, <2>9, <2>10 DEF StoreInvariant
  <1>4. QED
    BY <1>2, <1>3 DEF DeleteSecrets

\* What a rekey commits has the identities there were, and values they held.
LEMMA CommittedRow ==
  ASSUME TypeOK, StoreInvariant, NEW t \in Threads, NEW k \in Keys
  PROVE  /\ RowAfter(t, k).id = secrets[k].id
         /\ RowAfter(t, k).deleted = secrets[k].deleted
         /\ \/ RowAfter(t, k) = secrets[k]
            \/ Exists(k) /\ Holding(RowAfter(t, k)) \in ghost.written
  <1> USE FieldTypes
  <1>1. CASE ~\E w \in tx[t].rowWrites : w.name = k
    BY <1>1 DEF RowAfter
  <1>2. CASE \E w \in tx[t].rowWrites : w.name = k
    <2>1. PICK w \in tx[t].rowWrites :
             w.name = k /\ RowAfter(t, k) = [secrets[k] EXCEPT !.ct = w.ct]
      BY <1>2 DEF RowAfter
    <2>2. Exists(k) /\ [sid |-> secrets[k].id, val |-> w.ct.val] \in ghost.written
      BY <2>1 DEF StoreInvariant, RekeyTrue
    <2>3. QED
      BY <2>1, <2>2 DEF Row, Holding
  <1>3. QED
    BY <1>1, <1>2

LEMMA CommittedVersion ==
  ASSUME TypeOK, StoreInvariant, NEW t \in Threads, NEW v \in versions
  PROVE  /\ VersionAfter(t, v).vid = v.vid /\ VersionAfter(t, v).sid = v.sid
         /\ VersionAfter(t, v).ct.val = v.ct.val
  <1>1. v \in Version
    BY DEF TypeOK
  <1>2. CASE ~\E w \in tx[t].versionWrites : w.vid = v.vid
    BY <1>2 DEF VersionAfter
  <1>3. CASE \E w \in tx[t].versionWrites : w.vid = v.vid
    <2>1. PICK w \in tx[t].versionWrites :
             w.vid = v.vid /\ VersionAfter(t, v) = [v EXCEPT !.ct = w.ct]
      BY <1>3 DEF VersionAfter
    <2>2. v.ct.val = w.ct.val
      BY <2>1 DEF StoreInvariant, RekeyTrue, SameValue
    <2>3. QED
      BY <1>1, <2>1, <2>2 DEF Version
  <1>4. QED
    BY <1>2, <1>3

LEMMA CommitKeepsStore ==
  ASSUME TypeOK, StoreInvariant, NEW t \in Threads, Commit(t)
  PROVE  StoreInvariant'
  <1> USE FieldTypes
  <1>1. /\ UNCHANGED serial /\ ghost'.written = ghost.written
        /\ \A k \in Keys : secrets'[k] = RowAfter(t, k)
        /\ versions' = {VersionAfter(t, v) : v \in versions}
    BY DEF Commit, TypeOK, GhostState
  <1>2. /\ \A u \in Threads \ {t} : thread'[u] = thread[u] /\ tx'[u] = tx[u]
        /\ thread'[t].row = thread[t].row /\ thread'[t].name = thread[t].name
        /\ thread'[t].ids = thread[t].ids /\ thread'[t].pc = "forget"
        /\ tx'[t] = [NoTx EXCEPT !.sessions = Sessions]
    BY DEF Commit, Goto, TypeOK, ThreadState
  <1>3. \A k \in Keys : secrets'[k].id = secrets[k].id /\ (Exists(k)' <=> Exists(k))
    BY <1>1, CommittedRow DEF Exists
  <1>4. IdsFresh'
    BY <1>1, <1>2, <1>3 DEF StoreInvariant, IdsFresh
  <1>5. IdsOwned'
    BY <1>2, <1>3 DEF StoreInvariant, IdsOwned
  <1>6. ValuesWritten'
    BY <1>1, <1>2, <1>3, CommittedRow DEF StoreInvariant, ValuesWritten
  <1>7. VersionsOwned'
    BY <1>1, <1>3, CommittedVersion DEF StoreInvariant, VersionsOwned
  <1>8. ASSUME NEW w, SameValue(w) PROVE SameValue(w)'
    BY <1>1, <1>8, CommittedVersion DEF SameValue
  <1>9. ASSUME NEW u \in Threads PROVE RekeyTrue(u)' /\ 0 \notin thread'[u].ids
    <2>1. 0 \notin thread'[u].ids
      BY <1>2 DEF StoreInvariant
    <2>2. CASE u = t
      BY <1>2, <2>1, <2>2 DEF RekeyTrue, NoTx
    <2>3. CASE u # t
      <3>1. \A w \in tx[u].rowWrites : w.name \in Keys
        BY DEF Transaction
      <3>2. QED
        BY <1>1, <1>2, <1>3, <1>8, <2>1, <2>3, <3>1 DEF StoreInvariant, RekeyTrue
    <2>4. QED
      BY <2>2, <2>3
  <1>10. QED
    BY <1>4, <1>5, <1>6, <1>7, <1>9 DEF StoreInvariant

-----------------------------------------------------------------------------
(***************************************************************************)
(* Every step is a step of the store, or none.                             *)
(***************************************************************************)
LEMMA RowWriteIsStore ==
  ASSUME TypeOK, StoreInvariant, NEW k \in Keys, NEW row, RowWrite(k, row)
  PROVE  Store!Store(k)
  <1> USE FieldTypes
  <1>1. /\ row.id # 0 /\ UNCHANGED versions
        /\ secrets'[k] = row /\ \A j \in Keys \ {k} : secrets'[j] = secrets[j]
        /\ ghost'.written = ghost.written \cup {Holding(row)}
        /\ Exists(k) => row.id = secrets[k].id
    BY DEF RowWrite, TypeOK, TakesIdentity
  <1>2. /\ \A j \in Keys \ {k} : secrets[j].id # row.id
        /\ ~Exists(k) => \A v \in versions : v.sid # row.id
    BY IdentityIsOwn DEF RowWrite
  <1>3. Store!Only(k)
    BY <1>1 DEF Store!Only
  <1>4. /\ secrets'[k].id # 0
        /\ Store!Present(k) => secrets'[k].id = secrets[k].id
    BY <1>1 DEF Store!Present, Exists
  <1>5. ~Store!Present(k) =>
          /\ \A j \in Keys : secrets[j].id # secrets'[k].id
          /\ \A v \in versions : v.sid # secrets'[k].id
    BY <1>1, <1>2 DEF Store!Present, Exists
  <1>6. ghost'.written = ghost.written
          \cup {[sid |-> secrets'[k].id, val |-> secrets'[k].ct.val]}
    BY <1>1 DEF Holding
  <1>7. QED
    BY <1>1, <1>3, <1>4, <1>5, <1>6 DEF Store!Store

LEMMA ArchivesIsArchive ==
  ASSUME TypeOK, StoreInvariant, NEW t \in Threads, Archives(t)
  PROVE  \E k \in Keys : Store!Archive(k)
  <1> USE FieldTypes
  <1> DEFINE Past(v) == [vid |-> v.vid, sid |-> v.sid, val |-> v.ct.val]
  <1>0. PICK k \in Keys : k = thread[t].name
    OBVIOUS
  <1>1. PICK new : /\ new.vid = serial.version /\ new.sid = thread[t].row.id
                   /\ new.ct = thread[t].row.ct
                   /\ versions' = versions \cup {new}
    BY DEF Archives
  <1>2. UNCHANGED <<secrets, ghost>> /\ Exists(k) /\ secrets[k].id = thread[t].row.id
    BY <1>0 DEF Archives, RowHasId
  <1>3. Holding(thread[t].row) \in ghost.written
    BY DEF Archives, StoreInvariant, ValuesWritten
  <1>4. [sid |-> secrets[k].id, val |-> new.ct.val] \in ghost.written
    BY <1>1, <1>2, <1>3 DEF Holding
  <1>5. new.ct.val \in Vals \cup {NoVal}
    BY <1>1 DEF Ciphertext
  <1>6. \A w \in versions : w.vid < new.vid
    BY <1>1 DEF StoreInvariant, VersionsOwned
  <1>7. {Past(v) : v \in versions'} = {Past(v) : v \in versions} \cup {Past(new)}
    BY <1>1
  <1>8. Past(new).sid = secrets[k].id /\ Past(new).val = new.ct.val /\ Past(new).vid = new.vid
    BY <1>1, <1>2
  <1>9. \A w \in {Past(v) : v \in versions} : w.vid < Past(new).vid
    BY <1>6, <1>8
  <1>10. Store!Present(k)
    BY <1>2 DEF Store!Present, Exists
  <1>11. Store!Archive(k)
    BY <1>2, <1>4, <1>5, <1>7, <1>8, <1>9, <1>10 DEF Store!Archive
  <1>12. QED
    BY <1>11

LEMMA DeletionIsDestroy ==
  ASSUME TypeOK, StoreInvariant, NEW t \in Threads, DeleteSecrets(t)
  PROVE  Store!Destroy \/ UNCHANGED <<secrets, versions, ghost>>
  <1> USE FieldTypes
  <1> DEFINE ids == thread[t].ids
             Past(v) == [vid |-> v.vid, sid |-> v.sid, val |-> v.ct.val]
             gone == {k \in Keys : secrets[k].id # 0 /\ secrets'[k].id = 0}
  <1> SUFFICES ASSUME /\ secrets' = [k \in Keys |-> IF secrets[k].id \in ids
                                                     THEN NoRow ELSE secrets[k]]
                      /\ versions' = versions \ Owned(ids)
               PROVE  Store!Destroy
    BY DEF DeleteSecrets
  <1>1. \A k \in Keys : k \in gone <=> secrets[k].id \in ids
    BY DEF StoreInvariant, NoRow
  <1>2. \A k \in Keys \ gone : secrets'[k] = secrets[k]
    BY <1>1
  <1>3. \A v \in versions : v \in versions' <=> \A k \in gone : v.sid # secrets[k].id
    <2>1. \A v \in versions : \E k \in Keys : Exists(k) /\ v.sid = secrets[k].id
      BY DEF StoreInvariant, VersionsOwned
    <2>2. \A v \in versions : v \in versions' <=> v.sid \notin ids
      BY DEF Owned
    <2>3. QED
      BY <1>1, <2>1, <2>2
  <1>4. versions' \subseteq versions
    OBVIOUS
  <1>5. {Past(v) : v \in versions'} =
          {p \in {Past(v) : v \in versions} : \A k \in gone : p.sid # secrets[k].id}
    <2>1. \A v : Past(v).sid = v.sid
      OBVIOUS
    <2> HIDE DEF Past, gone
    <2>2. QED
      BY <1>3, <1>4, <2>1
  <1>6. UNCHANGED ghost
    BY DEF DeleteSecrets
  <1>7. QED
    BY <1>2, <1>5, <1>6 DEF Store!Destroy, Store!Present

LEMMA CommitIsRevert ==
  ASSUME TypeOK, StoreInvariant, NEW t \in Threads, Commit(t)
  PROVE  Store!Revert
  <1> USE FieldTypes
  <1> DEFINE Past(v) == [vid |-> v.vid, sid |-> v.sid, val |-> v.ct.val]
  <1>1. /\ ghost'.written = ghost.written
        /\ \A k \in Keys : secrets'[k] = RowAfter(t, k)
        /\ versions' = {VersionAfter(t, v) : v \in versions}
    BY DEF Commit, TypeOK, GhostState
  <1>2. \A v \in versions : Past(VersionAfter(t, v)) = Past(v)
    BY CommittedVersion
  <1>3. {Past(v) : v \in versions'} = {Past(v) : v \in versions}
    <2> HIDE DEF Past
    <2>1. QED
      BY <1>1, <1>2
  <1>4. ASSUME NEW k \in Keys
        PROVE  /\ secrets'[k].id = secrets[k].id /\ secrets'[k].deleted = secrets[k].deleted
               /\ \/ secrets'[k] = secrets[k]
                  \/ /\ secrets[k].id # 0
                     /\ [sid |-> secrets[k].id, val |-> secrets'[k].ct.val] \in ghost.written
    BY <1>1, CommittedRow DEF Exists, Holding
  <1>5. ASSUME NEW k \in Keys
        PROVE  LET before == [id |-> secrets[k].id, val |-> secrets[k].ct.val,
                              deleted |-> secrets[k].deleted # "null"]
                   after == [id |-> secrets'[k].id, val |-> secrets'[k].ct.val,
                             deleted |-> secrets'[k].deleted # "null"]
               IN  \/ after = before
                   \/ /\ before.id # 0 /\ [sid |-> before.id, val |-> after.val] \in ghost.written
                      /\ after = [before EXCEPT !.val = after.val]
    BY <1>4
  <1>6. QED
    BY <1>1, <1>3, <1>5 DEF Store!Revert, Store!Present

LEMMA StepSimulates ==
  ASSUME TypeOK, StoreInvariant, [Next]_vars
  PROVE  StoreInvariant' /\ [Store!Next]_(Store!vars)
  <1> DEFINE simulates == StoreInvariant' /\ [Store!Next]_(Store!vars)
  <1>1. ASSUME UNCHANGED <<secrets, versions>>, ghost'.written = ghost.written, StoreInvariant'
        PROVE  simulates
    BY <1>1 DEF Store!vars
  <1>2. ASSUME NEW k \in Keys, NEW row, RowWrite(k, row) PROVE simulates
    BY <1>2, RowChanges, RowWriteIsStore DEF Store!Next
  <1> HIDE DEF simulates
  <1>3. ASSUME NEW t \in Threads,
               \/ WriteLookup(t) \/ ImportLookup(t) \/ RotateLookup(t) \/ RestoreVersionLookup(t)
               \/ DeleteLookup(t) \/ RestoreLookup(t) \/ GetLookup(t)
        PROVE  simulates
    <2>1. UNCHANGED <<secrets, versions>> /\ ghost'.written = ghost.written
      BY <1>3 DEF WriteLookup, ImportLookup, RotateLookup, RestoreVersionLookup, DeleteLookup,
                  RestoreLookup, GetLookup, TypeOK, GhostState
    <2>2. QED
      BY <1>1, <1>3, <2>1, LookupsKeepStore
  <1>4. ASSUME NEW t \in Threads,
               \/ ForceDeleteLookup(t) \/ CleanupSelect(t) \/ GetVersion(t)
               \/ ReadSalt(t) \/ ExportSalt(t) \/ ReadRows(t) \/ Answer(t)
        PROVE  simulates
    <2>1. UNCHANGED <<secrets, versions>> /\ ghost'.written = ghost.written
      BY <1>4 DEF ForceDeleteLookup, CleanupSelect, GetVersion, ReadSalt, ExportSalt, ReadRows,
                  Answer, TypeOK, GhostState
    <2>2. QED
      BY <1>1, <1>4, <2>1, DeletesBegin, ReadsKeepStore
  <1>5. ASSUME NEW t \in Threads, Save(t) \/ SaveCiphertext(t) \/ SaveDeletedAt(t)
        PROVE  simulates
    <2>1. CASE FindsNoRow(t)
      <3>1. simulates
        BY <1>1, <2>1, Ending DEF FindsNoRow
      <3>2. QED
        BY <3>1
    <2>2. CASE ~FindsNoRow(t)
      BY <1>2, <1>5, <2>2, SaveWrites, SaveFieldWrites
    <2>3. QED
      BY <2>1, <2>2
  <1>6. ASSUME NEW t \in Threads, CreateVersion(t) PROVE simulates
    <2>1. CASE Archives(t)
      <3>1. StoreInvariant'
        BY <2>1, ArchiveKeepsStore
      <3>2. Store!Next
        BY <2>1, ArchivesIsArchive DEF Store!Next
      <3>3. QED
        BY <3>1, <3>2 DEF simulates
    <2>2. CASE UNCHANGED <<secrets, versions, serial, tx, ghost>> /\ Finish(t)
      BY <1>1, <2>2, Ending
    <2>3. QED
      BY <1>6, <2>1, <2>2, VersionArchives
  <1>7. ASSUME NEW t \in Threads, DeleteSecrets(t) PROVE simulates
    BY <1>1, <1>7, DestroyKeepsStore, DeletionIsDestroy DEF Store!Next, simulates
  <1>8. ASSUME NEW t \in Threads, Commit(t) PROVE simulates
    BY <1>8, CommitKeepsStore, CommitIsRevert DEF Store!Next, simulates
  <1>9. ASSUME NEW t \in Threads,
               \/ RekeyRequest(t) \/ DeriveKey(t) \/ VerifyKey(t) \/ Respond(t)
               \/ ForgetOwnKey(t)
        PROVE  simulates
    <2>1. UNCHANGED <<secrets, versions>> /\ ghost'.written = ghost.written
      BY <1>9 DEF RekeyRequest, StartUnlock, Lock, ModifySession, StartAdd, StartRekey,
                  DeriveKey, VerifyKey, Respond, ForgetOwnKey, TypeOK, GhostState
    <2>2. QED
      BY <1>1, <1>9, <2>1, WebKeepsStore
  <1>10. ASSUME NEW t \in Threads,
                \/ ListLiveSecrets(t) \/ ListAllSecrets(t) \/ ListVersions(t)
                \/ DeleteVersions(t) \/ ForgetSession(t)
                \/ ReencryptSecret(t) \/ ReencryptVersion(t)
         PROVE  simulates
    <2>1. UNCHANGED <<secrets, versions>> /\ ghost'.written = ghost.written
      BY <1>10 DEF ListLiveSecrets, ListAllSecrets, ListVersions, DeleteVersions, ForgetSession,
                   ReencryptSecret, ReencryptVersion, TypeOK, GhostState
    <2>2. QED
      BY <1>1, <1>10, <2>1, RekeyListsStore, RekeyWritesStore
  <1>11. ASSUME NEW t \in Threads, UpdateOrCreate(t) PROVE simulates
    BY <1>2, <1>11, AddWrites
  <1>12. ASSUME WindowPasses PROVE simulates
    BY <1>2, <1>12, WindowWrites
  <1>13. ASSUME (\E t \in Threads : DeadlockDetected(t) \/ Crash(t)) \/ RequireRekey
                  \/ UNCHANGED vars
         PROVE  simulates
    <2>1. UNCHANGED <<secrets, versions>> /\ ghost'.written = ghost.written
      BY <1>13 DEF DeadlockDetected, Crash, RequireRekey, vars, TypeOK, GhostState
    <2>2. QED
      BY <1>1, <1>13, <2>1, EndsKeepStore
  <1>14. ASSUME NEW t \in Threads, SecretApiStep(t) PROVE simulates
    BY <1>3, <1>4, <1>5, <1>6, <1>7, <1>10, <1>14 DEF SecretApiStep
  <1>15. ASSUME NEW t \in Threads, RekeyStep(t) PROVE simulates
    BY <1>8, <1>9, <1>10, <1>11, <1>15 DEF RekeyStep
  <1>16. simulates
    BY <1>9, <1>12, <1>13, <1>14, <1>15 DEF Next
  <1>17. QED
    BY <1>16 DEF simulates

LEMMA InitSimulates ==
  ASSUME Init
  PROVE  StoreInvariant /\ Store!Init
  <1>1. /\ \A k \in Keys : secrets[k].id = 0
        /\ \A t \in Threads : /\ thread[t].row.id = 0 /\ thread[t].ids = {}
                              /\ thread[t].pc = "idle" /\ tx[t] = NoTx
        /\ versions = {} /\ ghost.written = {} /\ serial.row = 1
    BY DEF Init, NoRow, Idle
  <1>2. StoreInvariant
    BY <1>1 DEF StoreInvariant, IdsFresh, IdsOwned, ValuesWritten, VersionsOwned, RekeyTrue,
                Exists, NoTx
  <1>3. Store!Init
    BY <1>1 DEF Store!Init
  <1>4. QED
    BY <1>2, <1>3

(***************************************************************************)
(* Primary keys are never used twice, and a rekey holds the values that    *)
(* were there: the invariant by which stale copies, crashes and rollbacks  *)
(* can do no harm to the store (Model.save and the atomic block of         *)
(* _reencrypt_project).                                                    *)
(***************************************************************************)
THEOREM StoreKept == Spec => []StoreInvariant
  <1>1. Init => StoreInvariant
    BY InitSimulates
  <1>2. TypeOK /\ StoreInvariant /\ [Next]_vars => StoreInvariant'
    BY StepSimulates
  <1>3. QED
    BY <1>1, <1>2, TypeCorrect, PTL DEF Spec

(***************************************************************************)
(* The vault implements the store: however the statements of the API, the  *)
(* browser, the cleanup and the rekey interleave, crash or deadlock, what  *)
(* is stored changes as SecretStore says.                                  *)
(***************************************************************************)
THEOREM VaultImplementsStore == Spec => StoreImplemented
  <1>1. Init => Store!Init
    BY InitSimulates
  <1>2. TypeOK /\ StoreInvariant /\ [Next]_vars => [Store!Next]_(Store!vars)
    BY StepSimulates
  <1>3. QED
    BY <1>1, <1>2, TypeCorrect, StoreKept, PTL DEF Spec, StoreImplemented, Store!Spec
-----------------------------------------------------------------------------
(***************************************************************************)
(* Proofs of what a rekey leaves behind, for any number of secrets,        *)
(* sessions and threads and any bounds: live secrets and the history are   *)
(* under the project's present key, no session keeps an old one, and what  *)
(* a reader is given fits together.                                        *)
(***************************************************************************)

\* A step of thread t leaves the others where they are.
Alone(t) == \A u \in Threads \ {t} : thread'[u] = thread[u] /\ tx'[u] = tx[u]

Rekeying == {"reencrypt", "versions"}
Sweeping == {"forget"}

(***************************************************************************)
(* What all the steps of the API have in common, and of the browser's      *)
(* requests those that do not answer: no session changes, and no rekey     *)
(* goes on.                                                                *)
(***************************************************************************)
Ordinary(t) ==
  /\ Alone(t) /\ UNCHANGED <<env, sess>> /\ ghost'.tainted = ghost.tainted
  /\ thread[t].pc \notin Rekeying \cup Sweeping
  /\ thread'[t].pc \notin Rekeying \cup Sweeping
  /\ tx'[t].sessions = tx[t].sessions \/ tx'[t].sessions = {}

LEMMA ApiLookupsOrdinary ==
  ASSUME TypeOK, NEW t \in Threads,
         \/ WriteLookup(t) \/ ImportLookup(t) \/ RotateLookup(t) \/ RestoreVersionLookup(t)
         \/ DeleteLookup(t) \/ RestoreLookup(t) \/ GetLookup(t)
         \/ ForceDeleteLookup(t) \/ CleanupSelect(t) \/ ExportSalt(t)
  PROVE  Ordinary(t) /\ UNCHANGED <<secrets, versions, serial, tx>> /\ ghost'.stray = ghost.stray
  <1>1. thread[t] = Idle /\ UNCHANGED <<secrets, versions, serial, tx, env, sess>>
    BY DEF WriteLookup, ImportLookup, RotateLookup, RestoreVersionLookup, DeleteLookup,
           RestoreLookup, GetLookup, ForceDeleteLookup, CleanupSelect, ExportSalt, IsIdle, Others
  <1>2. ghost'.tainted = ghost.tainted /\ ghost'.stray = ghost.stray
    BY DEF WriteLookup, ImportLookup, RotateLookup, RestoreVersionLookup, DeleteLookup,
           RestoreLookup, GetLookup, ForceDeleteLookup, CleanupSelect, ExportSalt, TypeOK, GhostState
  <1>3. PICK next : /\ thread' = [thread EXCEPT ![t] = next]
                    /\ next.pc \notin Rekeying \cup Sweeping
    <2>1. ASSUME NEW op, NEW pc \in {"save", "get_version", "save_deleted", "read_salt"},
                 NEW k, NEW row, Begin(t, op, pc, k, row)
          PROVE  \E next : /\ thread' = [thread EXCEPT ![t] = next]
                           /\ next.pc \notin Rekeying \cup Sweeping
      <3> DEFINE next == [Idle EXCEPT !.op = op, !.pc = pc, !.name = k, !.row = row]
      <3>1. next.pc = pc /\ thread' = [thread EXCEPT ![t] = next]
        BY <2>1 DEF Begin, Idle
      <3> HIDE DEF next
      <3>2. QED
        BY <3>1 DEF Rekeying, Sweeping
    <2>2. ASSUME NEW op, NEW ids, BeginDelete(t, op, ids)
          PROVE  \E next : /\ thread' = [thread EXCEPT ![t] = next]
                           /\ next.pc \notin Rekeying \cup Sweeping
      <3> DEFINE next == [Idle EXCEPT !.op = op, !.pc = "delete_versions", !.ids = ids]
      <3>1. next.pc = "delete_versions" /\ thread' = [thread EXCEPT ![t] = next]
        BY <2>2 DEF BeginDelete, Idle
      <3> HIDE DEF next
      <3>2. QED
        BY <3>1 DEF Rekeying, Sweeping
    <2>3. CASE ExportSalt(t)
      <3> DEFINE next == [Idle EXCEPT !.op = "export", !.pc = "read_rows", !.derived = env.salt]
      <3>1. next.pc = "read_rows" /\ thread' = [thread EXCEPT ![t] = next]
        BY <2>3 DEF ExportSalt, Idle
      <3> HIDE DEF next
      <3>2. QED
        BY <3>1 DEF Rekeying, Sweeping
    <2>4. QED
      BY <2>1, <2>2, <2>3
         DEF WriteLookup, ImportLookup, RotateLookup, RestoreVersionLookup, DeleteLookup,
             RestoreLookup, GetLookup, ForceDeleteLookup, CleanupSelect
  <1>4. QED
    BY <1>1, <1>2, <1>3 DEF Ordinary, Alone, Idle, Rekeying, Sweeping, TypeOK

LEMMA ApiStepsOrdinary ==
  ASSUME TypeOK, NEW t \in Threads,
         \/ GetVersion(t) \/ Save(t) \/ SaveCiphertext(t) \/ CreateVersion(t) \/ SaveDeletedAt(t)
         \/ DeleteVersions(t) \/ DeleteSecrets(t) \/ ReadSalt(t) \/ ReadRows(t) \/ Answer(t)
  PROVE  Ordinary(t)
  <1>1. Alone(t) /\ UNCHANGED <<env, sess>>
    BY DEF GetVersion, Save, SaveCiphertext, CreateVersion, SaveDeletedAt, DeleteVersions,
           DeleteSecrets, ReadSalt, ReadRows, Answer, Others, Finish, Goto, CloseTransaction,
           Alone, TypeOK
  <1>2. ghost'.tainted = ghost.tainted
    BY DEF GetVersion, Save, SaveCiphertext, CreateVersion, SaveDeletedAt, DeleteVersions,
           DeleteSecrets, ReadSalt, ReadRows, Answer, Recorded, TypeOK, GhostState
  <1>3. thread[t].pc \notin Rekeying \cup Sweeping
    BY DEF GetVersion, Save, SaveCiphertext, CreateVersion, SaveDeletedAt, DeleteVersions,
           DeleteSecrets, ReadSalt, ReadRows, Answer, Rekeying, Sweeping
  <1>4. thread'[t].pc \notin Rekeying \cup Sweeping
    <2>1. thread[t] \in ThreadState
      BY DEF TypeOK
    <2>2. CASE Finish(t) \/ CloseTransaction(t)
      BY <2>2 DEF Finish, CloseTransaction, Idle, Rekeying, Sweeping, TypeOK
    <2>3. CASE Goto(t, "version") \/ Goto(t, "delete_secrets")
      BY <2>1, <2>3 DEF Goto, Rekeying, Sweeping, TypeOK, ThreadState
    <2>4. CASE GetVersion(t) /\ ~Finish(t)
      <3>1. PICK v \in versions, pc \in {"save_ciphertext", "save"} :
               thread' = [thread EXCEPT ![t].row.ct = v.ct, ![t].pc = pc]
        BY <2>4 DEF GetVersion
      <3> DEFINE next == [thread[t] EXCEPT !.row.ct = v.ct, !.pc = pc]
      <3>2. thread' = [thread EXCEPT ![t] = next]
        BY <3>1 DEF TypeOK
      <3>3. next.pc = pc
        BY <2>1 DEF ThreadState
      <3> HIDE DEF next
      <3>4. QED
        BY <3>2, <3>3 DEF Rekeying, Sweeping, TypeOK
    <2>5. CASE Save(t) /\ ~Finish(t)
      <3>1. PICK row : thread' = [thread EXCEPT ![t].row = row, ![t].pc = "version"]
        BY <2>5 DEF Save
      <3>2. QED
        BY <2>1, <3>1 DEF Rekeying, Sweeping, TypeOK, ThreadState
    <2>6. CASE ReadSalt(t)
      BY <2>1, <2>6 DEF ReadSalt, Rekeying, Sweeping, TypeOK, ThreadState
    <2>7. CASE ReadRows(t)
      <3>1. PICK k \in Keys :
               thread' = [thread EXCEPT ![t].name = k, ![t].row = secrets[k], ![t].pc = "answer"]
        BY <2>7 DEF ReadRows
      <3>2. QED
        BY <2>1, <3>1 DEF Rekeying, Sweeping, TypeOK, ThreadState
    <2>8. QED
      BY <2>2, <2>3, <2>4, <2>5, <2>6, <2>7
         DEF SaveCiphertext, CreateVersion, SaveDeletedAt, DeleteVersions, DeleteSecrets, Answer
  <1>5. tx'[t].sessions = tx[t].sessions \/ tx'[t].sessions = {}
    <2>1. CASE UNCHANGED tx
      BY <2>1
    <2>2. CASE DeleteVersions(t)
      BY <2>2 DEF DeleteVersions, TypeOK, Transaction
    <2>3. CASE DeleteSecrets(t)
      BY <2>3 DEF DeleteSecrets, CloseTransaction, NoTx, TypeOK
    <2>4. QED
      BY <2>1, <2>2, <2>3
         DEF GetVersion, Save, SaveCiphertext, CreateVersion, SaveDeletedAt, ReadSalt, ReadRows,
             Answer, Others
  <1>6. QED
    BY <1>1, <1>2, <1>3, <1>4, <1>5 DEF Ordinary

LEMMA WebOrdinary ==
  ASSUME TypeOK, NEW t \in Threads,
         RekeyRequest(t) \/ DeriveKey(t) \/ VerifyKey(t) \/ UpdateOrCreate(t)
  PROVE  Ordinary(t)
  <1>1. thread[t] \in ThreadState
    BY DEF TypeOK
  <1>2. UNCHANGED <<env, sess>>
    BY DEF RekeyRequest, StartUnlock, Lock, ModifySession, StartAdd, StartRekey, DeriveKey,
           VerifyKey, UpdateOrCreate
  <1>3. ghost'.tainted = ghost.tainted
    <2>1. CASE UpdateOrCreate(t)
      BY <2>1 DEF UpdateOrCreate, Recorded, TypeOK, GhostState
    <2>2. QED
      BY <2>1 DEF RekeyRequest, StartUnlock, Lock, ModifySession, StartAdd, StartRekey, DeriveKey,
             VerifyKey
  <1>4. thread[t].pc \notin Rekeying \cup Sweeping
    <2>1. CASE RekeyRequest(t)
      <3>1. thread[t] = Idle
        BY <2>1 DEF RekeyRequest, StartUnlock, Lock, ModifySession, StartAdd, StartRekey, IsIdle
      <3>2. QED
        BY <3>1 DEF Idle, Rekeying, Sweeping
    <2>2. QED
      BY <2>1 DEF DeriveKey, VerifyKey, UpdateOrCreate, Rekeying, Sweeping
  <1>5. PICK next : /\ thread' = [thread EXCEPT ![t] = next]
                    /\ next.pc \notin Rekeying \cup Sweeping
    <2>1. ASSUME NEW op, NEW s, NEW pc \in {"salt", "respond", "update_or_create"},
                 BeginWeb(t, op, pc, s)
          PROVE  \E next : /\ thread' = [thread EXCEPT ![t] = next]
                           /\ next.pc \notin Rekeying \cup Sweeping
      <3> DEFINE next == [Idle EXCEPT !.op = op, !.pc = pc, !.session = s, !.key = sess[s]]
      <3>1. next.pc = pc /\ thread' = [thread EXCEPT ![t] = next]
        BY <2>1 DEF BeginWeb, Idle
      <3> HIDE DEF next
      <3>2. QED
        BY <3>1 DEF Rekeying, Sweeping
    <2>2. CASE Lock(t)
      <3>1. PICK s \in Sessions :
               thread' = [thread EXCEPT ![t] =
                            [Idle EXCEPT !.op = "lock", !.pc = "respond", !.session = s]]
        BY <2>2 DEF Lock
      <3> DEFINE next == [Idle EXCEPT !.op = "lock", !.pc = "respond", !.session = s]
      <3>2. next.pc = "respond" /\ thread' = [thread EXCEPT ![t] = next]
        BY <3>1 DEF Idle
      <3> HIDE DEF next
      <3>3. QED
        BY <3>2 DEF Rekeying, Sweeping
    <2>3. CASE Finish(t)
      <3>1. Idle.pc \notin Rekeying \cup Sweeping
        BY DEF Idle, Rekeying, Sweeping
      <3>2. QED
        BY <2>3, <3>1 DEF Finish
    <2>4. ASSUME NEW pc \in {"list", "respond", "verify"}, NEW key, NEW derived,
                 thread' = [thread EXCEPT ![t] =
                              [thread[t] EXCEPT !.key = key, !.derived = derived, !.pc = pc]]
          PROVE  \E next : /\ thread' = [thread EXCEPT ![t] = next]
                           /\ next.pc \notin Rekeying \cup Sweeping
      <3> DEFINE next == [thread[t] EXCEPT !.key = key, !.derived = derived, !.pc = pc]
      <3>1. next.pc = pc /\ thread' = [thread EXCEPT ![t] = next]
        BY <1>1, <2>4 DEF ThreadState
      <3> HIDE DEF next
      <3>2. QED
        BY <3>1 DEF Rekeying, Sweeping
    <2>5. CASE DeriveKey(t)
      <3>1. PICK key \in {env.salt, NoKey} :
               thread' = [thread EXCEPT ![t].derived = key, ![t].pc = "verify"]
        BY <2>5 DEF DeriveKey
      <3>2. [thread[t] EXCEPT !.derived = key, !.pc = "verify"]
              = [thread[t] EXCEPT !.key = thread[t].key, !.derived = key, !.pc = "verify"]
        BY <1>1 DEF ThreadState
      <3>3. thread' = [thread EXCEPT ![t] = [thread[t] EXCEPT !.derived = key, !.pc = "verify"]]
        BY <3>1 DEF TypeOK
      <3>4. QED
        BY <2>4, <3>2, <3>3
    <2>6. CASE VerifyKey(t) /\ ~Finish(t)
      <3>1. CASE thread' = [thread EXCEPT ![t].key = thread[t].derived, ![t].pc = "respond"]
        <4>1. [thread[t] EXCEPT !.key = thread[t].derived, !.pc = "respond"]
                = [thread[t] EXCEPT !.key = thread[t].derived, !.derived = thread[t].derived,
                                    !.pc = "respond"]
          BY <1>1 DEF ThreadState
        <4>2. thread' = [thread EXCEPT ![t] =
                           [thread[t] EXCEPT !.key = thread[t].derived, !.pc = "respond"]]
          BY <3>1 DEF TypeOK
        <4>3. QED
          BY <2>4, <4>1, <4>2
      <3>2. CASE Goto(t, "list")
        <4>1. [thread[t] EXCEPT !.pc = "list"]
                = [thread[t] EXCEPT !.key = thread[t].key, !.derived = thread[t].derived,
                                    !.pc = "list"]
          BY <1>1 DEF ThreadState
        <4>2. thread' = [thread EXCEPT ![t] = [thread[t] EXCEPT !.pc = "list"]]
          BY <3>2 DEF Goto, TypeOK
        <4>3. QED
          BY <2>4, <4>1, <4>2
      <3>3. QED
        BY <2>6, <3>1, <3>2 DEF VerifyKey
    <2>7. QED
      BY <2>1, <2>2, <2>3, <2>5, <2>6
         DEF RekeyRequest, StartUnlock, ModifySession, StartAdd, StartRekey, UpdateOrCreate
  <1>6. /\ \A u \in Threads \ {t} : tx'[u] = tx[u]
        /\ tx'[t].sessions = tx[t].sessions
    <2>1. CASE UNCHANGED tx
      BY <2>1
    <2>2. CASE tx' = [tx EXCEPT ![t].new = serial.salt]
      BY <2>2 DEF TypeOK, Transaction
    <2>3. QED
      BY <2>1, <2>2 DEF RekeyRequest, StartUnlock, Lock, ModifySession, StartAdd, StartRekey,
                        DeriveKey, VerifyKey, UpdateOrCreate
  <1>7. QED
    BY <1>2, <1>3, <1>4, <1>5, <1>6 DEF Ordinary, Alone, TypeOK

\* The steps of an open rekey before its commit.
LEMMA RekeyStepsAlone ==
  ASSUME TypeOK, NEW t \in Threads,
         \/ ListLiveSecrets(t) \/ ReencryptSecret(t) \/ ListAllSecrets(t)
         \/ ListVersions(t) \/ ReencryptVersion(t)
  PROVE  /\ Alone(t) /\ UNCHANGED <<env, secrets, versions, serial, sess, ghost>>
         /\ thread[t].pc \notin Sweeping
         /\ tx'[t].sessions = tx[t].sessions \/ tx'[t].sessions = {}
  <1>1. /\ UNCHANGED <<env, secrets, versions, serial, sess, ghost>>
        /\ thread[t].pc \notin Sweeping
    BY DEF ListLiveSecrets, ReencryptSecret, ListAllSecrets, ListVersions, ReencryptVersion,
           Sweeping
  <1>2. \A u \in Threads \ {t} : thread'[u] = thread[u]
    BY DEF ListLiveSecrets, ReencryptSecret, ListAllSecrets, ListVersions, ReencryptVersion,
           CloseTransaction, Finish, Goto, TypeOK
  <1>3. \/ CloseTransaction(t)
        \/ /\ \A u \in Threads \ {t} : tx'[u] = tx[u]
           /\ tx'[t].sessions = tx[t].sessions
    <2>1. CASE ListLiveSecrets(t)
      BY <2>1 DEF ListLiveSecrets, TypeOK, Transaction
    <2>2. CASE ReencryptSecret(t)
      BY <2>2 DEF ReencryptSecret, TypeOK, Transaction
    <2>3. CASE ListAllSecrets(t)
      BY <2>3 DEF ListAllSecrets, TypeOK, Transaction
    <2>4. CASE ListVersions(t)
      <3>1. PICK o : tx' = [tx EXCEPT ![t].owners = @ \ {o},
                                      ![t].history = {v \in versions : v.sid = o.id}]
        BY <2>4 DEF ListVersions
      <3>2. QED
        BY <3>1 DEF TypeOK, Transaction
    <2>5. CASE ReencryptVersion(t)
      BY <2>5 DEF ReencryptVersion, TypeOK, Transaction
    <2>6. QED
      BY <2>1, <2>2, <2>3, <2>4, <2>5
  <1>4. QED
    BY <1>1, <1>2, <1>3 DEF Alone, CloseTransaction, NoTx, TypeOK

LEMMA EndsAlone ==
  ASSUME TypeOK, NEW t \in Threads, DeadlockDetected(t) \/ Crash(t)
  PROVE  /\ Alone(t) /\ UNCHANGED <<env, secrets, versions, serial, sess>>
         /\ thread'[t].pc = "idle" /\ tx'[t].sessions = {} /\ ghost'.stray = ghost.stray
  <1>1. CloseTransaction(t) /\ UNCHANGED <<env, secrets, versions, serial, sess>>
    BY DEF DeadlockDetected, Crash
  <1>2. ghost'.stray = ghost.stray
    BY DEF DeadlockDetected, Crash, TypeOK, GhostState
  <1>3. QED
    BY <1>1, <1>2 DEF CloseTransaction, Finish, Alone, Idle, NoTx, TypeOK
-----------------------------------------------------------------------------
(***************************************************************************)
(* Sessions.  Only a rekey that sweeps has session rows left to clean.     *)
(***************************************************************************)
SessionsSwept ==
  /\ ObsoleteKeysAccounted
  /\ \A t \in Threads : tx[t].sessions # {} => thread[t].pc \in Sweeping

\* A step that leaves the sessions and the salt alone, and does not end a sweep.
LEMMA SessionsQuiet ==
  ASSUME SessionsSwept, NEW t \in Threads, Alone(t), UNCHANGED sess, env'.salt = env.salt,
         ghost.tainted \subseteq ghost'.tainted,
         thread[t].pc \notin Sweeping \/ tx[t].sessions = {},
         tx'[t].sessions = tx[t].sessions \/ tx'[t].sessions = {}
  PROVE  SessionsSwept'
  <1>1. tx[t].sessions = {} /\ tx'[t].sessions = {}
    BY DEF SessionsSwept
  <1>2. \A u \in Threads : tx'[u].sessions = tx[u].sessions
    BY <1>1 DEF Alone
  <1>3. QED
    BY <1>1, <1>2 DEF SessionsSwept, ObsoleteKeysAccounted, Alone

LEMMA SweepKeepsSessions ==
  ASSUME TypeOK, SessionsSwept, NEW t \in Threads,
         Respond(t) \/ Commit(t) \/ ForgetSession(t) \/ ForgetOwnKey(t) \/ DeadlockDetected(t)
         \/ Crash(t)
  PROVE  SessionsSwept'
  <1>1. CASE Respond(t)
    <2>1. thread[t].pc = "respond" /\ thread'[t] = Idle /\ Alone(t)
          /\ UNCHANGED <<env, secrets, versions, serial, tx>>
      BY <1>1 DEF Respond, Finish, Alone, TypeOK
    <2> DEFINE s == thread[t].session
    <2>2. /\ ghost'.tainted = Tainted(s, thread[t].key)
          /\ \A r \in Sessions \ {s} : sess'[r] = sess[r]
          /\ s \in Sessions => sess'[s] = thread[t].key
      BY <1>1 DEF Respond, TypeOK, GhostState
    <2>3. \A r \in Sessions \ {s} : r \in ghost.tainted => r \in ghost'.tainted
      BY <2>2 DEF Tainted
    <2>4. s \in Sessions => sess'[s] \in {NoKey, env.salt} \/ s \in ghost'.tainted
      BY <2>2 DEF Tainted
    <2>5. ObsoleteKeysAccounted'
      BY <2>1, <2>2, <2>3, <2>4 DEF SessionsSwept, ObsoleteKeysAccounted
    <2>6. tx[t].sessions = {}
      BY <2>1 DEF SessionsSwept, Sweeping
    <2>7. QED
      BY <2>1, <2>5, <2>6 DEF SessionsSwept, Alone
  <1>2. CASE Commit(t)
    <2>1. tx'[t].sessions = Sessions /\ Alone(t)
      BY <1>2 DEF Commit, Goto, Alone, NoTx, TypeOK
    <2>2. thread'[t].pc = "forget"
      BY <1>2 DEF Commit, Goto, TypeOK, ThreadState
    <2>3. QED
      BY <2>1, <2>2 DEF SessionsSwept, ObsoleteKeysAccounted, Alone, Sweeping
  <1>3. CASE ForgetSession(t)
    <2>1. PICK s \in tx[t].sessions :
             /\ sess' = [sess EXCEPT ![s] = NoKey]
             /\ tx' = [tx EXCEPT ![t].sessions = @ \ {s}]
             /\ ghost' = [ghost EXCEPT !.tainted = @ \ {s}]
      BY <1>3 DEF ForgetSession
    <2>2. UNCHANGED <<env, thread>> /\ thread[t].pc = "forget"
      BY <1>3 DEF ForgetSession
    <2>3. /\ ghost'.tainted = ghost.tainted \ {s}
          /\ tx'[t].sessions = tx[t].sessions \ {s}
          /\ \A u \in Threads \ {t} : tx'[u] = tx[u]
          /\ \A r \in Sessions \ {s} : sess'[r] = sess[r]
          /\ s \in Sessions => sess'[s] = NoKey
      BY <2>1 DEF TypeOK, GhostState, Transaction
    <2>4. QED
      BY <2>2, <2>3 DEF SessionsSwept, ObsoleteKeysAccounted, Sweeping
  <1>4. CASE ForgetOwnKey(t)
    <2>1. Alone(t)
      BY <1>4 DEF ForgetOwnKey, Finish, Alone, TypeOK
    <2>2. UNCHANGED <<env, sess, tx, ghost>> /\ tx[t].sessions = {}
      BY <1>4 DEF ForgetOwnKey
    <2>3. QED
      BY <2>1, <2>2, SessionsQuiet
  <1>5. CASE DeadlockDetected(t)
    <2>1. thread[t].pc \notin Sweeping /\ UNCHANGED ghost
      BY <1>5 DEF DeadlockDetected, Deadlocked, WaitsFor, Sweeping
    <2>2. QED
      BY <1>5, <2>1, EndsAlone, SessionsQuiet
  <1>6. CASE Crash(t)
    <2>1. ghost'.tainted = ghost.tainted \cup tx[t].sessions
      BY <1>6 DEF Crash, TypeOK, GhostState
    <2>2. UNCHANGED <<env, sess>> /\ tx'[t].sessions = {} /\ Alone(t)
      BY <1>6, EndsAlone
    <2>3. QED
      BY <2>1, <2>2 DEF SessionsSwept, ObsoleteKeysAccounted, Alone
  <1>7. QED
    BY <1>1, <1>2, <1>3, <1>4, <1>5, <1>6

LEMMA SessionsInductive == TypeOK /\ SessionsSwept /\ [Next]_vars => SessionsSwept'
  <1> SUFFICES ASSUME TypeOK, SessionsSwept, [Next]_vars PROVE SessionsSwept'
    OBVIOUS
  <1>1. ASSUME NEW t \in Threads, Ordinary(t) PROVE SessionsSwept'
    BY <1>1, SessionsQuiet DEF Ordinary
  <1>2. ASSUME NEW t \in Threads, SecretApiStep(t) PROVE SessionsSwept'
    BY <1>1, <1>2, ApiLookupsOrdinary, ApiStepsOrdinary DEF SecretApiStep
  <1>3. ASSUME NEW t \in Threads, RekeyStep(t) \/ RekeyRequest(t) PROVE SessionsSwept'
    <2>1. CASE RekeyRequest(t) \/ DeriveKey(t) \/ VerifyKey(t) \/ UpdateOrCreate(t)
      BY <1>1, <2>1, WebOrdinary
    <2>2. CASE \/ ListLiveSecrets(t) \/ ReencryptSecret(t) \/ ListAllSecrets(t)
               \/ ListVersions(t) \/ ReencryptVersion(t)
      BY <2>2, RekeyStepsAlone, SessionsQuiet
    <2>3. QED
      BY <1>3, <2>1, <2>2, SweepKeepsSessions DEF RekeyStep
  <1>4. CASE WindowPasses \/ RequireRekey \/ UNCHANGED vars
    <2>1. UNCHANGED <<sess, tx, thread, ghost>> /\ env'.salt = env.salt
      BY <1>4 DEF WindowPasses, RequireRekey, Others, vars, TypeOK
    <2>2. QED
      BY <2>1 DEF SessionsSwept, ObsoleteKeysAccounted
  <1>5. QED
    BY <1>2, <1>3, <1>4, SweepKeepsSessions DEF Next

LEMMA SessionsInitially == Init => SessionsSwept
  BY DEF Init, SessionsSwept, ObsoleteKeysAccounted, NoTx

(***************************************************************************)
(* No session keeps an obsolete key, but those whose own late response     *)
(* wrote it back, those the rekey has yet to clean, and those of a rekey   *)
(* whose worker died: _forget_project_in_all_sessions reaches every row.   *)
(***************************************************************************)
THEOREM SessionsAccounted == Spec => []ObsoleteKeysAccounted
  <1>1. SessionsSwept => ObsoleteKeysAccounted
    BY DEF SessionsSwept
  <1>2. QED
    BY <1>1, SessionsInitially, SessionsInductive, TypeCorrect, PTL DEF Spec
-----------------------------------------------------------------------------
(***************************************************************************)
(* Live secrets.  An open rekey still has to visit each of them, or has    *)
(* written it, unless it was saved beside the rekey.                       *)
(***************************************************************************)
Listed(t, k) == (\E r \in tx[t].rows : r.name = k) \/ HoldsRow(t, k)

Covering(t) ==
  /\ thread[t].pc \in Rekeying => \A k \in Keys : Live(k) => k \in ghost.stray \/ Listed(t, k)
  /\ thread[t].pc = "versions" => tx[t].rows = {}

SecretsCovered == LiveSecretsReadable /\ \A t \in Threads : Covering(t)

\* A step that saves no secret, and after which its thread is not in a rekey.
LEMMA SecretsQuiet ==
  ASSUME SecretsCovered, NEW t \in Threads, Alone(t), env'.salt = env.salt,
         ghost'.stray = ghost.stray, thread'[t].pc \notin Rekeying,
         \A k \in Keys : Live(k)' => Live(k) /\ secrets'[k].ct = secrets[k].ct
  PROVE  SecretsCovered'
  <1>1. LiveSecretsReadable'
    BY DEF SecretsCovered, LiveSecretsReadable
  <1>2. Covering(t)'
    BY DEF Covering, Rekeying
  <1>3. \A u \in Threads \ {t} : Covering(u)'
    BY DEF SecretsCovered, Covering, Listed, HoldsRow, Alone
  <1>4. QED
    BY <1>1, <1>2, <1>3 DEF SecretsCovered

\* A step that saves one: under the present key, or the secret is a stray.
LEMMA SecretsSaved ==
  ASSUME TypeOK, SecretsCovered, NEW t \in Threads, NEW k \in Keys, NEW row, Alone(t),
         UNCHANGED env, secrets' = [secrets EXCEPT ![k] = row],
         ghost'.stray = Stray(k, row.ct.salt), thread'[t].pc \notin Rekeying
  PROVE  SecretsCovered'
  <1>1. /\ secrets'[k] = row /\ \A j \in Keys \ {k} : secrets'[j] = secrets[j]
        /\ \A j \in Keys \ {k} : j \in ghost.stray => j \in ghost'.stray
        /\ row.ct.salt # env.salt => k \in ghost'.stray
    BY DEF TypeOK, Stray
  <1>2. LiveSecretsReadable'
    BY <1>1 DEF SecretsCovered, LiveSecretsReadable, Live, Exists
  <1>3. Covering(t)'
    BY DEF Covering, Rekeying
  <1>4. ASSUME NEW u \in Threads \ {t} PROVE Covering(u)'
    <2>1. thread'[u] = thread[u] /\ tx'[u] = tx[u] /\ Covering(u)
      BY DEF Alone, SecretsCovered
    <2>2. CASE thread[u].pc \in Rekeying
      <3>1. ghost'.stray = ghost.stray \cup {k}
        BY <2>2 DEF Stray, InTransaction, Rekeying
      <3>2. QED
        BY <1>1, <2>1, <2>2, <3>1 DEF Covering, Listed, HoldsRow, Live, Exists
    <2>3. CASE thread[u].pc \notin Rekeying
      BY <2>1, <2>3 DEF Covering, Rekeying
    <2>4. QED
      BY <2>2, <2>3
  <1>5. QED
    BY <1>2, <1>3, <1>4 DEF SecretsCovered

LEMMA SavesCover ==
  ASSUME TypeOK, SecretsCovered, NEW t \in Threads,
         Save(t) \/ SaveCiphertext(t) \/ SaveDeletedAt(t) \/ UpdateOrCreate(t)
  PROVE  SecretsCovered'
  <1> USE FieldTypes
  <1>1. Ordinary(t)
    BY ApiStepsOrdinary, WebOrdinary
  <1>2. Alone(t) /\ UNCHANGED env /\ thread'[t].pc \notin Rekeying
    BY <1>1 DEF Ordinary
  <1>3. CASE UNCHANGED <<secrets, ghost>>
    BY <1>2, <1>3, SecretsQuiet DEF Live, Exists
  <1>4. ASSUME NEW k \in Keys, NEW row, secrets' = [secrets EXCEPT ![k] = row],
               ghost' = Recorded(t, k, row)
        PROVE  SecretsCovered'
    <2>1. ghost'.stray = Stray(k, row.ct.salt)
      BY <1>4 DEF Recorded, TypeOK, GhostState
    <2>2. QED
      BY <1>2, <1>4, <2>1, SecretsSaved
  <1>5. CASE Save(t)
    <2> DEFINE copy == thread[t].row
               row == IF copy.id = 0 THEN [copy EXCEPT !.id = serial.row] ELSE copy
    <2>1. \/ UNCHANGED <<secrets, ghost>>
          \/ /\ secrets' = [secrets EXCEPT ![thread[t].name] = row]
             /\ ghost' = Recorded(t, thread[t].name, row)
      BY <1>5 DEF Save
    <2> HIDE DEF row
    <2>2. QED
      BY <1>3, <1>4, <2>1
  <1>6. CASE SaveCiphertext(t) \/ SaveDeletedAt(t)
    <2> DEFINE k == thread[t].name
    <2>1. \/ UNCHANGED <<secrets, ghost>>
          \/ \E row : secrets' = [secrets EXCEPT ![k] = row] /\ ghost' = Recorded(t, k, row)
      <3>1. CASE SaveCiphertext(t)
        <4> DEFINE row == [secrets[k] EXCEPT !.ct = thread[t].row.ct]
        <4>1. \/ UNCHANGED <<secrets, ghost>>
              \/ secrets' = [secrets EXCEPT ![k] = row] /\ ghost' = Recorded(t, k, row)
          BY <3>1 DEF SaveCiphertext, TypeOK
        <4> HIDE DEF row
        <4>2. QED
          BY <4>1
      <3>2. CASE SaveDeletedAt(t)
        <4> DEFINE row == [secrets[k] EXCEPT !.deleted = thread[t].row.deleted]
        <4>1. \/ UNCHANGED <<secrets, ghost>>
              \/ secrets' = [secrets EXCEPT ![k] = row] /\ ghost' = Recorded(t, k, row)
          BY <3>2 DEF SaveDeletedAt
        <4> HIDE DEF row
        <4>2. QED
          BY <4>1
      <3>3. QED
        BY <1>6, <3>1, <3>2
    <2>2. QED
      BY <1>3, <1>4, <2>1
  <1>7. CASE UpdateOrCreate(t)
    <2>1. PICK k \in Keys, val \in Vals :
            LET ct == [salt |-> thread[t].key, val |-> val]
            IN /\ \/ secrets' = [secrets EXCEPT ![k].ct = ct]
                  \/ secrets' = [secrets EXCEPT ![k] = [NoRow EXCEPT !.id = serial.row, !.ct = ct]]
               /\ ghost' = [Recorded(t, k, secrets'[k]) EXCEPT
                              !.unarchived = @ \cup {Holding(secrets'[k])}]
      BY <1>7 DEF UpdateOrCreate
    <2>2. PICK row : secrets' = [secrets EXCEPT ![k] = row]
      BY <2>1 DEF TypeOK
    <2>3. row = secrets'[k]
      BY <2>2 DEF TypeOK
    <2>4. ghost'.stray = Stray(k, row.ct.salt)
      BY <2>1, <2>3 DEF Recorded, TypeOK, GhostState
    <2>5. QED
      BY <1>2, <2>2, <2>4, SecretsSaved
  <1>8. QED
    BY <1>5, <1>6, <1>7

LEMMA RekeyCovers ==
  ASSUME TypeOK, SecretsCovered, NEW t \in Threads,
         \/ ListLiveSecrets(t) \/ ReencryptSecret(t) \/ ListAllSecrets(t)
         \/ ListVersions(t) \/ ReencryptVersion(t)
  PROVE  SecretsCovered'
  <1> USE FieldTypes
  <1>1. Alone(t) /\ UNCHANGED <<env, secrets, ghost>>
    BY RekeyStepsAlone
  <1>2. CASE CloseTransaction(t)
    <2>1. thread'[t].pc = "idle"
      BY <1>2 DEF CloseTransaction, Finish, Idle, TypeOK
    <2>2. QED
      BY <1>1, <2>1, SecretsQuiet DEF Rekeying, Live, Exists
  <1>3. ASSUME Covering(t)' PROVE SecretsCovered'
    <2>1. LiveSecretsReadable'
      BY <1>1 DEF SecretsCovered, LiveSecretsReadable, Live, Exists
    <2>2. \A u \in Threads \ {t} : Covering(u)'
      BY <1>1 DEF SecretsCovered, Covering, Listed, HoldsRow, Live, Exists, Alone
    <2>3. QED
      BY <1>3, <2>1, <2>2 DEF SecretsCovered
  <1>4. CASE ListLiveSecrets(t)
    <2>1. tx'[t].rows = {[name |-> k, id |-> secrets[k].id, ct |-> secrets[k].ct] :
                           k \in {k \in Keys : Live(k)}}
      BY <1>4 DEF ListLiveSecrets, TypeOK, Transaction
    <2>2. thread'[t].pc = "reencrypt"
      BY <1>4 DEF ListLiveSecrets, Goto, TypeOK, ThreadState
    <2>3. ASSUME NEW k \in Keys, Live(k) PROVE \E r \in tx'[t].rows : r.name = k
      <3> DEFINE r == [name |-> k, id |-> secrets[k].id, ct |-> secrets[k].ct]
      <3>1. r \in tx'[t].rows /\ r.name = k
        BY <2>1, <2>3
      <3> HIDE DEF r
      <3>2. QED
        BY <3>1
    <2>4. \A k \in Keys : Live(k)' => Listed(t, k)'
      BY <1>1, <2>3 DEF Listed, Live, Exists
    <2>5. Covering(t)'
      BY <2>2, <2>4 DEF Covering
    <2>6. QED
      BY <1>3, <2>5
  <1>5. CASE ReencryptSecret(t) /\ ~CloseTransaction(t)
    <2>1. PICK r \in tx[t].rows :
             tx' = [tx EXCEPT ![t].rows = @ \ {r},
                              ![t].rowWrites = @ \cup {[name |-> r.name, ct |-> Rewrap(t, r.ct)]}]
      BY <1>5 DEF ReencryptSecret, First
    <2>2. /\ tx'[t].rows = tx[t].rows \ {r}
          /\ tx'[t].rowWrites = tx[t].rowWrites \cup {[name |-> r.name, ct |-> Rewrap(t, r.ct)]}
      BY <2>1 DEF TypeOK, Transaction
    <2>3. \A k \in Keys : Listed(t, k) => Listed(t, k)'
      <3> DEFINE written == [name |-> r.name, ct |-> Rewrap(t, r.ct)]
      <3>1. written \in tx'[t].rowWrites /\ written.name = r.name
        BY <2>2
      <3>2. tx'[t].rowWrites = tx[t].rowWrites \cup {written}
        BY <2>2
      <3> HIDE DEF written
      <3>3. QED
        BY <2>2, <3>1, <3>2 DEF Listed, HoldsRow
    <2>4. thread' = thread /\ thread[t].pc = "reencrypt"
      BY <1>5 DEF ReencryptSecret
    <2>5. Covering(t)'
      BY <1>1, <2>3, <2>4 DEF SecretsCovered, Covering, Live, Exists
    <2>6. QED
      BY <1>3, <2>5
  <1>6. CASE ListAllSecrets(t)
    <2>1. tx'[t].rows = {} /\ tx[t].rows = {} /\ tx'[t].rowWrites = tx[t].rowWrites
          /\ thread[t].pc = "reencrypt"
      BY <1>6 DEF ListAllSecrets, TypeOK, Transaction
    <2>2. \A k \in Keys : Listed(t, k) => Listed(t, k)'
      BY <2>1 DEF Listed, HoldsRow
    <2>3. Covering(t)'
      BY <1>1, <2>1, <2>2 DEF SecretsCovered, Covering, Live, Exists, Rekeying
    <2>4. QED
      BY <1>3, <2>3
  <1>7. CASE (ListVersions(t) \/ ReencryptVersion(t)) /\ ~CloseTransaction(t)
    <2>1. tx'[t].rows = tx[t].rows /\ tx'[t].rowWrites = tx[t].rowWrites
      <3>1. CASE ListVersions(t)
        <4>1. PICK o : tx' = [tx EXCEPT ![t].owners = @ \ {o},
                                        ![t].history = {v \in versions : v.sid = o.id}]
          BY <3>1 DEF ListVersions
        <4>2. QED
          BY <4>1 DEF TypeOK, Transaction
      <3>2. CASE ReencryptVersion(t) /\ ~CloseTransaction(t)
        <4>1. PICK v : tx' = [tx EXCEPT ![t].history = @ \ {v},
                        ![t].versionWrites = @ \cup {[vid |-> v.vid, ct |-> Rewrap(t, v.ct)]}]
          BY <3>2 DEF ReencryptVersion
        <4>2. QED
          BY <4>1 DEF TypeOK, Transaction
      <3>3. QED
        BY <1>7, <3>1, <3>2
    <2>2. thread' = thread
      BY <1>7 DEF ListVersions, ReencryptVersion
    <2>3. Covering(t)'
      BY <1>1, <2>1, <2>2 DEF SecretsCovered, Covering, Listed, HoldsRow, Live, Exists
    <2>4. QED
      BY <1>3, <2>3
  <1>8. QED
    BY <1>2, <1>4, <1>5, <1>6, <1>7

\* The commit: every live secret has been written under the new key, or is a stray.
LEMMA CommitCovers ==
  ASSUME TypeOK, SaltInvariant, SecretsCovered, NEW t \in Threads, Commit(t)
  PROVE  SecretsCovered'
  <1> USE FieldTypes
  <1>1. /\ thread[t].pc = "versions" /\ secrets' = [k \in Keys |-> RowAfter(t, k)]
        /\ env'.salt = tx[t].new
    BY DEF Commit
  <1>2. ghost'.stray = ghost.stray
    BY DEF Commit, TypeOK, GhostState
  <1>3. Alone(t) /\ thread'[t].pc = "forget"
    BY DEF Commit, Goto, Alone, TypeOK, ThreadState
  <1>4. ASSUME NEW k \in Keys
        PROVE  /\ Live(k)' => Live(k)
               /\ HoldsRow(t, k) => secrets'[k].ct.salt = tx[t].new
    <2>1. CASE HoldsRow(t, k)
      <3> DEFINE w == CHOOSE w \in tx[t].rowWrites : w.name = k
      <3>1. w \in tx[t].rowWrites
        BY <2>1 DEF HoldsRow
      <3>2. secrets'[k] = [secrets[k] EXCEPT !.ct = w.ct]
        BY <1>1, <2>1 DEF RowAfter, HoldsRow
      <3> HIDE DEF w
      <3>3. w.ct.salt = tx[t].new
        BY <3>1 DEF SaltInvariant, TransactionKnown
      <3>4. secrets'[k].id = secrets[k].id /\ secrets'[k].deleted = secrets[k].deleted
            /\ secrets'[k].ct = w.ct
        BY <3>2 DEF Row
      <3>5. QED
        BY <3>3, <3>4 DEF Live, Exists
    <2>2. CASE ~HoldsRow(t, k)
      BY <1>1, <2>2 DEF RowAfter, HoldsRow, Live, Exists
    <2>3. QED
      BY <2>1, <2>2
  <1>5. LiveSecretsReadable'
    <2>1. \A k \in Keys : Live(k) => k \in ghost.stray \/ HoldsRow(t, k)
      BY <1>1 DEF SecretsCovered, Covering, Listed, Rekeying
    <2>2. QED
      BY <1>1, <1>2, <1>4, <2>1 DEF LiveSecretsReadable
  <1>6. Covering(t)'
    BY <1>3 DEF Covering, Rekeying
  <1>7. \A u \in Threads \ {t} : Covering(u)'
    BY <1>2, <1>3, <1>4 DEF SecretsCovered, Covering, Listed, HoldsRow, Alone
  <1>8. QED
    BY <1>5, <1>6, <1>7 DEF SecretsCovered

\* A request that looks up, deletes rows or ends saves no secret.
LEMMA OthersCover ==
  ASSUME TypeOK, SecretsCovered, NEW t \in Threads,
         \/ GetVersion(t) \/ CreateVersion(t) \/ DeleteVersions(t) \/ DeleteSecrets(t)
         \/ ReadSalt(t) \/ ReadRows(t) \/ Answer(t) \/ RekeyRequest(t) \/ DeriveKey(t) \/ VerifyKey(t)
  PROVE  SecretsCovered'
  <1>1. Ordinary(t)
    BY ApiStepsOrdinary, WebOrdinary
  <1>2. ghost'.stray = ghost.stray
    BY DEF GetVersion, CreateVersion, DeleteVersions, DeleteSecrets, ReadSalt, ReadRows, Answer,
           RekeyRequest, StartUnlock, Lock, ModifySession, StartAdd, StartRekey, DeriveKey,
           VerifyKey, TypeOK, GhostState
  <1>3. \A k \in Keys : Live(k)' => Live(k) /\ secrets'[k].ct = secrets[k].ct
    <2>1. CASE DeleteSecrets(t)
      BY <2>1 DEF DeleteSecrets, Live, Exists, NoRow
    <2>2. CASE UNCHANGED secrets
      BY <2>2 DEF Live, Exists
    <2>3. QED
      BY <2>1, <2>2
         DEF GetVersion, CreateVersion, DeleteVersions, ReadSalt, ReadRows, Answer, RekeyRequest,
             StartUnlock, Lock, ModifySession, StartAdd, StartRekey, DeriveKey, VerifyKey
  <1>4. QED
    BY <1>1, <1>2, <1>3, SecretsQuiet DEF Ordinary

\* What remains to do of a request after its rekey, if any, changes no row.
LEMMA AfterwardsAlone ==
  ASSUME TypeOK, NEW t \in Threads, Respond(t) \/ ForgetSession(t) \/ ForgetOwnKey(t)
  PROVE  /\ Alone(t) /\ UNCHANGED <<env, secrets, versions, serial>>
         /\ thread'[t].pc \in {"idle", "forget", "respond"} /\ ghost'.stray = ghost.stray
  <1>1. UNCHANGED <<env, secrets, versions, serial>> /\ ghost'.stray = ghost.stray
    BY DEF Respond, ForgetSession, ForgetOwnKey, TypeOK, GhostState
  <1>2. Alone(t)
    BY DEF Respond, ForgetSession, ForgetOwnKey, Finish, Alone, TypeOK
  <1>3. thread'[t].pc \in {"idle", "forget", "respond"}
    <2>1. CASE Finish(t)
      BY <2>1 DEF Finish, Idle, TypeOK
    <2>2. CASE ForgetSession(t)
      BY <2>2 DEF ForgetSession
    <2>3. CASE ForgetOwnKey(t) /\ ~Finish(t)
      BY <2>3 DEF ForgetOwnKey, TypeOK, ThreadState
    <2>4. QED
      BY <2>1, <2>2, <2>3 DEF Respond
  <1>4. QED
    BY <1>1, <1>2, <1>3

LEMMA SecretsInductive ==
  TypeOK /\ SaltInvariant /\ SecretsCovered /\ [Next]_vars => SecretsCovered'
  <1> SUFFICES ASSUME TypeOK, SaltInvariant, SecretsCovered, [Next]_vars PROVE SecretsCovered'
    OBVIOUS
  <1>1. ASSUME NEW t \in Threads, SecretApiStep(t) PROVE SecretsCovered'
    <2>1. CASE \/ WriteLookup(t) \/ ImportLookup(t) \/ RotateLookup(t) \/ RestoreVersionLookup(t)
               \/ DeleteLookup(t) \/ RestoreLookup(t) \/ GetLookup(t)
               \/ ForceDeleteLookup(t) \/ CleanupSelect(t) \/ ExportSalt(t)
      BY <2>1, ApiLookupsOrdinary, SecretsQuiet DEF Ordinary, Live, Exists
    <2>2. QED
      BY <1>1, <2>1, SavesCover, OthersCover DEF SecretApiStep
  <1>2. ASSUME NEW t \in Threads, RekeyStep(t) \/ RekeyRequest(t) PROVE SecretsCovered'
    <2>1. CASE Respond(t) \/ ForgetSession(t) \/ ForgetOwnKey(t)
      BY <2>1, AfterwardsAlone, SecretsQuiet DEF Rekeying, Live, Exists
    <2>2. QED
      BY <1>2, <2>1, SavesCover, OthersCover, RekeyCovers, CommitCovers DEF RekeyStep
  <1>3. ASSUME NEW t \in Threads, DeadlockDetected(t) \/ Crash(t) PROVE SecretsCovered'
    BY <1>3, EndsAlone, SecretsQuiet DEF Rekeying, Live, Exists
  <1>4. CASE WindowPasses
    <2>1. PICK k \in Keys : /\ secrets[k].deleted = "recent"
                            /\ secrets' = [secrets EXCEPT ![k].deleted = "expired"]
      BY <1>4 DEF WindowPasses
    <2>2. \A j \in Keys : Live(j)' => Live(j) /\ secrets'[j].ct = secrets[j].ct
      BY <2>1 DEF Live, Exists, TypeOK, Row
    <2>3. UNCHANGED <<env, tx, thread, ghost>>
      BY <1>4 DEF WindowPasses, Others
    <2>4. QED
      BY <2>2, <2>3 DEF SecretsCovered, LiveSecretsReadable, Covering, Listed, HoldsRow
  <1>5. CASE RequireRekey \/ UNCHANGED vars
    <2>1. UNCHANGED <<secrets, tx, thread, ghost>> /\ env'.salt = env.salt
      BY <1>5 DEF RequireRekey, vars, TypeOK
    <2>2. QED
      BY <2>1 DEF SecretsCovered, LiveSecretsReadable, Covering, Listed, HoldsRow, Live, Exists
  <1>6. QED
    BY <1>1, <1>2, <1>3, <1>4, <1>5 DEF Next

LEMMA SecretsInitially == Init => SecretsCovered
  BY DEF Init, SecretsCovered, LiveSecretsReadable, Covering, Live, Exists, NoRow, Idle, Rekeying

(***************************************************************************)
(* A live secret is under the project's present key, unless it was saved   *)
(* under an older one or beside an open rekey: _reencrypt_project writes   *)
(* every live row it listed, or none of them.                              *)
(***************************************************************************)
THEOREM LiveSecretsStayReadable == Spec => []LiveSecretsReadable
  <1>1. SecretsCovered => LiveSecretsReadable
    BY DEF SecretsCovered
  <1>2. QED
    BY <1>1, SecretsInitially, SecretsInductive, TypeCorrect, SaltsIssued, PTL DEF Spec
-----------------------------------------------------------------------------
(***************************************************************************)
(* The history.  When a rekey lists the secrets, "mark" is the next        *)
(* version's number; every older version belongs to a secret whose         *)
(* versions it has yet to list, or is listed, or is written.               *)
(***************************************************************************)
Visited(t, v) ==
  \/ \E o \in tx[t].owners : o.id = v.sid
  \/ \E h \in tx[t].history : h.vid = v.vid
  \/ \E w \in tx[t].versionWrites : w.vid = v.vid

Visiting(t) ==
  /\ thread[t].pc \in Rekeying => tx[t].mark <= serial.version
  /\ thread[t].pc = "versions" => \A v \in versions : v.vid < tx[t].mark => Visited(t, v)

HistoryVisited == \A t \in Threads : Visiting(t)

\* No version below the next number comes into being.
VersionsKept ==
  /\ serial.version <= serial'.version
  /\ \A v \in versions' : v.vid < serial.version =>
       \E u \in versions : u.vid = v.vid /\ u.sid = v.sid

\* A step after which its thread is not in a rekey.
LEMMA HistoryQuiet ==
  ASSUME TypeOK, TypeOK', HistoryVisited, NEW t \in Threads, Alone(t), VersionsKept,
         thread'[t].pc \notin Rekeying
  PROVE  HistoryVisited'
  <1>1. Visiting(t)'
    BY DEF Visiting, Rekeying
  <1>2. ASSUME NEW u \in Threads \ {t} PROVE Visiting(u)'
    <2>1. thread'[u] = thread[u] /\ tx'[u] = tx[u] /\ Visiting(u)
      BY DEF Alone, HistoryVisited
    <2>2. /\ serial.version \in Nat /\ serial'.version \in Nat /\ tx[u].mark \in Nat
          /\ \A v \in versions' : v.vid \in Nat
      BY DEF TypeOK, Serial, Transaction, Version
    <2>3. thread[u].pc \in Rekeying => tx[u].mark <= serial'.version
      BY <2>1, <2>2 DEF Visiting, VersionsKept
    <2>4. ASSUME thread[u].pc = "versions", NEW v \in versions', v.vid < tx[u].mark
          PROVE  Visited(u, v)'
      <3>1. v.vid < serial.version
        BY <2>1, <2>2, <2>4 DEF Visiting, Rekeying
      <3>2. PICK w \in versions : w.vid = v.vid /\ w.sid = v.sid
        BY <3>1 DEF VersionsKept
      <3>3. Visited(u, w)
        BY <2>1, <2>4, <3>2 DEF Visiting
      <3>4. QED
        BY <2>1, <3>2, <3>3 DEF Visited
    <2>5. QED
      BY <2>1, <2>3, <2>4 DEF Visiting
  <1>3. QED
    BY <1>1, <1>2 DEF HistoryVisited

LEMMA VersionsStay ==
  ASSUME TypeOK, UNCHANGED versions, serial'.version = serial.version
  PROVE  VersionsKept
  BY DEF TypeOK, Serial, VersionsKept

LEMMA ApiKeepsVersions ==
  ASSUME TypeOK, NEW t \in Threads,
         \/ GetVersion(t) \/ Save(t) \/ SaveCiphertext(t) \/ CreateVersion(t) \/ SaveDeletedAt(t)
         \/ DeleteVersions(t) \/ DeleteSecrets(t) \/ ReadSalt(t) \/ ReadRows(t) \/ Answer(t)
         \/ UpdateOrCreate(t)
  PROVE  VersionsKept
  <1>1. CASE CreateVersion(t)
    <2> DEFINE by == IF thread[t].op \in {"post", "put"} THEN thread[t].row.token ELSE NoToken
               new == [vid |-> serial.version, sid |-> thread[t].row.id, ct |-> thread[t].row.ct,
                       by |-> by]
    <2>1. CASE UNCHANGED <<versions, serial>>
      BY <2>1, VersionsStay
    <2>2. CASE /\ versions' = versions \cup {new}
               /\ serial' = [serial EXCEPT !.version = @ + 1]
      <3>1. new.vid = serial.version
        OBVIOUS
      <3> HIDE DEF new
      <3>2. serial.version \in Nat /\ serial'.version = serial.version + 1
        BY <2>2 DEF TypeOK, Serial
      <3>3. QED
        BY <2>2, <3>1, <3>2 DEF VersionsKept
    <2>3. QED
      BY <1>1, <2>1, <2>2 DEF CreateVersion
  <1>2. CASE DeleteSecrets(t)
    <2>1. serial' = serial /\ versions' \subseteq versions
      BY <1>2 DEF DeleteSecrets
    <2>2. QED
      BY <2>1 DEF VersionsKept, TypeOK, Serial
  <1>3. CASE UNCHANGED versions /\ serial'.version = serial.version
    BY <1>3, VersionsStay
  <1>4. CASE Save(t) \/ UpdateOrCreate(t)
    BY <1>3, <1>4 DEF Save, UpdateOrCreate, TypeOK
  <1>5. QED
    BY <1>1, <1>2, <1>3, <1>4
       DEF GetVersion, SaveCiphertext, SaveDeletedAt, DeleteVersions, ReadSalt, ReadRows, Answer

LEMMA WebKeepsVersions ==
  ASSUME TypeOK, NEW t \in Threads,
         \/ RekeyRequest(t) \/ DeriveKey(t) \/ VerifyKey(t) \/ Respond(t) \/ ForgetSession(t)
         \/ ForgetOwnKey(t)
  PROVE  VersionsKept
  <1>1. UNCHANGED versions /\ serial'.version = serial.version
    BY DEF RekeyRequest, StartUnlock, Lock, ModifySession, StartAdd, StartRekey, DeriveKey,
           VerifyKey, Respond, ForgetSession, ForgetOwnKey, TypeOK
  <1>2. QED
    BY <1>1, VersionsStay

LEMMA VersionAfterSame ==
  ASSUME TypeOK, NEW t \in Threads, NEW v \in versions
  PROVE  VersionAfter(t, v).vid = v.vid /\ VersionAfter(t, v).sid = v.sid
  BY DEF VersionAfter, TypeOK, Version

LEMMA CommitKeepsVersions ==
  ASSUME TypeOK, NEW t \in Threads, Commit(t)
  PROVE  VersionsKept
  <1>1. serial' = serial /\ versions' = {VersionAfter(t, v) : v \in versions}
    BY DEF Commit
  <1>2. QED
    BY <1>1, VersionAfterSame DEF VersionsKept, TypeOK, Serial

\* The steps of a rekey: what is taken off a list is put on the next one, unless
\* the transaction is rolled back.
LEMMA RekeyVisits ==
  ASSUME TypeOK, StoreInvariant, HistoryVisited, NEW t \in Threads,
         \/ ListLiveSecrets(t) \/ ReencryptSecret(t) \/ ListAllSecrets(t)
         \/ ListVersions(t) \/ ReencryptVersion(t)
  PROVE  HistoryVisited' \/ CloseTransaction(t)
  <1>1. Alone(t) /\ UNCHANGED <<secrets, versions, serial>>
    BY RekeyStepsAlone
  <1>2. ASSUME Visiting(t)' PROVE HistoryVisited'
    BY <1>1, <1>2 DEF HistoryVisited, Visiting, Visited, Alone
  <1>3. CASE ListLiveSecrets(t)
    <2>1. tx'[t].mark = serial.version /\ thread'[t].pc = "reencrypt"
      BY <1>3 DEF ListLiveSecrets, Goto, TypeOK, Transaction, ThreadState
    <2>2. serial.version \in Nat
      BY DEF TypeOK, Serial
    <2>3. QED
      BY <1>1, <1>2, <2>1, <2>2 DEF Visiting
  <1>4. CASE ReencryptSecret(t) /\ ~CloseTransaction(t)
    <2>1. tx'[t].mark = tx[t].mark /\ thread' = thread /\ thread[t].pc = "reencrypt"
      BY <1>4 DEF ReencryptSecret, TypeOK, Transaction
    <2>2. QED
      BY <1>1, <1>2, <2>1 DEF HistoryVisited, Visiting, Rekeying
  <1>5. CASE ListAllSecrets(t)
    <2>1. /\ thread[t].pc = "reencrypt" /\ tx'[t].mark = tx[t].mark
          /\ tx'[t].owners = {[name |-> k, id |-> secrets[k].id] : k \in {k \in Keys : Exists(k)}}
      BY <1>5 DEF ListAllSecrets, TypeOK, Transaction
    <2>2. ASSUME NEW v \in versions PROVE \E o \in tx'[t].owners : o.id = v.sid
      <3>1. PICK k \in Keys : Exists(k) /\ v.sid = secrets[k].id
        BY DEF StoreInvariant, VersionsOwned
      <3> DEFINE o == [name |-> k, id |-> secrets[k].id]
      <3>2. o \in tx'[t].owners /\ o.id = v.sid
        BY <2>1, <3>1
      <3> HIDE DEF o
      <3>3. QED
        BY <3>2
    <2>3. Visiting(t)'
      BY <1>1, <2>1, <2>2 DEF HistoryVisited, Visiting, Visited, Rekeying
    <2>4. QED
      BY <1>2, <2>3
  <1>6. CASE ListVersions(t)
    <2>1. PICK o \in tx[t].owners : tx' = [tx EXCEPT ![t].owners = @ \ {o},
                                            ![t].history = {v \in versions : v.sid = o.id}]
      BY <1>6 DEF ListVersions, First
    <2>2. thread' = thread /\ thread[t].pc = "versions" /\ tx[t].history = {}
      BY <1>6 DEF ListVersions
    <2>3. /\ tx'[t].owners = tx[t].owners \ {o} /\ tx'[t].mark = tx[t].mark
          /\ tx'[t].history = {v \in versions : v.sid = o.id}
          /\ tx'[t].versionWrites = tx[t].versionWrites
      BY <2>1 DEF TypeOK, Transaction
    <2>4. \A v \in versions : Visited(t, v) => Visited(t, v)'
      BY <2>2, <2>3 DEF Visited
    <2>5. QED
      BY <1>1, <1>2, <2>2, <2>3, <2>4 DEF HistoryVisited, Visiting
  <1>7. CASE ReencryptVersion(t) /\ ~CloseTransaction(t)
    <2>1. PICK v \in tx[t].history :
             tx' = [tx EXCEPT ![t].history = @ \ {v},
                      ![t].versionWrites = @ \cup {[vid |-> v.vid, ct |-> Rewrap(t, v.ct)]}]
      BY <1>7 DEF ReencryptVersion, Newest
    <2>2. thread' = thread /\ thread[t].pc = "versions"
      BY <1>7 DEF ReencryptVersion
    <2> DEFINE written == [vid |-> v.vid, ct |-> Rewrap(t, v.ct)]
    <2>3. /\ tx'[t].owners = tx[t].owners /\ tx'[t].mark = tx[t].mark
          /\ tx'[t].history = tx[t].history \ {v}
          /\ tx'[t].versionWrites = tx[t].versionWrites \cup {written}
      BY <2>1 DEF TypeOK, Transaction
    <2>4. written.vid = v.vid
      OBVIOUS
    <2> HIDE DEF written
    <2>5. \A w \in versions : Visited(t, w) => Visited(t, w)'
      BY <2>3, <2>4 DEF Visited
    <2>6. QED
      BY <1>1, <1>2, <2>2, <2>3, <2>5 DEF HistoryVisited, Visiting
  <1>8. QED
    BY <1>3, <1>4, <1>5, <1>6, <1>7

LEMMA HistoryInductive ==
  TypeOK /\ TypeOK' /\ StoreInvariant /\ HistoryVisited /\ [Next]_vars => HistoryVisited'
  <1> SUFFICES ASSUME TypeOK, TypeOK', StoreInvariant, HistoryVisited, [Next]_vars
               PROVE  HistoryVisited'
    OBVIOUS
  <1>1. ASSUME NEW t \in Threads, SecretApiStep(t) PROVE HistoryVisited'
    <2>1. CASE \/ WriteLookup(t) \/ ImportLookup(t) \/ RotateLookup(t) \/ RestoreVersionLookup(t)
               \/ DeleteLookup(t) \/ RestoreLookup(t) \/ GetLookup(t)
               \/ ForceDeleteLookup(t) \/ CleanupSelect(t) \/ ExportSalt(t)
      BY <2>1, ApiLookupsOrdinary, VersionsStay, HistoryQuiet DEF Ordinary
    <2>2. QED
      BY <1>1, <2>1, ApiStepsOrdinary, ApiKeepsVersions, HistoryQuiet DEF SecretApiStep, Ordinary
  <1>2. ASSUME NEW t \in Threads, RekeyStep(t) \/ RekeyRequest(t) PROVE HistoryVisited'
    <2>1. CASE Respond(t) \/ ForgetSession(t) \/ ForgetOwnKey(t)
      BY <2>1, AfterwardsAlone, VersionsStay, HistoryQuiet DEF Rekeying
    <2>2. CASE RekeyRequest(t) \/ DeriveKey(t) \/ VerifyKey(t) \/ UpdateOrCreate(t)
      BY <2>2, WebOrdinary, WebKeepsVersions, ApiKeepsVersions, HistoryQuiet DEF Ordinary
    <2>3. CASE Commit(t)
      <3>1. Alone(t) /\ thread'[t].pc = "forget"
        BY <2>3 DEF Commit, Goto, Alone, TypeOK, ThreadState
      <3>2. QED
        BY <2>3, <3>1, CommitKeepsVersions, HistoryQuiet DEF Rekeying
    <2>4. CASE \/ ListLiveSecrets(t) \/ ReencryptSecret(t) \/ ListAllSecrets(t)
               \/ ListVersions(t) \/ ReencryptVersion(t)
      <3>1. Alone(t) /\ UNCHANGED <<versions, serial>>
        BY <2>4, RekeyStepsAlone
      <3>2. CloseTransaction(t) => thread'[t].pc \notin Rekeying
        BY DEF CloseTransaction, Finish, Idle, Rekeying, TypeOK
      <3>3. QED
        BY <2>4, <3>1, <3>2, RekeyVisits, HistoryQuiet, VersionsStay
    <2>5. QED
      BY <1>2, <2>1, <2>2, <2>3, <2>4 DEF RekeyStep
  <1>3. ASSUME NEW t \in Threads, DeadlockDetected(t) \/ Crash(t) PROVE HistoryVisited'
    BY <1>3, EndsAlone, VersionsStay, HistoryQuiet DEF Rekeying
  <1>4. CASE WindowPasses \/ RequireRekey \/ UNCHANGED vars
    <2>1. UNCHANGED <<versions, serial, tx, thread>>
      BY <1>4 DEF WindowPasses, RequireRekey, Others, vars
    <2>2. QED
      BY <2>1 DEF HistoryVisited, Visiting, Visited
  <1>5. QED
    BY <1>1, <1>2, <1>3, <1>4 DEF Next

LEMMA CommitCoversHistory ==
  ASSUME TypeOK, SaltInvariant, HistoryVisited, NEW t \in Threads, Commit(t),
         NEW v \in versions', v.vid < tx[t].mark
  PROVE  v.ct.salt = env'.salt
  <1>1. /\ thread[t].pc = "versions" /\ tx[t].owners = {} /\ tx[t].history = {}
        /\ versions' = {VersionAfter(t, w) : w \in versions} /\ env'.salt = tx[t].new
    BY DEF Commit
  <1>2. PICK w \in versions : v = VersionAfter(t, w)
    BY <1>1
  <1>3. w.vid = v.vid
    BY <1>2, VersionAfterSame
  <1>4. \E x \in tx[t].versionWrites : x.vid = w.vid
    BY <1>1, <1>2, <1>3 DEF HistoryVisited, Visiting, Visited
  <1> DEFINE x == CHOOSE x \in tx[t].versionWrites : x.vid = w.vid
  <1>5. x \in tx[t].versionWrites
    BY <1>4
  <1>6. v = [w EXCEPT !.ct = x.ct]
    BY <1>2, <1>4 DEF VersionAfter
  <1> HIDE DEF x
  <1>7. v.ct = x.ct
    BY <1>6 DEF TypeOK, Version
  <1>8. QED
    BY <1>1, <1>5, <1>7 DEF SaltInvariant, TransactionKnown

LEMMA HistoryInitially == Init => HistoryVisited
  BY DEF Init, HistoryVisited, Visiting, Idle, Rekeying

(***************************************************************************)
(* When a rekey commits, no version from before it began is left under the *)
(* old key, those of deleted secrets included: the second query of         *)
(* _reencrypt_project leaves no secret out.                                *)
(***************************************************************************)
THEOREM HistoryRekeyed == Spec => RekeyCoversHistory
  <1>1. TypeOK /\ SaltInvariant /\ HistoryVisited /\ [Next]_vars
          => [\A t \in Threads : Commit(t) =>
                \A v \in versions' : v.vid < tx[t].mark => v.ct.salt = env'.salt]_vars
    BY CommitCoversHistory
  <1>2. QED
    BY <1>1, HistoryInitially, HistoryInductive, TypeCorrect, SaltsIssued, StoreKept, PTL
       DEF Spec, RekeyCoversHistory
-----------------------------------------------------------------------------
(***************************************************************************)
(* Answers.  A reader that has asked one of its two questions was told the *)
(* present salt, or of a ciphertext under it, unless a rekey committed     *)
(* since then.                                                             *)
(***************************************************************************)
Readers == {"read_salt", "read_rows", "answer"}

Fitting(t) ==
  \/ t \in ghost.torn
  \/ /\ thread[t].pc = "read_salt" => thread[t].row.ct.salt = env.salt
     /\ thread[t].pc = "read_rows" => thread[t].derived = env.salt
     /\ thread[t].pc = "answer" => thread[t].row.ct.salt = thread[t].derived

AnswersFit == \A t \in Threads : Fitting(t)

\* A step that changes no salt leaves the other readers be.
LEMMA AnswersQuiet ==
  ASSUME AnswersFit, NEW t \in Threads, Alone(t), env'.salt = env.salt,
         ghost.torn \ {t} \subseteq ghost'.torn,
         thread'[t].pc \notin Readers \/ Fitting(t)'
  PROVE  AnswersFit'
  <1>1. Fitting(t)'
    BY DEF Fitting, Readers
  <1>2. \A u \in Threads \ {t} : Fitting(u)'
    BY DEF AnswersFit, Fitting, Alone
  <1>3. QED
    BY <1>1, <1>2 DEF AnswersFit

LEMMA LookupsDoNotRead ==
  ASSUME TypeOK, NEW t \in Threads,
         \/ WriteLookup(t) \/ ImportLookup(t) \/ RotateLookup(t) \/ RestoreVersionLookup(t)
         \/ DeleteLookup(t) \/ RestoreLookup(t) \/ ForceDeleteLookup(t) \/ CleanupSelect(t)
  PROVE  thread'[t].pc \notin Readers /\ ghost'.torn = ghost.torn
  <1>1. ASSUME NEW op, NEW pc \in {"save", "get_version", "save_deleted"}, NEW k, NEW row,
               Begin(t, op, pc, k, row)
        PROVE  thread'[t].pc \notin Readers
    <2> DEFINE next == [Idle EXCEPT !.op = op, !.pc = pc, !.name = k, !.row = row]
    <2>1. next.pc = pc /\ thread'[t] = next
      BY <1>1 DEF Begin, Idle, TypeOK
    <2> HIDE DEF next
    <2>2. QED
      BY <2>1 DEF Readers
  <1>2. ASSUME NEW op, NEW ids, BeginDelete(t, op, ids) PROVE thread'[t].pc \notin Readers
    <2> DEFINE next == [Idle EXCEPT !.op = op, !.pc = "delete_versions", !.ids = ids]
    <2>1. next.pc = "delete_versions" /\ thread'[t] = next
      BY <1>2 DEF BeginDelete, Idle, TypeOK
    <2> HIDE DEF next
    <2>2. QED
      BY <2>1 DEF Readers
  <1>3. UNCHANGED ghost
    BY DEF WriteLookup, ImportLookup, RotateLookup, RestoreVersionLookup, DeleteLookup,
           RestoreLookup, ForceDeleteLookup, CleanupSelect
  <1>4. QED
    BY <1>1, <1>2, <1>3
       DEF WriteLookup, ImportLookup, RotateLookup, RestoreVersionLookup, DeleteLookup,
           RestoreLookup, ForceDeleteLookup, CleanupSelect

LEMMA WritesDoNotRead ==
  ASSUME TypeOK, NEW t \in Threads,
         \/ GetVersion(t) \/ Save(t) \/ SaveCiphertext(t) \/ CreateVersion(t) \/ SaveDeletedAt(t)
         \/ DeleteVersions(t) \/ DeleteSecrets(t) \/ Answer(t)
  PROVE  thread'[t].pc \notin Readers /\ ghost.torn \ {t} \subseteq ghost'.torn
  <1>1. ghost.torn \ {t} \subseteq ghost'.torn
    BY DEF GetVersion, Save, SaveCiphertext, CreateVersion, SaveDeletedAt, DeleteVersions,
           DeleteSecrets, Answer, Recorded, TypeOK, GhostState
  <1>2. thread'[t].pc \notin Readers
    <2>1. thread[t] \in ThreadState
      BY DEF TypeOK
    <2>2. CASE Finish(t) \/ CloseTransaction(t)
      BY <2>2 DEF Finish, CloseTransaction, Idle, Readers, TypeOK
    <2>3. CASE Goto(t, "version") \/ Goto(t, "delete_secrets")
      BY <2>1, <2>3 DEF Goto, Readers, TypeOK, ThreadState
    <2>4. CASE GetVersion(t) /\ ~Finish(t)
      <3>1. PICK v \in versions, pc \in {"save_ciphertext", "save"} :
               thread' = [thread EXCEPT ![t].row.ct = v.ct, ![t].pc = pc]
        BY <2>4 DEF GetVersion
      <3> DEFINE next == [thread[t] EXCEPT !.row.ct = v.ct, !.pc = pc]
      <3>2. thread'[t] = next
        BY <3>1 DEF TypeOK
      <3>3. next.pc = pc
        BY <2>1 DEF ThreadState
      <3> HIDE DEF next
      <3>4. QED
        BY <3>2, <3>3 DEF Readers
    <2>5. CASE Save(t) /\ ~Finish(t)
      <3>1. PICK row : thread' = [thread EXCEPT ![t].row = row, ![t].pc = "version"]
        BY <2>5 DEF Save
      <3>2. QED
        BY <2>1, <3>1 DEF Readers, TypeOK, ThreadState
    <2>6. QED
      BY <2>2, <2>3, <2>4, <2>5
         DEF SaveCiphertext, CreateVersion, SaveDeletedAt, DeleteVersions, DeleteSecrets, Answer
  <1>3. QED
    BY <1>1, <1>2

LEMMA WebDoesNotRead ==
  ASSUME TypeOK, NEW t \in Threads,
         RekeyRequest(t) \/ DeriveKey(t) \/ VerifyKey(t) \/ UpdateOrCreate(t)
  PROVE  thread'[t].pc \notin Readers /\ ghost'.torn = ghost.torn
  <1>1. thread[t] \in ThreadState
    BY DEF TypeOK
  <1>2. ghost'.torn = ghost.torn
    BY DEF RekeyRequest, StartUnlock, Lock, ModifySession, StartAdd, StartRekey, DeriveKey,
           VerifyKey, UpdateOrCreate, Recorded, TypeOK, GhostState
  <1>3. ASSUME NEW op, NEW s, NEW pc \in {"salt", "respond", "update_or_create"},
               BeginWeb(t, op, pc, s)
        PROVE  thread'[t].pc \notin Readers
    <2> DEFINE next == [Idle EXCEPT !.op = op, !.pc = pc, !.session = s, !.key = sess[s]]
    <2>1. next.pc = pc /\ thread'[t] = next
      BY <1>3 DEF BeginWeb, Idle, TypeOK
    <2> HIDE DEF next
    <2>2. QED
      BY <2>1 DEF Readers
  <1>4. CASE Lock(t)
    <2>1. PICK s \in Sessions :
             thread' = [thread EXCEPT ![t] =
                          [Idle EXCEPT !.op = "lock", !.pc = "respond", !.session = s]]
      BY <1>4 DEF Lock
    <2> DEFINE next == [Idle EXCEPT !.op = "lock", !.pc = "respond", !.session = s]
    <2>2. next.pc = "respond" /\ thread'[t] = next
      BY <2>1 DEF Idle, TypeOK
    <2> HIDE DEF next
    <2>3. QED
      BY <1>2, <2>2 DEF Readers
  <1>5. CASE Finish(t)
    BY <1>2, <1>5 DEF Finish, Idle, Readers, TypeOK
  <1>6. CASE DeriveKey(t)
    <2>1. PICK key : thread' = [thread EXCEPT ![t].derived = key, ![t].pc = "verify"]
      BY <1>6 DEF DeriveKey
    <2>2. QED
      BY <1>1, <1>2, <2>1 DEF Readers, TypeOK, ThreadState
  <1>7. CASE VerifyKey(t) /\ ~Finish(t)
    <2>1. CASE thread' = [thread EXCEPT ![t].key = thread[t].derived, ![t].pc = "respond"]
      BY <1>1, <1>2, <2>1 DEF Readers, TypeOK, ThreadState
    <2>2. CASE Goto(t, "list")
      BY <1>1, <1>2, <2>2 DEF Goto, Readers, TypeOK, ThreadState
    <2>3. QED
      BY <1>7, <2>1, <2>2 DEF VerifyKey
  <1>8. QED
    BY <1>2, <1>3, <1>4, <1>5, <1>6, <1>7
       DEF RekeyRequest, StartUnlock, ModifySession, StartAdd, StartRekey, UpdateOrCreate

\* The four steps of a read.
LEMMA ReadsFit ==
  ASSUME TypeOK, LiveSecretsReadable, AnswersFit, NEW t \in Threads,
         GetLookup(t) \/ ReadSalt(t) \/ ExportSalt(t) \/ ReadRows(t)
  PROVE  AnswersFit'
  <1> USE FieldTypes
  <1>1. UNCHANGED <<env, secrets>> /\ ghost.torn \subseteq ghost'.torn /\ thread[t] \in ThreadState
    <2>1. UNCHANGED <<env, secrets>> /\ thread[t] \in ThreadState
      BY DEF GetLookup, ReadSalt, ExportSalt, ReadRows, Others, TypeOK
    <2>2. CASE \E k \in Keys :
                 ghost' = [ghost EXCEPT !.torn = IF k \in ghost.stray THEN @ \cup {t} ELSE @]
      <3>1. PICK k \in Keys :
               ghost' = [ghost EXCEPT !.torn = IF k \in ghost.stray THEN @ \cup {t} ELSE @]
        BY <2>2
      <3>2. ghost'.torn = IF k \in ghost.stray THEN ghost.torn \cup {t} ELSE ghost.torn
        BY <3>1 DEF TypeOK, GhostState
      <3>3. QED
        BY <2>1, <3>2
    <2>3. CASE UNCHANGED ghost
      BY <2>1, <2>3
    <2>4. QED
      BY <2>2, <2>3 DEF GetLookup, ReadSalt, ExportSalt, ReadRows
  <1>2. Alone(t)
    BY ApiLookupsOrdinary, ApiStepsOrdinary DEF Ordinary
  <1>3. ASSUME Fitting(t)' PROVE AnswersFit'
    BY <1>1, <1>2, <1>3, AnswersQuiet
  <1>4. ASSUME NEW k \in Keys, Live(k),
               ghost' = [ghost EXCEPT !.torn = IF k \in ghost.stray THEN @ \cup {t} ELSE @]
        PROVE  t \in ghost'.torn \/ secrets[k].ct.salt = env.salt
    BY <1>4 DEF LiveSecretsReadable, TypeOK, GhostState
  <1>5. CASE GetLookup(t)
    <2>1. PICK k \in Keys :
             /\ Live(k) /\ Begin(t, "get", "read_salt", k, secrets[k])
             /\ ghost' = [ghost EXCEPT !.torn = IF k \in ghost.stray THEN @ \cup {t} ELSE @]
      BY <1>5 DEF GetLookup
    <2> DEFINE next == [Idle EXCEPT !.op = "get", !.pc = "read_salt", !.name = k,
                                    !.row = secrets[k]]
    <2>2. next.pc = "read_salt" /\ next.row = secrets[k] /\ thread'[t] = next
      BY <2>1 DEF Begin, Idle, TypeOK
    <2> HIDE DEF next
    <2>3. Fitting(t)'
      BY <1>1, <1>4, <2>1, <2>2 DEF Fitting
    <2>4. QED
      BY <1>3, <2>3
  <1>6. CASE ReadSalt(t)
    <2>1. /\ thread[t].pc = "read_salt" /\ UNCHANGED ghost
          /\ thread'[t].pc = "answer" /\ thread'[t].derived = env.salt
          /\ thread'[t].row = thread[t].row
      BY <1>1, <1>6 DEF ReadSalt, TypeOK, ThreadState
    <2>2. QED
      BY <1>1, <1>3, <2>1 DEF AnswersFit, Fitting
  <1>7. CASE ExportSalt(t)
    <2> DEFINE next == [Idle EXCEPT !.op = "export", !.pc = "read_rows", !.derived = env.salt]
    <2>1. next.pc = "read_rows" /\ next.derived = env.salt /\ thread'[t] = next
      BY <1>7 DEF ExportSalt, Idle, TypeOK
    <2> HIDE DEF next
    <2>2. QED
      BY <1>1, <1>3, <2>1 DEF Fitting
  <1>8. CASE ReadRows(t)
    <2>1. PICK k \in Keys :
             /\ thread[t].pc = "read_rows" /\ Live(k)
             /\ thread' = [thread EXCEPT ![t].name = k, ![t].row = secrets[k], ![t].pc = "answer"]
             /\ ghost' = [ghost EXCEPT !.torn = IF k \in ghost.stray THEN @ \cup {t} ELSE @]
      BY <1>8 DEF ReadRows
    <2>2. /\ thread'[t].pc = "answer" /\ thread'[t].derived = thread[t].derived
          /\ thread'[t].row = secrets[k]
      BY <1>1, <2>1 DEF TypeOK, ThreadState
    <2>3. t \in ghost'.torn \/ thread[t].derived = env.salt
      BY <1>1, <2>1 DEF AnswersFit, Fitting
    <2>4. QED
      BY <1>1, <1>3, <1>4, <2>1, <2>2, <2>3 DEF Fitting
  <1>9. QED
    BY <1>5, <1>6, <1>7, <1>8

\* The rest of a rekey: its commit excuses the readers it overtakes.
LEMMA RekeyFits ==
  ASSUME TypeOK, AnswersFit, NEW t \in Threads,
         \/ ListLiveSecrets(t) \/ ReencryptSecret(t) \/ ListAllSecrets(t) \/ ListVersions(t)
         \/ ReencryptVersion(t) \/ Commit(t) \/ Respond(t) \/ ForgetSession(t) \/ ForgetOwnKey(t)
  PROVE  AnswersFit'
  <1>1. thread[t] \in ThreadState
    BY DEF TypeOK
  <1>2. CASE Commit(t)
    <2>1. Alone(t) /\ thread'[t].pc = "forget"
      BY <1>1, <1>2 DEF Commit, Goto, Alone, TypeOK, ThreadState
    <2>2. ghost'.torn = ghost.torn \cup Reading
      BY <1>2 DEF Commit, TypeOK, GhostState
    <2>3. QED
      BY <2>1, <2>2 DEF AnswersFit, Fitting, Alone, Reading
  <1>3. CASE Respond(t) \/ ForgetSession(t) \/ ForgetOwnKey(t)
    <2>1. ghost'.torn = ghost.torn
      BY <1>3 DEF Respond, ForgetSession, ForgetOwnKey, TypeOK, GhostState
    <2>2. QED
      BY <1>3, <2>1, AfterwardsAlone, AnswersQuiet DEF Readers
  <1>4. CASE \/ ListLiveSecrets(t) \/ ReencryptSecret(t) \/ ListAllSecrets(t)
             \/ ListVersions(t) \/ ReencryptVersion(t)
    <2>1. thread'[t].pc \notin Readers
      <3>1. CASE CloseTransaction(t)
        BY <3>1 DEF CloseTransaction, Finish, Idle, Readers, TypeOK
      <3>2. CASE UNCHANGED thread
        BY <1>4, <3>2 DEF ListLiveSecrets, ReencryptSecret, ListAllSecrets, ListVersions,
                          ReencryptVersion, Readers
      <3>3. CASE Goto(t, "reencrypt") \/ Goto(t, "versions")
        BY <1>1, <3>3 DEF Goto, Readers, TypeOK, ThreadState
      <3>4. QED
        BY <1>4, <3>1, <3>2, <3>3
           DEF ListLiveSecrets, ReencryptSecret, ListAllSecrets, ListVersions, ReencryptVersion
    <2>2. QED
      BY <1>4, <2>1, RekeyStepsAlone, AnswersQuiet
  <1>5. QED
    BY <1>2, <1>3, <1>4

LEMMA AnswersInductive ==
  TypeOK /\ LiveSecretsReadable /\ AnswersFit /\ [Next]_vars => AnswersFit'
  <1> SUFFICES ASSUME TypeOK, LiveSecretsReadable, AnswersFit, [Next]_vars PROVE AnswersFit'
    OBVIOUS
  <1>1. ASSUME NEW t \in Threads, Ordinary(t), thread'[t].pc \notin Readers,
               ghost.torn \ {t} \subseteq ghost'.torn
        PROVE  AnswersFit'
    BY <1>1, AnswersQuiet DEF Ordinary
  <1>2. ASSUME NEW t \in Threads, SecretApiStep(t) PROVE AnswersFit'
    <2>1. CASE \/ WriteLookup(t) \/ ImportLookup(t) \/ RotateLookup(t) \/ RestoreVersionLookup(t)
               \/ DeleteLookup(t) \/ RestoreLookup(t) \/ ForceDeleteLookup(t) \/ CleanupSelect(t)
      BY <1>1, <2>1, ApiLookupsOrdinary, LookupsDoNotRead
    <2>2. CASE \/ GetVersion(t) \/ Save(t) \/ SaveCiphertext(t) \/ CreateVersion(t)
               \/ SaveDeletedAt(t) \/ DeleteVersions(t) \/ DeleteSecrets(t) \/ Answer(t)
      BY <1>1, <2>2, ApiStepsOrdinary, WritesDoNotRead
    <2>3. QED
      BY <1>2, <2>1, <2>2, ReadsFit DEF SecretApiStep
  <1>3. ASSUME NEW t \in Threads, RekeyStep(t) \/ RekeyRequest(t) PROVE AnswersFit'
    <2>1. CASE RekeyRequest(t) \/ DeriveKey(t) \/ VerifyKey(t) \/ UpdateOrCreate(t)
      BY <1>1, <2>1, WebOrdinary, WebDoesNotRead
    <2>2. QED
      BY <1>3, <2>1, RekeyFits DEF RekeyStep
  <1>4. ASSUME NEW t \in Threads, DeadlockDetected(t) \/ Crash(t) PROVE AnswersFit'
    <2>1. ghost.torn \ {t} \subseteq ghost'.torn
      BY <1>4 DEF DeadlockDetected, Crash, TypeOK, GhostState
    <2>2. QED
      BY <1>4, <2>1, EndsAlone, AnswersQuiet DEF Readers
  <1>5. CASE WindowPasses \/ RequireRekey \/ UNCHANGED vars
    <2>1. UNCHANGED <<thread, ghost>> /\ env'.salt = env.salt
      BY <1>5 DEF WindowPasses, RequireRekey, Others, vars, TypeOK
    <2>2. QED
      BY <2>1 DEF AnswersFit, Fitting
  <1>6. QED
    BY <1>2, <1>3, <1>4, <1>5 DEF Next

LEMMA AnswersInitially == Init => AnswersFit
  BY DEF Init, AnswersFit, Fitting, Idle

(***************************************************************************)
(* Salt and ciphertext of an answer fit together, unless a rekey committed *)
(* between the two queries or the secret was astray already (secret_detail,*)
(* secrets_batch_get, export_secrets).                                     *)
(***************************************************************************)
THEOREM AnswersFitTogether == Spec => []AnswersDecryptable
  <1>1. AnswersFit => AnswersDecryptable
    BY DEF AnswersFit, Fitting, AnswersDecryptable
  <1>2. QED
    BY <1>1, AnswersInitially, AnswersInductive, TypeCorrect, LiveSecretsStayReadable, PTL DEF Spec
-----------------------------------------------------------------------------
(***************************************************************************)
(* Proofs of what the API promises of a secret's history, for any number   *)
(* of secrets, tokens and threads and any bounds: the cleanup destroys     *)
(* nothing but what has expired, current values are archived, and a retry  *)
(* is not applied again.                                                   *)
(***************************************************************************)

(***************************************************************************)
(* What all saves of a row have in common: one row changes, and the        *)
(* history of saves grows by it.                                           *)
(***************************************************************************)
Saves(t, k, row) ==
  /\ row \in Row /\ row.id # 0 /\ secrets' = [secrets EXCEPT ![k] = row]
  /\ ~RowLocked(k)
  /\ ghost'.spent = ghost.spent \cup Spent(t, k, row)
  /\ ghost'.revived = ghost.revived \cup Revived(row)
  /\ ghost.unarchived \cup WrittenBack(k, row) \subseteq ghost'.unarchived

LEMMA RecordedSaves ==
  ASSUME TypeOK, NEW t \in Threads, NEW k \in Keys, NEW row \in Row, row.id # 0, ~RowLocked(k),
         secrets' = [secrets EXCEPT ![k] = row], ghost' = Recorded(t, k, row)
  PROVE  Saves(t, k, row)
  BY DEF Saves, Recorded, TypeOK, GhostState

\* The row that Save writes: the thread's copy, with a primary key.
Copied(t) ==
  IF thread[t].row.id = 0 THEN [thread[t].row EXCEPT !.id = serial.row] ELSE thread[t].row

LEMMA SaveSaves ==
  ASSUME TypeOK, NEW t \in Threads, Save(t)
  PROVE  \/ Finish(t) /\ UNCHANGED <<secrets, ghost, serial>>
         \/ /\ Saves(t, thread[t].name, Copied(t))
            /\ Exists(thread[t].name) => secrets[thread[t].name].id = Copied(t).id
            /\ thread' = [thread EXCEPT ![t].row = Copied(t), ![t].pc = "version"]
            /\ ghost'.unarchived = ghost.unarchived \cup WrittenBack(thread[t].name, Copied(t))
  <1> USE FieldTypes
  <1> DEFINE k == thread[t].name
  <1>1. k \in Keys /\ Copied(t) \in Row /\ Copied(t).id # 0
    BY DEF Copied, TypeOK, ThreadState, Row, Serial
  <1>2. CASE Exists(k) /\ secrets[k].id # thread[t].row.id
    BY <1>2 DEF Save
  <1>3. CASE ~(Exists(k) /\ secrets[k].id # thread[t].row.id)
    <2>1. /\ secrets' = [secrets EXCEPT ![k] = Copied(t)] /\ ghost' = Recorded(t, k, Copied(t))
          /\ ~RowLocked(k) /\ thread' = [thread EXCEPT ![t].row = Copied(t), ![t].pc = "version"]
      BY <1>3 DEF Save, Copied
    <2>2. Saves(t, k, Copied(t))
      BY <1>1, <2>1, RecordedSaves
    <2>3. Exists(k) => secrets[k].id = Copied(t).id
      BY <1>3 DEF Copied, Exists
    <2>4. ghost'.unarchived = ghost.unarchived \cup WrittenBack(k, Copied(t))
      BY <2>1 DEF Recorded, TypeOK, GhostState
    <2>5. QED
      BY <2>1, <2>2, <2>3, <2>4
  <1>4. QED
    BY <1>2, <1>3

LEMMA FieldSaves ==
  ASSUME TypeOK, NEW t \in Threads, SaveCiphertext(t) \/ SaveDeletedAt(t)
  PROVE  \/ Finish(t) /\ UNCHANGED <<secrets, ghost, serial>>
         \/ \E row : /\ Saves(t, thread[t].name, row)
                     /\ Exists(thread[t].name) /\ row.id = secrets[thread[t].name].id
                     /\ row.token = secrets[thread[t].name].token
                     /\ thread[t].row.id = row.id
                     /\ \/ /\ SaveCiphertext(t) /\ row.ct = thread[t].row.ct
                           /\ Goto(t, "version")
                        \/ /\ SaveDeletedAt(t) /\ row.ct = secrets[thread[t].name].ct
                           /\ Finish(t)
  <1> USE FieldTypes
  <1> DEFINE k == thread[t].name
  <1>1. k \in Keys /\ thread[t].row \in Row /\ secrets[k] \in Row
    BY DEF TypeOK, ThreadState
  <1>2. CASE ~RowHasId(k, thread[t].row.id)
    BY <1>2 DEF SaveCiphertext, SaveDeletedAt
  <1>3. CASE SaveCiphertext(t) /\ RowHasId(k, thread[t].row.id)
    <2> DEFINE row == [secrets[k] EXCEPT !.ct = thread[t].row.ct]
    <2>1. /\ secrets' = [secrets EXCEPT ![k] = row] /\ ghost' = Recorded(t, k, row)
          /\ ~RowLocked(k) /\ Goto(t, "version")
      BY <1>3 DEF SaveCiphertext, TypeOK
    <2>2. /\ row \in Row /\ row.id = secrets[k].id /\ row.token = secrets[k].token
          /\ row.ct = thread[t].row.ct
      BY <1>1 DEF Row
    <2> HIDE DEF row
    <2>3. row.id # 0 /\ Exists(k) /\ thread[t].row.id = row.id
      BY <1>3, <2>2 DEF RowHasId, Exists
    <2>4. Saves(t, k, row)
      BY <1>1, <2>1, <2>2, <2>3, RecordedSaves
    <2>5. QED
      BY <1>3, <2>1, <2>2, <2>3, <2>4
  <1>4. CASE SaveDeletedAt(t) /\ RowHasId(k, thread[t].row.id)
    <2> DEFINE row == [secrets[k] EXCEPT !.deleted = thread[t].row.deleted]
    <2>1. /\ secrets' = [secrets EXCEPT ![k] = row] /\ ghost' = Recorded(t, k, row)
          /\ ~RowLocked(k) /\ Finish(t)
      BY <1>4 DEF SaveDeletedAt
    <2>2. /\ row \in Row /\ row.id = secrets[k].id /\ row.token = secrets[k].token
          /\ row.ct = secrets[k].ct
      BY <1>1 DEF Row
    <2> HIDE DEF row
    <2>3. row.id # 0 /\ Exists(k) /\ thread[t].row.id = row.id
      BY <1>4, <2>2 DEF RowHasId, Exists
    <2>4. Saves(t, k, row)
      BY <1>1, <2>1, <2>2, <2>3, RecordedSaves
    <2>5. QED
      BY <1>4, <2>1, <2>2, <2>3, <2>4
  <1>5. QED
    BY <1>2, <1>3, <1>4

LEMMA AddSaves ==
  ASSUME TypeOK, NEW t \in Threads, UpdateOrCreate(t)
  PROVE  \E k \in Keys : \E row :
           /\ Saves(t, k, row) /\ Finish(t) /\ Holding(row) \in ghost'.unarchived
           /\ \/ Exists(k) /\ row.id = secrets[k].id /\ row.token = secrets[k].token
              \/ ~Exists(k) /\ row.id = serial.row /\ row.token = NoToken
  <1> USE FieldTypes
  <1>1. PICK k \in Keys, val \in Vals :
          LET ct == [salt |-> thread[t].key, val |-> val]
          IN /\ ~RowLocked(k)
             /\ \/ Exists(k) /\ secrets' = [secrets EXCEPT ![k].ct = ct]
                \/ ~Exists(k) /\ secrets' = [secrets EXCEPT ![k] =
                                               [NoRow EXCEPT !.id = serial.row, !.ct = ct]]
             /\ ghost' = [Recorded(t, k, secrets'[k]) EXCEPT
                            !.unarchived = @ \cup {Holding(secrets'[k])}]
    BY DEF UpdateOrCreate
  <1> DEFINE ct == [salt |-> thread[t].key, val |-> val]
             row == IF Exists(k) THEN [secrets[k] EXCEPT !.ct = ct]
                                 ELSE [NoRow EXCEPT !.id = serial.row, !.ct = ct]
  <1>2. secrets' = [secrets EXCEPT ![k] = row] /\ ~RowLocked(k) /\ Finish(t)
    BY <1>1 DEF TypeOK, UpdateOrCreate
  <1>3. secrets'[k] = row
    BY <1>2 DEF TypeOK
  <1>4. ct \in Ciphertext /\ secrets[k] \in Row /\ serial.row \in Nat \ {0}
    BY DEF TypeOK, ThreadState, Ciphertext, Serial
  <1>5. row \in Row /\ row.id # 0
    <2>1. CASE Exists(k)
      BY <1>4, <2>1 DEF Row, Exists
    <2>2. CASE ~Exists(k)
      <3>1. row = [id |-> serial.row, ct |-> ct, token |-> NoToken, deleted |-> "null"]
        BY <2>2 DEF NoRow
      <3>2. QED
        BY <1>4, <3>1 DEF Row, DeletedAt
    <2>3. QED
      BY <2>1, <2>2
  <1>6. \/ Exists(k) /\ row.id = secrets[k].id /\ row.token = secrets[k].token
        \/ ~Exists(k) /\ row.id = serial.row /\ row.token = NoToken
    BY <1>4 DEF Row, NoRow
  <1> HIDE DEF row
  <1>7. ghost' = [Recorded(t, k, row) EXCEPT !.unarchived = @ \cup {Holding(row)}]
    BY <1>1, <1>3
  <1>8. /\ ghost'.spent = ghost.spent \cup Spent(t, k, row)
        /\ ghost'.revived = ghost.revived \cup Revived(row)
        /\ ghost'.unarchived = ghost.unarchived \cup WrittenBack(k, row) \cup {Holding(row)}
    BY <1>7 DEF Recorded, TypeOK, GhostState
  <1>9. QED
    BY <1>2, <1>5, <1>6, <1>8 DEF Saves

(***************************************************************************)
(* A request keeps its operation and the ids it selected until it ends.    *)
(***************************************************************************)
Continues(t) ==
  \/ thread'[t] = Idle
  \/ thread'[t].op = thread[t].op /\ thread'[t].ids = thread[t].ids

LEMMA ApiContinues ==
  ASSUME TypeOK, NEW t \in Threads,
         \/ GetVersion(t) \/ Save(t) \/ SaveCiphertext(t) \/ CreateVersion(t) \/ SaveDeletedAt(t)
         \/ DeleteVersions(t) \/ DeleteSecrets(t) \/ ReadSalt(t) \/ ReadRows(t) \/ Answer(t)
  PROVE  Continues(t)
  <1>1. thread[t] \in ThreadState
    BY DEF TypeOK
  <1>2. CASE Finish(t) \/ CloseTransaction(t)
    BY <1>2 DEF Finish, CloseTransaction, Continues, TypeOK
  <1>3. CASE Goto(t, "version") \/ Goto(t, "delete_secrets")
    BY <1>1, <1>3 DEF Goto, Continues, TypeOK, ThreadState
  <1>4. CASE GetVersion(t) /\ ~Finish(t)
    <2>1. PICK v \in versions, pc \in {"save_ciphertext", "save"} :
             thread' = [thread EXCEPT ![t].row.ct = v.ct, ![t].pc = pc]
      BY <1>4 DEF GetVersion
    <2> DEFINE next == [thread[t] EXCEPT !.row.ct = v.ct, !.pc = pc]
    <2>2. thread'[t] = next
      BY <2>1 DEF TypeOK
    <2>3. next.op = thread[t].op /\ next.ids = thread[t].ids
      BY <1>1 DEF ThreadState
    <2> HIDE DEF next
    <2>4. QED
      BY <2>2, <2>3 DEF Continues
  <1>5. CASE Save(t) /\ ~Finish(t)
    <2>1. PICK row : thread' = [thread EXCEPT ![t].row = row, ![t].pc = "version"]
      BY <1>5 DEF Save
    <2>2. QED
      BY <1>1, <2>1 DEF Continues, TypeOK, ThreadState
  <1>6. CASE ReadSalt(t)
    BY <1>1, <1>6 DEF ReadSalt, Continues, TypeOK, ThreadState
  <1>7. CASE ReadRows(t)
    <2>1. PICK k \in Keys :
             thread' = [thread EXCEPT ![t].name = k, ![t].row = secrets[k], ![t].pc = "answer"]
      BY <1>7 DEF ReadRows
    <2>2. QED
      BY <1>1, <2>1 DEF Continues, TypeOK, ThreadState
  <1>8. QED
    BY <1>2, <1>3, <1>4, <1>5, <1>6, <1>7
       DEF SaveCiphertext, CreateVersion, SaveDeletedAt, DeleteVersions, DeleteSecrets, Answer

LEMMA RekeyContinues ==
  ASSUME TypeOK, NEW t \in Threads, RekeyStep(t)
  PROVE  Continues(t)
  <1>1. thread[t] \in ThreadState
    BY DEF TypeOK
  <1>2. CASE Finish(t) \/ CloseTransaction(t)
    BY <1>2 DEF Finish, CloseTransaction, Continues, TypeOK
  <1>3. CASE \E pc : Goto(t, pc)
    BY <1>1, <1>3 DEF Goto, Continues, TypeOK, ThreadState
  <1>4. CASE UNCHANGED thread
    BY <1>4 DEF Continues
  <1>5. CASE DeriveKey(t)
    <2>1. PICK key : thread' = [thread EXCEPT ![t].derived = key, ![t].pc = "verify"]
      BY <1>5 DEF DeriveKey
    <2>2. QED
      BY <1>1, <2>1 DEF Continues, TypeOK, ThreadState
  <1>6. ASSUME NEW key, NEW pc, thread' = [thread EXCEPT ![t].key = key, ![t].pc = pc]
        PROVE  Continues(t)
    BY <1>1, <1>6 DEF Continues, TypeOK, ThreadState
  <1>7. CASE VerifyKey(t)
    BY <1>2, <1>3, <1>6, <1>7 DEF VerifyKey
  <1>8. CASE ForgetOwnKey(t)
    BY <1>2, <1>6, <1>8 DEF ForgetOwnKey
  <1>9. CASE \/ ListLiveSecrets(t) \/ ReencryptSecret(t) \/ ListAllSecrets(t)
             \/ ListVersions(t) \/ ReencryptVersion(t)
    BY <1>2, <1>3, <1>4, <1>9
       DEF ListLiveSecrets, ReencryptSecret, ListAllSecrets, ListVersions, ReencryptVersion
  <1>10. CASE Respond(t) \/ UpdateOrCreate(t) \/ Commit(t) \/ ForgetSession(t)
    BY <1>2, <1>3, <1>4, <1>10 DEF Respond, UpdateOrCreate, Commit, ForgetSession
  <1>11. QED
    BY <1>5, <1>7, <1>8, <1>9, <1>10 DEF RekeyStep

\* The requests that begin, but for writes and cleanups.
LEMMA OthersBegin ==
  ASSUME TypeOK, NEW t \in Threads,
         \/ ImportLookup(t) \/ RotateLookup(t) \/ RestoreVersionLookup(t)
         \/ DeleteLookup(t) \/ RestoreLookup(t) \/ ForceDeleteLookup(t)
         \/ GetLookup(t) \/ ExportSalt(t) \/ RekeyRequest(t)
  PROVE  thread'[t].op \notin {"post", "put", "cleanup"}
  <1> DEFINE ops == {"import", "rotate", "restore_version", "web_restore", "delete", "restore",
                     "force_delete", "get", "export", "unlock", "lock", "mint", "add", "rekey"}
  <1>1. ASSUME NEW op \in ops, NEW pc, NEW k, NEW row, Begin(t, op, pc, k, row)
        PROVE  thread'[t].op \in ops
    <2> DEFINE next == [Idle EXCEPT !.op = op, !.pc = pc, !.name = k, !.row = row]
    <2>1. next.op = op /\ thread'[t] = next
      BY <1>1 DEF Begin, Idle, TypeOK
    <2> HIDE DEF next
    <2>2. QED
      BY <2>1
  <1>2. ASSUME NEW op \in ops, NEW pc, NEW s, BeginWeb(t, op, pc, s)
        PROVE  thread'[t].op \in ops
    <2> DEFINE next == [Idle EXCEPT !.op = op, !.pc = pc, !.session = s, !.key = sess[s]]
    <2>1. next.op = op /\ thread'[t] = next
      BY <1>2 DEF BeginWeb, Idle, TypeOK
    <2> HIDE DEF next
    <2>2. QED
      BY <2>1
  <1>3. ASSUME NEW ids, BeginDelete(t, "force_delete", ids) PROVE thread'[t].op \in ops
    <2> DEFINE next == [Idle EXCEPT !.op = "force_delete", !.pc = "delete_versions", !.ids = ids]
    <2>1. next.op = "force_delete" /\ thread'[t] = next
      BY <1>3 DEF BeginDelete, Idle, TypeOK
    <2> HIDE DEF next
    <2>2. QED
      BY <2>1
  <1>4. CASE Lock(t)
    <2>1. PICK s \in Sessions :
             thread' = [thread EXCEPT ![t] =
                          [Idle EXCEPT !.op = "lock", !.pc = "respond", !.session = s]]
      BY <1>4 DEF Lock
    <2> DEFINE next == [Idle EXCEPT !.op = "lock", !.pc = "respond", !.session = s]
    <2>2. next.op = "lock" /\ thread'[t] = next
      BY <2>1 DEF Idle, TypeOK
    <2> HIDE DEF next
    <2>3. QED
      BY <2>2
  <1>5. CASE ExportSalt(t)
    <2> DEFINE next == [Idle EXCEPT !.op = "export", !.pc = "read_rows", !.derived = env.salt]
    <2>1. next.op = "export" /\ thread'[t] = next
      BY <1>5 DEF ExportSalt, Idle, TypeOK
    <2> HIDE DEF next
    <2>2. QED
      BY <2>1
  <1>6. thread'[t].op \in ops => thread'[t].op \notin {"post", "put", "cleanup"}
    OBVIOUS
  <1>7. CASE RestoreVersionLookup(t)
    <2>1. PICK op \in {"restore_version", "web_restore"}, k \in Keys :
             Begin(t, op, "get_version", k, secrets[k])
      BY <1>7 DEF RestoreVersionLookup
    <2>2. QED
      BY <1>1, <1>6, <2>1
  <1>8. QED
    BY <1>1, <1>2, <1>3, <1>4, <1>5, <1>6, <1>7
       DEF ImportLookup, RotateLookup, DeleteLookup, RestoreLookup, ForceDeleteLookup, GetLookup,
           RekeyRequest, StartUnlock, ModifySession, StartAdd, StartRekey

\* The statements that write one row, and the step of a thread in general.
SaveStep(t) == Save(t) \/ SaveCiphertext(t) \/ SaveDeletedAt(t) \/ UpdateOrCreate(t)

ThreadStep(t) ==
  SecretApiStep(t) \/ RekeyStep(t) \/ RekeyRequest(t) \/ DeadlockDetected(t) \/ Crash(t)

LEMMA StepsAlone == ASSUME TypeOK, NEW t \in Threads, ThreadStep(t) PROVE Alone(t)
  <1>1. CASE SecretApiStep(t)
    BY <1>1, ApiLookupsOrdinary, ApiStepsOrdinary DEF SecretApiStep, Ordinary
  <1>2. CASE Commit(t)
    BY <1>2 DEF Commit, Goto, Alone, TypeOK
  <1>3. CASE RekeyStep(t) /\ ~Commit(t)
    BY <1>3, WebOrdinary, RekeyStepsAlone, AfterwardsAlone DEF RekeyStep, Ordinary
  <1>4. CASE RekeyRequest(t)
    BY <1>4, WebOrdinary DEF Ordinary
  <1>5. QED
    BY <1>1, <1>2, <1>3, <1>4, EndsAlone DEF ThreadStep

\* The other steps: no row comes to be, or changes but for its ciphertext.
RowsKept ==
  \A k \in Keys : Exists(k)' =>
    /\ secrets'[k].id = secrets[k].id /\ secrets'[k].token = secrets[k].token
    /\ secrets'[k].deleted = secrets[k].deleted

HistoryGrows ==
  /\ ghost.spent \subseteq ghost'.spent /\ ghost.revived \subseteq ghost'.revived
  /\ ghost.unarchived \subseteq ghost'.unarchived

LEMMA GhostGrows ==
  ASSUME TypeOK, NEW t \in Threads, ThreadStep(t), ~SaveStep(t)
  PROVE  HistoryGrows
  <1>1. ASSUME UNCHANGED ghost PROVE HistoryGrows
    BY <1>1 DEF HistoryGrows
  <1>2. CASE GetLookup(t) \/ ReadRows(t)
    <2>1. PICK k \in Keys :
             ghost' = [ghost EXCEPT !.torn = IF k \in ghost.stray THEN @ \cup {t} ELSE @]
      BY <1>2 DEF GetLookup, ReadRows
    <2>2. QED
      BY <2>1 DEF HistoryGrows, TypeOK, GhostState
  <1>3. CASE Answer(t) \/ Respond(t) \/ Commit(t)
    BY <1>3 DEF Answer, Respond, Commit, HistoryGrows, TypeOK, GhostState
  <1>4. CASE Crash(t)
    <2>1. /\ ghost'.spent = ghost.spent /\ ghost'.revived = ghost.revived
          /\ ghost'.unarchived = IF thread[t].pc = "version"
               THEN ghost.unarchived \cup {Holding(thread[t].row)} ELSE ghost.unarchived
      BY <1>4 DEF Crash, TypeOK, GhostState
    <2>2. QED
      BY <2>1 DEF HistoryGrows
  <1>5. CASE ForgetSession(t)
    <2>1. PICK s : ghost' = [ghost EXCEPT !.tainted = @ \ {s}]
      BY <1>5 DEF ForgetSession
    <2>2. QED
      BY <2>1 DEF HistoryGrows, TypeOK, GhostState
  <1>6. CASE SecretApiStep(t) /\ ~GetLookup(t) /\ ~ReadRows(t) /\ ~Answer(t)
    BY <1>1, <1>6
       DEF SaveStep, SecretApiStep, WriteLookup, ImportLookup, RotateLookup, RestoreVersionLookup,
           GetVersion, CreateVersion, DeleteLookup, RestoreLookup, ForceDeleteLookup,
           CleanupSelect, DeleteVersions, DeleteSecrets, ReadSalt, ExportSalt
  <1>7. CASE RekeyStep(t) /\ ~Respond(t) /\ ~Commit(t) /\ ~ForgetSession(t)
    BY <1>1, <1>7
       DEF SaveStep, RekeyStep, DeriveKey, VerifyKey, ListLiveSecrets, ReencryptSecret,
           ListAllSecrets, ListVersions, ReencryptVersion, ForgetOwnKey
  <1>8. CASE RekeyRequest(t) \/ DeadlockDetected(t)
    BY <1>1, <1>8 DEF RekeyRequest, StartUnlock, Lock, ModifySession, StartAdd, StartRekey,
                      DeadlockDetected
  <1>9. QED
    BY <1>2, <1>3, <1>4, <1>5, <1>6, <1>7, <1>8 DEF ThreadStep

LEMMA RowsStay ==
  ASSUME TypeOK, NEW t \in Threads, ThreadStep(t), ~SaveStep(t), ~Commit(t)
  PROVE  \A k \in Keys : Exists(k)' => secrets'[k] = secrets[k]
  <1>1. CASE UNCHANGED secrets
    BY <1>1
  <1>2. CASE DeleteSecrets(t)
    BY <1>2 DEF DeleteSecrets, Exists, NoRow
  <1>3. CASE SecretApiStep(t) /\ ~DeleteSecrets(t)
    BY <1>1, <1>3
       DEF SaveStep, SecretApiStep, WriteLookup, ImportLookup, RotateLookup, RestoreVersionLookup,
           GetVersion, CreateVersion, DeleteLookup, RestoreLookup, ForceDeleteLookup,
           CleanupSelect, DeleteVersions, GetLookup, ReadSalt, ExportSalt, ReadRows, Answer
  <1>4. CASE RekeyStep(t)
    BY <1>1, <1>4
       DEF SaveStep, RekeyStep, Respond, DeriveKey, VerifyKey, ListLiveSecrets, ReencryptSecret,
           ListAllSecrets, ListVersions, ReencryptVersion, ForgetSession, ForgetOwnKey
  <1>5. CASE RekeyRequest(t) \/ DeadlockDetected(t) \/ Crash(t)
    BY <1>1, <1>5 DEF RekeyRequest, StartUnlock, Lock, ModifySession, StartAdd, StartRekey,
                      DeadlockDetected, Crash
  <1>6. QED
    BY <1>2, <1>3, <1>4, <1>5 DEF ThreadStep

LEMMA CommittedRows ==
  ASSUME TypeOK, NEW t \in Threads, NEW k \in Keys, Commit(t)
  PROVE  /\ secrets'[k].id = secrets[k].id /\ secrets'[k].token = secrets[k].token
         /\ secrets'[k].deleted = secrets[k].deleted
         /\ \/ secrets'[k].ct = secrets[k].ct
            \/ \E w \in tx[t].rowWrites : w.name = k /\ secrets'[k].ct = w.ct
  <1>1. secrets'[k] = RowAfter(t, k)
    BY DEF Commit
  <1>2. CASE HoldsRow(t, k)
    <2> DEFINE w == CHOOSE w \in tx[t].rowWrites : w.name = k
    <2>1. w \in tx[t].rowWrites /\ w.name = k
      BY <1>2 DEF HoldsRow
    <2>2. secrets'[k] = [secrets[k] EXCEPT !.ct = w.ct]
      BY <1>1, <1>2 DEF RowAfter, HoldsRow
    <2> HIDE DEF w
    <2>3. QED
      BY <2>1, <2>2 DEF TypeOK, Row
  <1>3. CASE ~HoldsRow(t, k)
    BY <1>1, <1>3 DEF RowAfter, HoldsRow
  <1>4. QED
    BY <1>2, <1>3

LEMMA RowsAreKept ==
  ASSUME TypeOK, NEW t \in Threads, ThreadStep(t), ~SaveStep(t)
  PROVE  RowsKept
  BY RowsStay, CommittedRows DEF RowsKept
-----------------------------------------------------------------------------
(***************************************************************************)
(* The cleanup.  What it has selected is past its window, or has been      *)
(* written since.                                                          *)
(***************************************************************************)
Selected(t) ==
  thread[t].op = "cleanup" =>
    \A k \in Keys : Exists(k) /\ secrets[k].id \in thread[t].ids =>
      secrets[k].deleted = "expired" \/ secrets[k].id \in ghost.revived

SelectedExpired == \A t \in Threads : Selected(t)

\* One row is saved, by a request that is not a cleanup that begins.
LEMMA SavesSelect ==
  ASSUME TypeOK, SelectedExpired, NEW t \in Threads, SaveStep(t)
  PROVE  SelectedExpired'
  <1>1. Alone(t) /\ Continues(t)
    BY StepsAlone, ApiContinues, RekeyContinues
       DEF SaveStep, ThreadStep, SecretApiStep, RekeyStep
  <1>2. CASE UNCHANGED <<secrets, ghost>>
    BY <1>1, <1>2 DEF SelectedExpired, Selected, Exists, Alone, Continues, Idle
  <1>3. ASSUME NEW k \in Keys, NEW row, Saves(t, k, row) PROVE SelectedExpired'
    <2>1. /\ secrets'[k] = row /\ \A j \in Keys \ {k} : secrets'[j] = secrets[j]
          /\ ghost'.revived = ghost.revived \cup Revived(row)
      BY <1>3 DEF Saves, TypeOK
    <2>2. ASSUME NEW u \in Threads, thread[u].op = "cleanup", row.id \in thread[u].ids
          PROVE  row.deleted = "expired" \/ row.id \in Revived(row)
      BY <2>2 DEF Revived
    <2>3. QED
      BY <1>1, <2>1, <2>2 DEF SelectedExpired, Selected, Exists, Alone, Continues, Idle
  <1>4. thread[t].name \in Keys
    BY FieldTypes
  <1>5. QED
    BY <1>2, <1>3, <1>4, SaveSaves, FieldSaves, AddSaves DEF SaveStep

LEMMA SelectedInductive ==
  TypeOK /\ StoreInvariant /\ SelectedExpired /\ [Next]_vars => SelectedExpired'
  <1> SUFFICES ASSUME TypeOK, StoreInvariant, SelectedExpired, [Next]_vars PROVE SelectedExpired'
    OBVIOUS
  <1>1. ASSUME NEW t \in Threads, ThreadStep(t), ~SaveStep(t) PROVE SelectedExpired'
    <2>1. Alone(t) /\ RowsKept /\ ghost.revived \subseteq ghost'.revived
      BY <1>1, StepsAlone, RowsAreKept, GhostGrows DEF HistoryGrows
    <2>2. \A u \in Threads \ {t} : Selected(u)'
      BY <2>1 DEF SelectedExpired, Selected, RowsKept, Exists, Alone
    <2>3. CASE Continues(t)
      BY <2>1, <2>2, <2>3 DEF SelectedExpired, Selected, RowsKept, Exists, Continues, Idle
    <2>4. CASE thread'[t].op # "cleanup"
      BY <2>2, <2>4 DEF SelectedExpired, Selected
    <2>5. CASE CleanupSelect(t)
      <3> DEFINE ids == {secrets[k].id : k \in Expired}
                 next == [Idle EXCEPT !.op = "cleanup", !.pc = "delete_versions", !.ids = ids]
      <3>1. next.ids = ids /\ thread'[t] = next /\ UNCHANGED secrets
        BY <2>5 DEF CleanupSelect, BeginDelete, Idle, TypeOK
      <3> HIDE DEF next
      <3>2. ASSUME NEW j \in Keys, Exists(j), secrets[j].id \in ids
            PROVE  secrets[j].deleted = "expired"
        <4>1. PICK k \in Expired : secrets[j].id = secrets[k].id
          BY <3>2
        <4>2. QED
          BY <3>2, <4>1 DEF Expired, StoreInvariant, IdsOwned
      <3>3. Selected(t)'
        BY <3>1, <3>2 DEF Selected, Exists
      <3>4. QED
        BY <2>2, <3>3 DEF SelectedExpired
    <2>6. CASE WriteLookup(t)
      <3>1. PICK op \in {"post", "put"}, k \in Keys, ct \in ClientCiphertext,
                    token \in Tokens \cup {NoToken} :
               Begin(t, op, "save", k,
                     [secrets[k] EXCEPT !.ct = ct, !.token = token, !.deleted = "null"])
        BY <2>6 DEF WriteLookup
      <3> DEFINE row == [secrets[k] EXCEPT !.ct = ct, !.token = token, !.deleted = "null"]
                 next == [Idle EXCEPT !.op = op, !.pc = "save", !.name = k, !.row = row]
      <3>2. next.op = op /\ thread'[t] = next
        BY <3>1 DEF Begin, Idle, TypeOK
      <3> HIDE DEF next
      <3>3. QED
        BY <2>4, <3>2
    <2>7. CASE DeadlockDetected(t) \/ Crash(t)
      BY <2>3, <2>7 DEF DeadlockDetected, Crash, CloseTransaction, Finish, Continues, TypeOK
    <2>8. QED
      BY <1>1, <2>3, <2>4, <2>5, <2>6, <2>7, ApiContinues, RekeyContinues, OthersBegin
         DEF ThreadStep, SecretApiStep
  <1>2. CASE WindowPasses
    <2>1. PICK k \in Keys : secrets' = [secrets EXCEPT ![k].deleted = "expired"]
      BY <1>2 DEF WindowPasses
    <2>2. /\ UNCHANGED <<thread, ghost>>
          /\ \A j \in Keys : secrets'[j].id = secrets[j].id
          /\ \A j \in Keys : secrets'[j].deleted \in {secrets[j].deleted, "expired"}
      BY <1>2, <2>1 DEF WindowPasses, TypeOK, Row
    <2>3. QED
      BY <2>2 DEF SelectedExpired, Selected, Exists
  <1>3. CASE RequireRekey \/ UNCHANGED vars
    BY <1>3 DEF RequireRekey, vars, SelectedExpired, Selected, Exists
  <1>4. QED
    BY <1>1, <1>2, <1>3, SavesSelect DEF Next, ThreadStep

LEMMA DeletionsSelected ==
  ASSUME TypeOK, SelectedExpired, NEW t \in Threads, NEW k \in Keys,
         thread[t].op = "cleanup", DeleteSecrets(t), Exists(k), secrets'[k].id = 0
  PROVE  secrets[k].deleted = "expired" \/ secrets[k].id \in ghost.revived
  <1>1. secrets[k].id \in thread[t].ids
    BY DEF DeleteSecrets, Exists
  <1>2. QED
    BY <1>1 DEF SelectedExpired, Selected

(***************************************************************************)
(* cleanup_deleted_secrets destroys only secrets past their window, or     *)
(* that were when it selected them: nothing else ever comes under the      *)
(* primary keys it deletes.                                                *)
(***************************************************************************)
THEOREM CleanupSpares == Spec => CleanupSparesTheRest
  <1>1. Init => SelectedExpired
    BY DEF Init, SelectedExpired, Selected, Idle
  <1>2. TypeOK /\ SelectedExpired /\ [Next]_vars
          => [\A t \in Threads, k \in Keys :
                /\ thread[t].op = "cleanup" /\ DeleteSecrets(t)
                /\ Exists(k) /\ secrets'[k].id = 0
                => secrets[k].deleted = "expired" \/ secrets[k].id \in ghost.revived]_vars
    BY DeletionsSelected
  <1>3. QED
    BY <1>1, <1>2, SelectedInductive, TypeCorrect, StoreKept, PTL DEF Spec, CleanupSparesTheRest
-----------------------------------------------------------------------------
(***************************************************************************)
(* Current values.  A value that is archived, or on its way there, stays   *)
(* so as long as its secret exists; the values a rekey has listed or       *)
(* written are archived too, should their secrets exist.                   *)
(***************************************************************************)
Archived(value) ==
  \/ \E v \in versions : v.sid = value.sid /\ v.ct.val = value.val
  \/ \E t \in Threads : thread[t].pc = "version" /\ Holding(thread[t].row) = value
  \/ value \in ghost.unarchived

ListedArchived(t) ==
  \A r \in tx[t].rows :
    r.id # 0 /\ ((\E k \in Keys : secrets[k].id = r.id) => Archived(Holding(r)))

WrittenArchived(t) ==
  \A w \in tx[t].rowWrites : Archived([sid |-> secrets[w.name].id, val |-> w.ct.val])

ArchiveInvariant ==
  /\ \A k \in Keys : Exists(k) => Archived(Holding(secrets[k]))
  /\ \A t \in Threads : ListedArchived(t) /\ WrittenArchived(t)

\* Most steps have nothing to do with versions.
LEMMA VersionsUntouched ==
  ASSUME TypeOK, NEW t \in Threads, ThreadStep(t),
         ~CreateVersion(t), ~DeleteSecrets(t), ~Commit(t), ~Crash(t)
  PROVE  UNCHANGED versions /\ thread[t].pc # "version"
  <1>1. CASE SecretApiStep(t)
    <2>1. UNCHANGED versions /\ (thread[t] = Idle \/ thread[t].pc # "version")
      BY <1>1
         DEF SecretApiStep, WriteLookup, ImportLookup, RotateLookup, RestoreVersionLookup,
             GetVersion, Save, SaveCiphertext, SaveDeletedAt, DeleteLookup, RestoreLookup,
             ForceDeleteLookup, CleanupSelect, DeleteVersions, GetLookup, ReadSalt, ExportSalt,
             ReadRows, Answer, IsIdle
    <2>2. QED
      BY <2>1 DEF Idle
  <1>2. CASE RekeyStep(t)
    BY <1>2
       DEF RekeyStep, Respond, DeriveKey, VerifyKey, UpdateOrCreate, ListLiveSecrets,
           ReencryptSecret, ListAllSecrets, ListVersions, ReencryptVersion, ForgetSession,
           ForgetOwnKey
  <1>3. CASE RekeyRequest(t)
    <2>1. UNCHANGED versions /\ thread[t] = Idle
      BY <1>3 DEF RekeyRequest, StartUnlock, Lock, ModifySession, StartAdd, StartRekey, IsIdle
    <2>2. QED
      BY <2>1 DEF Idle
  <1>4. CASE DeadlockDetected(t)
    BY <1>4 DEF DeadlockDetected, Deadlocked, WaitsFor
  <1>5. QED
    BY <1>1, <1>2, <1>3, <1>4 DEF ThreadStep

LEMMA UnarchivedGrows ==
  ASSUME TypeOK, NEW t \in Threads, ThreadStep(t)
  PROVE  ghost.unarchived \subseteq ghost'.unarchived
  <1>1. thread[t].name \in Keys
    BY FieldTypes
  <1>2. CASE SaveStep(t)
    BY <1>1, <1>2, SaveSaves, FieldSaves, AddSaves DEF SaveStep, Saves
  <1>3. QED
    BY <1>2, GhostGrows DEF HistoryGrows

LEMMA ArchivedStays ==
  ASSUME TypeOK, StoreInvariant, NEW t \in Threads, ThreadStep(t),
         NEW value, Archived(value),
         NEW k \in Keys, Exists(k)', secrets'[k].id = value.sid
  PROVE  Archived(value)'
  <1>1. Alone(t) /\ ghost.unarchived \subseteq ghost'.unarchived
    BY StepsAlone, UnarchivedGrows
  <1>2. CASE CreateVersion(t)
    <2>1. CASE Archives(t)
      BY <1>1, <2>1 DEF Archives, Archived, Alone, Holding
    <2>2. CASE ~RowHasId(thread[t].name, thread[t].row.id)
      <3>1. UNCHANGED <<secrets, versions>>
        BY <1>2, <2>2, VersionArchives DEF Archives
      <3>2. thread[t].row.id # value.sid
        BY <2>2, <3>1 DEF StoreInvariant, IdsOwned, Exists, RowHasId
      <3>3. QED
        BY <1>1, <3>1, <3>2 DEF Archived, Alone, Holding
    <2>3. QED
      BY <1>2, <2>1, <2>2, VersionArchives
  <1>3. CASE DeleteSecrets(t)
    <2>1. \/ UNCHANGED versions
          \/ /\ versions' = versions \ Owned(thread[t].ids)
             /\ secrets' = [j \in Keys |-> IF secrets[j].id \in thread[t].ids THEN NoRow
                                                                           ELSE secrets[j]]
      BY <1>3 DEF DeleteSecrets
    <2>2. \A v \in versions : v.sid = value.sid => v \in versions'
      BY <2>1 DEF Owned, Exists, NoRow
    <2>3. thread[t].pc # "version"
      BY <1>3 DEF DeleteSecrets
    <2>4. QED
      BY <1>1, <2>2, <2>3 DEF Archived, Alone
  <1>4. CASE Commit(t)
    <2>1. versions' = {VersionAfter(t, v) : v \in versions} /\ thread[t].pc # "version"
      BY <1>4 DEF Commit
    <2>2. \A v \in versions : \E w \in versions' : w.sid = v.sid /\ w.ct.val = v.ct.val
      BY <2>1, CommittedVersion
    <2>3. QED
      BY <1>1, <2>1, <2>2 DEF Archived, Alone
  <1>5. CASE Crash(t)
    <2>1. /\ UNCHANGED versions
          /\ thread[t].pc = "version" => Holding(thread[t].row) \in ghost'.unarchived
      BY <1>5 DEF Crash, TypeOK, GhostState
    <2>2. QED
      BY <1>1, <2>1 DEF Archived, Alone
  <1>6. CASE UNCHANGED versions /\ thread[t].pc # "version"
    BY <1>1, <1>6 DEF Archived, Alone
  <1>7. QED
    BY <1>2, <1>3, <1>4, <1>5, <1>6, VersionsUntouched

\* An open rekey takes rows from its list, but when it makes the list, and
\* writes one row at a time.
LEMMA TransactionsShrink ==
  ASSUME TypeOK, NEW t \in Threads, ThreadStep(t)
  PROVE  /\ ListLiveSecrets(t) \/ tx'[t].rows \subseteq tx[t].rows
         /\ ReencryptSecret(t) \/ tx'[t].rowWrites \subseteq tx[t].rowWrites
  <1>1. CASE CloseTransaction(t)
    BY <1>1 DEF CloseTransaction, NoTx, TypeOK
  <1>2. CASE UNCHANGED tx
    BY <1>2
  <1>3. CASE SecretApiStep(t)
    <2>1. CASE DeleteVersions(t)
      BY <2>1 DEF DeleteVersions, TypeOK, Transaction
    <2>2. QED
      BY <1>1, <1>2, <1>3, <2>1
         DEF SecretApiStep, WriteLookup, ImportLookup, RotateLookup, RestoreVersionLookup,
             GetVersion, Save, SaveCiphertext, CreateVersion, SaveDeletedAt, DeleteLookup,
             RestoreLookup, ForceDeleteLookup, CleanupSelect, DeleteSecrets, GetLookup, ReadSalt,
             ExportSalt, ReadRows, Answer, Others
  <1>4. CASE ListLiveSecrets(t) \/ ListAllSecrets(t)
    BY <1>4 DEF ListLiveSecrets, ListAllSecrets, TypeOK, Transaction
  <1>5. CASE ReencryptSecret(t)
    <2>1. CASE ~CloseTransaction(t)
      <3>1. PICK r, w : tx' = [tx EXCEPT ![t].rows = @ \ {r}, ![t].rowWrites = @ \cup {w}]
        BY <1>5, <2>1 DEF ReencryptSecret
      <3>2. QED
        BY <1>5, <3>1 DEF TypeOK, Transaction
    <2>2. QED
      BY <1>1, <2>1
  <1>6. CASE ListVersions(t)
    <2>1. PICK o, vs : tx' = [tx EXCEPT ![t].owners = @ \ {o}, ![t].history = vs]
      BY <1>6 DEF ListVersions
    <2>2. QED
      BY <2>1 DEF TypeOK, Transaction
  <1>7. CASE ReencryptVersion(t)
    <2>1. CASE ~CloseTransaction(t)
      <3>1. PICK v, w : tx' = [tx EXCEPT ![t].history = @ \ {v}, ![t].versionWrites = @ \cup {w}]
        BY <1>7, <2>1 DEF ReencryptVersion
      <3>2. QED
        BY <3>1 DEF TypeOK, Transaction
    <2>2. QED
      BY <1>1, <2>1
  <1>8. CASE Commit(t)
    BY <1>8 DEF Commit, NoTx, TypeOK
  <1>9. CASE VerifyKey(t) \/ ForgetSession(t)
    <2>1. CASE VerifyKey(t)
      BY <1>2, <2>1 DEF VerifyKey, TypeOK, Transaction
    <2>2. CASE ForgetSession(t)
      <3>1. PICK s : tx' = [tx EXCEPT ![t].sessions = @ \ {s}]
        BY <2>2 DEF ForgetSession
      <3>2. QED
        BY <3>1 DEF TypeOK, Transaction
    <2>3. QED
      BY <1>9, <2>1, <2>2
  <1>10. CASE RekeyStep(t)
    BY <1>2, <1>4, <1>5, <1>6, <1>7, <1>8, <1>9, <1>10
       DEF RekeyStep, Respond, DeriveKey, UpdateOrCreate, ForgetOwnKey
  <1>11. CASE RekeyRequest(t)
    BY <1>2, <1>11 DEF RekeyRequest, StartUnlock, Lock, ModifySession, StartAdd, StartRekey
  <1>12. QED
    BY <1>1, <1>3, <1>10, <1>11 DEF ThreadStep, DeadlockDetected, Crash

\* Rows a rekey has written are locked: they are neither destroyed nor saved.
LEMMA LockedRowsStay ==
  ASSUME TypeOK, StoreInvariant, NEW t \in Threads, ThreadStep(t),
         NEW k \in Keys, Exists(k), RowLocked(k)
  PROVE  Exists(k)' /\ secrets'[k].id = secrets[k].id
  <1>1. thread[t].name \in Keys
    BY FieldTypes
  <1>2. CASE SaveStep(t)
    <2>1. ASSUME NEW j \in Keys, NEW row, Saves(t, j, row) PROVE secrets'[k] = secrets[k]
      BY <2>1 DEF Saves, TypeOK
    <2>2. secrets'[k] = secrets[k]
      BY <1>1, <1>2, <2>1, SaveSaves, FieldSaves, AddSaves DEF SaveStep
    <2>3. QED
      BY <2>2 DEF Exists
  <1>3. CASE DeleteSecrets(t)
    BY <1>3 DEF DeleteSecrets, Exists
  <1>4. CASE Commit(t)
    BY <1>4, CommittedRows DEF Exists
  <1>5. CASE UNCHANGED secrets
    BY <1>5 DEF Exists
  <1>6. CASE SecretApiStep(t) /\ ~SaveStep(t) /\ ~DeleteSecrets(t)
    BY <1>5, <1>6
       DEF SaveStep, SecretApiStep, WriteLookup, ImportLookup, RotateLookup, RestoreVersionLookup,
           GetVersion, CreateVersion, DeleteLookup, RestoreLookup, ForceDeleteLookup,
           CleanupSelect, DeleteVersions, GetLookup, ReadSalt, ExportSalt, ReadRows, Answer
  <1>7. CASE RekeyStep(t) /\ ~SaveStep(t) /\ ~Commit(t)
    BY <1>5, <1>7
       DEF SaveStep, RekeyStep, Respond, DeriveKey, VerifyKey, ListLiveSecrets, ReencryptSecret,
           ListAllSecrets, ListVersions, ReencryptVersion, ForgetSession, ForgetOwnKey
  <1>8. CASE RekeyRequest(t) \/ DeadlockDetected(t) \/ Crash(t)
    BY <1>5, <1>8 DEF RekeyRequest, StartUnlock, Lock, ModifySession, StartAdd, StartRekey,
                      DeadlockDetected, Crash
  <1>9. QED
    BY <1>2, <1>3, <1>4, <1>6, <1>7, <1>8 DEF ThreadStep

\* What a rekey has listed or written, and keeps, stays archived.
LEMMA KeptStaysArchived ==
  ASSUME TypeOK, StoreInvariant, ArchiveInvariant, NEW t \in Threads, ThreadStep(t),
         \A k \in Keys : Exists(k)' /\ ~(\E j \in Keys : secrets[j].id = secrets'[k].id) =>
           \A u \in Threads : \A r \in tx[u].rows :
             r.id = secrets'[k].id => Holding(r) \in ghost'.unarchived
  PROVE  \A u \in Threads :
           /\ tx'[u].rows \subseteq tx[u].rows => ListedArchived(u)'
           /\ tx'[u].rowWrites \subseteq tx[u].rowWrites => WrittenArchived(u)'
           /\ \A w \in tx[u].rowWrites : Archived([sid |-> secrets[w.name].id, val |-> w.ct.val])'
  <1> USE FieldTypes
  <1>1. ASSUME NEW u \in Threads, NEW r \in tx[u].rows, NEW k \in Keys, secrets'[k].id = r.id
        PROVE  Archived(Holding(r))'
    <2>1. r.id # 0 /\ Exists(k)'
      BY <1>1 DEF ArchiveInvariant, ListedArchived, Exists
    <2>2. Holding(r).sid = r.id
      BY DEF Holding
    <2>3. CASE \E j \in Keys : secrets[j].id = r.id
      <3>1. Archived(Holding(r))
        BY <2>3 DEF ArchiveInvariant, ListedArchived
      <3>2. QED
        BY <1>1, <2>1, <2>2, <3>1, ArchivedStays
    <2>4. CASE ~\E j \in Keys : secrets[j].id = r.id
      <3>1. Holding(r) \in ghost'.unarchived
        BY <1>1, <2>1, <2>4
      <3>2. QED
        BY <3>1 DEF Archived
    <2>5. QED
      BY <2>3, <2>4
  <1>2. ASSUME NEW u \in Threads, NEW w \in tx[u].rowWrites
        PROVE  Archived([sid |-> secrets[w.name].id, val |-> w.ct.val])'
    <2>1. w.name \in Keys /\ Exists(w.name) /\ RowLocked(w.name)
      <3>1. w.name \in Keys
        BY DEF TypeOK, Transaction
      <3>2. Exists(w.name)
        BY DEF StoreInvariant, RekeyTrue
      <3>3. RowLocked(w.name)
        BY DEF RowLocked, HoldsRow
      <3>4. QED
        BY <3>1, <3>2, <3>3
    <2>2. Exists(w.name)' /\ secrets'[w.name].id = secrets[w.name].id
      BY <2>1, LockedRowsStay
    <2>3. PICK value : value = [sid |-> secrets[w.name].id, val |-> w.ct.val]
      OBVIOUS
    <2>4. Archived(value)
      BY <2>3 DEF ArchiveInvariant, WrittenArchived
    <2>5. value.sid = secrets'[w.name].id /\ value.val = w.ct.val
          /\ value = [sid |-> secrets'[w.name].id, val |-> w.ct.val]
      BY <2>2, <2>3
    <2>6. Archived(value)'
      BY <2>1, <2>2, <2>4, <2>5, ArchivedStays
    <2>7. QED
      BY <2>5, <2>6 DEF Archived
  <1>3. QED
    BY <1>1, <1>2 DEF ListedArchived, WrittenArchived, ArchiveInvariant

LEMMA SavesArchive ==
  ASSUME TypeOK, StoreInvariant, ArchiveInvariant, NEW t \in Threads, SaveStep(t)
  PROVE  ArchiveInvariant'
  <1> USE FieldTypes
  <1>1. ThreadStep(t) /\ Alone(t) /\ thread[t].name \in Keys
    BY StepsAlone DEF SaveStep, ThreadStep, SecretApiStep, RekeyStep
  <1>2. UNCHANGED tx
    BY DEF SaveStep, Save, SaveCiphertext, SaveDeletedAt, UpdateOrCreate, Others
  <1>3. ASSUME \A k \in Keys : Exists(k)' => Archived(Holding(secrets[k]))',
               \A k \in Keys : Exists(k)' /\ ~(\E j \in Keys : secrets[j].id = secrets'[k].id) =>
                 \A u \in Threads : \A r \in tx[u].rows :
                   r.id = secrets'[k].id => Holding(r) \in ghost'.unarchived
        PROVE  ArchiveInvariant'
    BY <1>1, <1>2, <1>3, KeptStaysArchived DEF ArchiveInvariant
  <1>4. ASSUME NEW k \in Keys, Exists(k)', secrets'[k].id = secrets[k].id,
               secrets'[k].ct = secrets[k].ct
        PROVE  Archived(Holding(secrets[k]))'
    <2>1. PICK value : value = Holding(secrets[k])
      OBVIOUS
    <2>2. Archived(value) /\ value.sid = secrets'[k].id /\ value = Holding(secrets'[k])
      BY <1>4, <2>1 DEF ArchiveInvariant, Exists, Holding
    <2>3. Archived(value)'
      BY <1>1, <1>4, <2>2, ArchivedStays
    <2>4. QED
      BY <2>2, <2>3 DEF Archived
  <1>5. CASE UNCHANGED <<secrets, ghost>>
    BY <1>3, <1>4, <1>5 DEF Exists
  <1>6. ASSUME NEW k \in Keys, NEW row, Saves(t, k, row), Archived(Holding(row))',
               Exists(k) => secrets[k].id = row.id
        PROVE  ArchiveInvariant'
    <2>1. secrets'[k] = row /\ \A j \in Keys \ {k} : secrets'[j] = secrets[j]
      BY <1>6 DEF Saves, TypeOK
    <2>2. \A j \in Keys : Exists(j)' => Archived(Holding(secrets[j]))'
      BY <1>4, <1>6, <2>1 DEF Exists
    <2>3. ASSUME NEW j \in Keys, Exists(j)', ~(\E i \in Keys : secrets[i].id = secrets'[j].id),
                 NEW u \in Threads, NEW r \in tx[u].rows, r.id = secrets'[j].id
          PROVE  Holding(r) \in ghost'.unarchived
      <3>1. j = k /\ r.id = row.id
        BY <2>1, <2>3
      <3>2. ~Exists(k)
        BY <1>6, <2>3, <3>1
      <3>3. Holding(r) \in WrittenBack(k, row)
        BY <3>1, <3>2 DEF WrittenBack, Holding
      <3>4. QED
        BY <1>6, <3>3 DEF Saves
    <2>4. QED
      BY <1>3, <2>2, <2>3
  <1>7. CASE Save(t)
    <2> DEFINE k == thread[t].name
    <2>1. ASSUME NEW row, Saves(t, k, row), Exists(k) => secrets[k].id = row.id,
                 thread' = [thread EXCEPT ![t].row = row, ![t].pc = "version"]
          PROVE  ArchiveInvariant'
      <3>1. thread[t] \in ThreadState
        BY DEF TypeOK
      <3>2. thread'[t].pc = "version" /\ thread'[t].row = row
        BY <2>1, <3>1 DEF TypeOK, ThreadState
      <3>3. Archived(Holding(row))'
        BY <3>2 DEF Archived
      <3>4. QED
        BY <1>1, <1>6, <2>1, <3>3
    <2>2. QED
      BY <1>5, <1>7, <2>1, SaveSaves
  <1>8. CASE SaveCiphertext(t) \/ SaveDeletedAt(t)
    <2> DEFINE k == thread[t].name
    <2>1. CASE UNCHANGED <<secrets, ghost>>
      BY <1>5, <2>1
    <2>2. ASSUME NEW row, Saves(t, k, row), Exists(k), row.id = secrets[k].id,
                 thread[t].row.id = row.id, row.ct = thread[t].row.ct, Goto(t, "version")
          PROVE  ArchiveInvariant'
      <3>1. thread'[t].pc = "version" /\ thread'[t].row = thread[t].row
        BY <2>2 DEF Goto, TypeOK, ThreadState
      <3>2. Archived(Holding(row))'
        BY <2>2, <3>1 DEF Archived, Holding
      <3>3. QED
        BY <1>1, <1>6, <2>2, <3>2
    <2>3. ASSUME NEW row, Saves(t, k, row), Exists(k), row.id = secrets[k].id,
                 row.ct = secrets[k].ct
          PROVE  ArchiveInvariant'
      <3>1. PICK name \in Keys : name = k
        BY <1>1
      <3>2. PICK value : value = Holding(secrets[name])
        OBVIOUS
      <3>3. Archived(value)
        BY <2>3, <3>1, <3>2 DEF ArchiveInvariant
      <3>4. secrets'[name] = row /\ row.id # 0
        BY <2>3, <3>1 DEF Saves, TypeOK
      <3>5. Exists(name)' /\ secrets'[name].id = value.sid /\ value = Holding(row)
        BY <2>3, <3>1, <3>2, <3>4 DEF Exists, Holding
      <3>6. Archived(value)'
        BY <1>1, <3>3, <3>5, ArchivedStays
      <3>7. Archived(Holding(row))'
        BY <3>5, <3>6 DEF Archived
      <3>8. QED
        BY <1>1, <1>6, <2>3, <3>7
    <2>4. QED
      BY <1>8, <2>1, <2>2, <2>3, FieldSaves
  <1>9. CASE UpdateOrCreate(t)
    <2>1. PICK k \in Keys : \E row :
             /\ Saves(t, k, row) /\ Holding(row) \in ghost'.unarchived
             /\ Exists(k) => secrets[k].id = row.id
      BY <1>9, AddSaves
    <2>2. PICK row :
             /\ Saves(t, k, row) /\ Holding(row) \in ghost'.unarchived
             /\ Exists(k) => secrets[k].id = row.id
      BY <2>1
    <2>3. Archived(Holding(row))'
      BY <2>2 DEF Archived
    <2>4. QED
      BY <1>6, <2>2, <2>3
  <1>10. QED
    BY <1>7, <1>8, <1>9 DEF SaveStep

LEMMA OthersArchive ==
  ASSUME TypeOK, StoreInvariant, ArchiveInvariant, NEW t \in Threads, ThreadStep(t), ~SaveStep(t)
  PROVE  ArchiveInvariant'
  <1> USE FieldTypes
  <1>1. Alone(t) /\ RowsKept
    BY StepsAlone, RowsAreKept
  <1>2. ASSUME NEW k \in Keys, Exists(k)' PROVE Archived(Holding(secrets[k]))'
    <2>1. PICK value : value = Holding(secrets'[k])
      OBVIOUS
    <2>2. Exists(k) /\ value.sid = secrets'[k].id
      BY <1>1, <1>2, <2>1 DEF RowsKept, Exists, Holding
    <2>3. CASE \E w \in tx[t].rowWrites : w.name = k /\ secrets'[k].ct = w.ct
      <3>1. PICK w \in tx[t].rowWrites : w.name = k /\ secrets'[k].ct = w.ct
        BY <2>3
      <3>2. value = [sid |-> secrets[w.name].id, val |-> w.ct.val]
        BY <1>1, <1>2, <2>1, <3>1 DEF RowsKept, Holding
      <3>3. Archived(value)
        BY <3>2 DEF ArchiveInvariant, WrittenArchived
      <3>4. QED
        BY <1>2, <2>1, <2>2, <3>3, ArchivedStays DEF Archived
    <2>4. CASE secrets'[k].ct = secrets[k].ct
      <3>1. value = Holding(secrets[k])
        BY <1>1, <1>2, <2>1, <2>4 DEF RowsKept, Holding
      <3>2. Archived(value)
        BY <2>2, <3>1 DEF ArchiveInvariant
      <3>3. QED
        BY <1>2, <2>1, <2>2, <3>2, ArchivedStays DEF Archived
    <2>5. QED
      BY <1>2, <2>3, <2>4, CommittedRows, RowsStay
  <1>3. \A u \in Threads :
          /\ tx'[u].rows \subseteq tx[u].rows => ListedArchived(u)'
          /\ tx'[u].rowWrites \subseteq tx[u].rowWrites => WrittenArchived(u)'
          /\ \A w \in tx[u].rowWrites : Archived([sid |-> secrets[w.name].id, val |-> w.ct.val])'
    BY <1>1, KeptStaysArchived DEF RowsKept, Exists
  <1>4. \A u \in Threads \ {t} : ListedArchived(u)' /\ WrittenArchived(u)'
    BY <1>1, <1>3 DEF Alone
  <1>5. CASE ListLiveSecrets(t)
    <2>1. /\ tx'[t].rows = {[name |-> k, id |-> secrets[k].id, ct |-> secrets[k].ct] :
                              k \in {k \in Keys : Live(k)}}
          /\ tx'[t].rowWrites = tx[t].rowWrites /\ UNCHANGED secrets
      BY <1>5 DEF ListLiveSecrets, TypeOK, Transaction
    <2>2. ASSUME NEW r \in tx'[t].rows PROVE r.id # 0 /\ Archived(Holding(r))'
      <3>1. PICK k \in Keys :
               /\ Live(k) /\ r = [name |-> k, id |-> secrets[k].id, ct |-> secrets[k].ct]
        BY <2>1, <2>2
      <3>2. Holding(r) = Holding(secrets'[k]) /\ Exists(k)' /\ r.id # 0
        BY <2>1, <3>1 DEF Holding, Live, Exists
      <3>3. QED
        BY <1>2, <3>2 DEF Archived
    <2>3. QED
      BY <1>2, <1>3, <1>4, <2>1, <2>2 DEF ArchiveInvariant, ListedArchived
  <1>6. CASE ReencryptSecret(t) /\ ~CloseTransaction(t)
    <2>1. PICK r \in tx[t].rows :
            /\ RowHasId(r.name, r.id)
            /\ tx' = [tx EXCEPT ![t].rows = @ \ {r},
                        ![t].rowWrites = @ \cup {[name |-> r.name, ct |-> Rewrap(t, r.ct)]}]
            /\ UNCHANGED <<secrets, versions, thread, ghost>>
      BY <1>6 DEF ReencryptSecret, First
    <2> PICK w : w = [name |-> r.name, ct |-> Rewrap(t, r.ct)]
      OBVIOUS
    <2>2. /\ tx'[t].rows \subseteq tx[t].rows
          /\ tx'[t].rowWrites = tx[t].rowWrites \cup {w}
      BY <2>1 DEF TypeOK, Transaction
    <2>3. w.name \in Keys /\ w.name = r.name /\ w.ct.val = r.ct.val
      BY <2>1 DEF Rewrap, TypeOK, Transaction, Ciphertext
    <2>4. Archived(Holding(r))
      BY <2>1, <2>3 DEF ArchiveInvariant, ListedArchived, RowHasId
    <2>5. Holding(r) = [sid |-> secrets'[w.name].id, val |-> w.ct.val]
      BY <2>1, <2>3 DEF Holding, RowHasId
    <2>6. Archived([sid |-> secrets[w.name].id, val |-> w.ct.val])'
      BY <2>1, <2>4, <2>5 DEF Archived
    <2>7. WrittenArchived(t)'
      BY <1>3, <2>2, <2>6 DEF WrittenArchived
    <2>8. QED
      BY <1>2, <1>3, <1>4, <2>2, <2>7 DEF ArchiveInvariant
  <1>7. CASE CloseTransaction(t)
    BY <1>2, <1>3, <1>4, <1>7 DEF CloseTransaction, NoTx, TypeOK, ArchiveInvariant
  <1>8. CASE ~ListLiveSecrets(t) /\ ~ReencryptSecret(t)
    BY <1>2, <1>3, <1>4, <1>8, TransactionsShrink DEF ArchiveInvariant
  <1>9. QED
    BY <1>5, <1>6, <1>7, <1>8

LEMMA ArchiveInductive ==
  TypeOK /\ StoreInvariant /\ ArchiveInvariant /\ [Next]_vars => ArchiveInvariant'
  <1> SUFFICES ASSUME TypeOK, StoreInvariant, ArchiveInvariant, [Next]_vars PROVE ArchiveInvariant'
    OBVIOUS
  <1>1. CASE WindowPasses
    <2>1. PICK name \in Keys : secrets' = [secrets EXCEPT ![name].deleted = "expired"]
      BY <1>1 DEF WindowPasses
    <2>2. UNCHANGED <<versions, thread, tx, ghost>>
      BY <1>1 DEF WindowPasses, Others
    <2>3. \A j \in Keys : secrets'[j].id = secrets[j].id /\ secrets'[j].ct = secrets[j].ct
      BY <2>1 DEF TypeOK, Row
    <2>4. \A t \in Threads : \A w \in tx[t].rowWrites : w.name \in Keys
      BY DEF TypeOK, Transaction
    <2>5. \A value : Archived(value) => Archived(value)'
      BY <2>2 DEF Archived
    <2>6. ASSUME NEW k \in Keys, Exists(k)' PROVE Archived(Holding(secrets[k]))'
      <3>1. PICK value : value = Holding(secrets[k])
        OBVIOUS
      <3>2. Archived(value) /\ value = Holding(secrets'[k])
        BY <2>3, <2>6, <3>1 DEF ArchiveInvariant, Exists, Holding
      <3>3. QED
        BY <2>5, <3>2 DEF Archived
    <2>7. \A t \in Threads : ListedArchived(t)'
      BY <2>2, <2>3, <2>5 DEF ArchiveInvariant, ListedArchived
    <2>8. ASSUME NEW t \in Threads, NEW w \in tx[t].rowWrites
          PROVE  Archived([sid |-> secrets[w.name].id, val |-> w.ct.val])'
      <3>1. PICK value : value = [sid |-> secrets[w.name].id, val |-> w.ct.val]
        OBVIOUS
      <3>2. Archived(value) /\ value = [sid |-> secrets'[w.name].id, val |-> w.ct.val]
        BY <2>3, <2>4, <3>1 DEF ArchiveInvariant, WrittenArchived
      <3>3. QED
        BY <2>5, <3>2 DEF Archived
    <2>9. QED
      BY <2>2, <2>6, <2>7, <2>8 DEF ArchiveInvariant, WrittenArchived
  <1>2. CASE RequireRekey \/ UNCHANGED vars
    BY <1>2 DEF RequireRekey, vars, ArchiveInvariant, ListedArchived, WrittenArchived, Archived,
                Holding, Exists
  <1>3. QED
    BY <1>1, <1>2, SavesArchive, OthersArchive DEF Next, ThreadStep

(***************************************************************************)
(* The current value of every secret is in its history, or about to be, or *)
(* excused: by a crash, by the browser's add, or by a rekey that writes    *)
(* back what it had read of a secret that was destroyed since.             *)
(***************************************************************************)
THEOREM ValuesArchived == Spec => []CurrentValueArchived
  <1>1. Init => ArchiveInvariant
    BY DEF Init, NoRow, NoTx, Idle, ArchiveInvariant, ListedArchived, WrittenArchived, Exists
  <1>2. ArchiveInvariant => CurrentValueArchived
    BY DEF ArchiveInvariant, Archived, CurrentValueArchived
  <1>3. QED
    BY <1>1, <1>2, ArchiveInductive, TypeCorrect, StoreKept, PTL DEF Spec
-----------------------------------------------------------------------------
(***************************************************************************)
(* Retries.  A POST or a PUT saves its copy and then makes its version;    *)
(* nothing else does so under a token.                                     *)
(***************************************************************************)
Attempts == {"post", "put"}

AttemptsShape == \A t \in Threads : thread[t].op \in Attempts => thread[t].pc \in {"save", "version"}

LEMMA AttemptsOnly ==
  ASSUME TypeOK, AttemptsShape, NEW t \in Threads, ThreadStep(t), ~WriteLookup(t), ~Save(t)
  PROVE  thread'[t].op \notin Attempts
  <1>1. CASE Finish(t) \/ CloseTransaction(t)
    <2>1. thread'[t] = Idle
      BY <1>1 DEF Finish, CloseTransaction, TypeOK
    <2>2. QED
      BY <2>1 DEF Idle, Attempts
  <1>2. CASE thread[t].pc \notin {"save", "version"} /\ Continues(t)
    BY <1>2 DEF AttemptsShape, Continues, Idle, Attempts
  <1>3. CASE CleanupSelect(t)
    <2> DEFINE next == [Idle EXCEPT !.op = "cleanup", !.pc = "delete_versions",
                                    !.ids = {secrets[k].id : k \in Expired}]
    <2>1. next.op = "cleanup" /\ thread'[t] = next
      BY <1>3 DEF CleanupSelect, BeginDelete, Idle, TypeOK
    <2> HIDE DEF next
    <2>2. QED
      BY <2>1 DEF Attempts
  <1>4. CASE CreateVersion(t) \/ DeadlockDetected(t) \/ Crash(t)
    BY <1>1, <1>4 DEF CreateVersion, DeadlockDetected, Crash
  <1>5. CASE \/ GetVersion(t) \/ SaveCiphertext(t) \/ SaveDeletedAt(t) \/ DeleteVersions(t)
             \/ DeleteSecrets(t) \/ ReadSalt(t) \/ ReadRows(t) \/ Answer(t)
    <2>1. thread[t].pc \notin {"save", "version"}
      BY <1>5 DEF GetVersion, SaveCiphertext, SaveDeletedAt, DeleteVersions, DeleteSecrets,
                  ReadSalt, ReadRows, Answer
    <2>2. QED
      BY <1>2, <1>5, <2>1, ApiContinues
  <1>6. CASE RekeyStep(t)
    <2>1. thread[t].pc \notin {"save", "version"}
      BY <1>6 DEF RekeyStep, Respond, DeriveKey, VerifyKey, UpdateOrCreate, ListLiveSecrets,
                  ReencryptSecret, ListAllSecrets, ListVersions, ReencryptVersion, Commit,
                  ForgetSession, ForgetOwnKey
    <2>2. QED
      BY <1>2, <1>6, <2>1, RekeyContinues
  <1>7. CASE \/ ImportLookup(t) \/ RotateLookup(t) \/ RestoreVersionLookup(t)
             \/ DeleteLookup(t) \/ RestoreLookup(t) \/ ForceDeleteLookup(t)
             \/ GetLookup(t) \/ ExportSalt(t) \/ RekeyRequest(t)
    BY <1>7, OthersBegin DEF Attempts
  <1>8. QED
    BY <1>3, <1>4, <1>5, <1>6, <1>7 DEF ThreadStep, SecretApiStep

\* A write begins: its token is not the one the row holds.
LEMMA WriteBegins ==
  ASSUME TypeOK, NEW t \in Threads, WriteLookup(t)
  PROVE  /\ thread'[t].pc = "save"
         /\ \E k \in Keys, token \in Tokens \cup {NoToken} :
              /\ ~Replay(k, token) /\ thread'[t].row.token = token
              /\ thread'[t].row.id = secrets[k].id
         /\ UNCHANGED <<secrets, versions, ghost>>
  <1>1. PICK op \in {"post", "put"}, k \in Keys, ct \in ClientCiphertext,
             token \in Tokens \cup {NoToken} :
          /\ ~Replay(k, token)
          /\ Begin(t, op, "save", k,
                   [secrets[k] EXCEPT !.ct = ct, !.token = token, !.deleted = "null"])
    BY DEF WriteLookup
  <1> DEFINE row == [secrets[k] EXCEPT !.ct = ct, !.token = token, !.deleted = "null"]
             next == [Idle EXCEPT !.op = op, !.pc = "save", !.name = k, !.row = row]
  <1>2. row.token = token /\ row.id = secrets[k].id
    BY DEF TypeOK, Row
  <1> HIDE DEF row
  <1>3. next.pc = "save" /\ next.row = row /\ thread'[t] = next
    BY <1>1 DEF Begin, Idle, TypeOK, row
  <1> HIDE DEF next
  <1>4. QED
    BY <1>1, <1>2, <1>3 DEF WriteLookup

\* A save goes on to its version, or ends.
LEMMA SaveGoesOn ==
  ASSUME TypeOK, NEW t \in Threads, Save(t)
  PROVE  \/ thread'[t] = Idle /\ UNCHANGED <<secrets, ghost, serial>>
         \/ /\ Saves(t, thread[t].name, Copied(t))
            /\ Exists(thread[t].name) => secrets[thread[t].name].id = Copied(t).id
            /\ thread'[t].pc = "version" /\ thread'[t].row = Copied(t)
            /\ thread'[t].op = thread[t].op
  <1>1. thread[t] \in ThreadState
    BY DEF TypeOK
  <1>2. CASE Finish(t) /\ UNCHANGED <<secrets, ghost, serial>>
    BY <1>2 DEF Finish, TypeOK
  <1>3. ASSUME NEW row, thread' = [thread EXCEPT ![t].row = row, ![t].pc = "version"]
        PROVE  thread'[t].pc = "version" /\ thread'[t].row = row /\ thread'[t].op = thread[t].op
    BY <1>1, <1>3 DEF TypeOK, ThreadState
  <1>4. QED
    BY <1>2, <1>3, SaveSaves

LEMMA AttemptsInductive == TypeOK /\ AttemptsShape /\ [Next]_vars => AttemptsShape'
  <1> SUFFICES ASSUME TypeOK, AttemptsShape, [Next]_vars PROVE AttemptsShape'
    OBVIOUS
  <1>1. ASSUME NEW t \in Threads, ThreadStep(t) PROVE AttemptsShape'
    <2>1. Alone(t)
      BY <1>1, StepsAlone
    <2>2. thread'[t].op \in Attempts => thread'[t].pc \in {"save", "version"}
      <3>1. CASE WriteLookup(t)
        BY <3>1, WriteBegins
      <3>2. CASE Save(t)
        <4>1. Idle.op \notin Attempts
          BY DEF Idle, Attempts
        <4>2. QED
          BY <3>2, <4>1, SaveGoesOn
      <3>3. QED
        BY <1>1, <3>1, <3>2, AttemptsOnly
    <2>3. QED
      BY <2>1, <2>2 DEF AttemptsShape, Alone
  <1>2. CASE WindowPasses \/ RequireRekey \/ UNCHANGED vars
    BY <1>2 DEF WindowPasses, RequireRekey, vars, Others, AttemptsShape
  <1>3. QED
    BY <1>1, <1>2 DEF Next, ThreadStep

(***************************************************************************)
(* A token that is not spent was applied at most once, is the secret's if  *)
(* it was, and no other attempt under it has been saved or may be.         *)
(***************************************************************************)
Applied(id, token) == \E v \in versions : v.sid = id /\ v.by = token

Attempting(t, pc, id, token) ==
  /\ thread[t].op \in Attempts /\ thread[t].pc = pc
  /\ thread[t].row.id = id /\ thread[t].row.token = token

Saved(t, id, token) == Attempting(t, "version", id, token)
Saving(t, id, token) == Attempting(t, "save", id, token)

OnceApplied(id, token) ==
  [sid |-> id, token |-> token] \notin ghost.spent =>
    /\ Applied(id, token) \/ (\E t \in Threads : Saved(t, id, token)) =>
         \A k \in Keys : secrets[k].id = id => secrets[k].token = token
    /\ \A t \in Threads : Saved(t, id, token) =>
         ~Applied(id, token) /\ \A u \in Threads \ {t} : ~Saved(u, id, token)
    /\ \A t \in Threads : Saving(t, id, token) =>
         ~Applied(id, token) /\ \A u \in Threads \ {t} : ~Saved(u, id, token)
    /\ \A v, w \in versions :
         v.sid = id /\ v.by = token /\ w.sid = id /\ w.by = token => v.vid = w.vid

RetryInvariant == \A id \in Nat \ {0}, token \in Tokens : OnceApplied(id, token)

\* Steps that begin no attempt and make no version.
LEMMA OnceQuiet ==
  ASSUME RetryInvariant, ghost.spent \subseteq ghost'.spent,
         \A k \in Keys : Exists(k)' =>
           secrets'[k].id = secrets[k].id /\ secrets'[k].token = secrets[k].token,
         \A v \in versions' : \E w \in versions : w.vid = v.vid /\ w.sid = v.sid /\ w.by = v.by,
         \A t \in Threads : thread'[t] = thread[t] \/ thread'[t].op \notin Attempts
  PROVE  RetryInvariant'
  <1> SUFFICES ASSUME NEW id \in Nat \ {0}, NEW token \in Tokens,
                      [sid |-> id, token |-> token] \notin ghost'.spent
               PROVE  OnceApplied(id, token)'
    BY DEF RetryInvariant, OnceApplied
  <1>1. OnceApplied(id, token) /\ [sid |-> id, token |-> token] \notin ghost.spent
    BY DEF RetryInvariant
  <1>2. Applied(id, token)' => Applied(id, token)
    BY DEF Applied
  <1>3. \A t \in Threads : /\ Saved(t, id, token)' => Saved(t, id, token)
                           /\ Saving(t, id, token)' => Saving(t, id, token)
    BY DEF Saved, Saving, Attempting
  <1>4. \A k \in Keys : secrets'[k].id = id =>
          secrets[k].id = id /\ secrets'[k].token = secrets[k].token
    BY DEF Exists
  <1>5. \A v, w \in versions' :
          v.sid = id /\ v.by = token /\ w.sid = id /\ w.by = token => v.vid = w.vid
    BY <1>1 DEF OnceApplied
  <1>6. QED
    BY <1>1, <1>2, <1>3, <1>4, <1>5 DEF OnceApplied

\* An attempt begins only under a token that the secret does not hold.
LEMMA BeginsOnce ==
  ASSUME TypeOK, RetryInvariant, NEW t \in Threads, WriteLookup(t)
  PROVE  RetryInvariant'
  <1>1. UNCHANGED <<secrets, versions, ghost>> /\ Alone(t) /\ thread'[t].pc = "save"
    BY WriteBegins, StepsAlone DEF ThreadStep, SecretApiStep
  <1>2. PICK k \in Keys, held \in Tokens \cup {NoToken} :
          /\ ~Replay(k, held) /\ thread'[t].row.token = held
          /\ thread'[t].row.id = secrets[k].id
    BY WriteBegins
  <1> SUFFICES ASSUME NEW id \in Nat \ {0}, NEW token \in Tokens,
                      [sid |-> id, token |-> token] \notin ghost'.spent
               PROVE  OnceApplied(id, token)'
    BY DEF RetryInvariant, OnceApplied
  <1>3. OnceApplied(id, token) /\ [sid |-> id, token |-> token] \notin ghost.spent
    BY <1>1 DEF RetryInvariant
  <1>4. Applied(id, token)' => Applied(id, token)
    BY <1>1 DEF Applied
  <1>5. ~Saved(t, id, token)'
    BY <1>1 DEF Saved, Attempting
  <1>6. \A u \in Threads \ {t} : /\ Saved(u, id, token)' => Saved(u, id, token)
                                 /\ Saving(u, id, token)' => Saving(u, id, token)
    BY <1>1 DEF Saved, Saving, Attempting, Alone
  <1>7. CASE Saving(t, id, token)'
    <2>1. held = token /\ secrets[k].id = id
      BY <1>2, <1>7 DEF Saving, Attempting
    <2>2. secrets[k].token # token
      BY <1>2, <2>1, NoneAssumption DEF Replay, Exists
    <2>3. ~Applied(id, token) /\ \A u \in Threads : ~Saved(u, id, token)
      BY <1>3, <2>1, <2>2 DEF OnceApplied
    <2>4. QED
      BY <1>1, <1>3, <1>4, <1>5, <1>6, <2>3 DEF OnceApplied
  <1>8. CASE ~Saving(t, id, token)'
    BY <1>1, <1>3, <1>4, <1>5, <1>6, <1>8 DEF OnceApplied
  <1>9. QED
    BY <1>7, <1>8

\* A version is made under an attempt's token, once for each attempt.
LEMMA VersionsOnce ==
  ASSUME TypeOK, RetryInvariant, NEW t \in Threads, CreateVersion(t)
  PROVE  RetryInvariant'
  <1>1. UNCHANGED <<secrets, ghost>> /\ Alone(t) /\ thread[t].pc = "version"
    BY StepsAlone DEF CreateVersion, ThreadStep, SecretApiStep
  <1>2. thread'[t].op \notin Attempts
    BY DEF CreateVersion, Finish, Idle, Attempts, TypeOK
  <1>3. CASE UNCHANGED versions
    BY <1>1, <1>2, <1>3, OnceQuiet DEF Alone
  <1>4. CASE ~UNCHANGED versions
    <2> DEFINE by == IF thread[t].op \in {"post", "put"} THEN thread[t].row.token ELSE NoToken
               new == [vid |-> serial.version, sid |-> thread[t].row.id, ct |-> thread[t].row.ct,
                       by |-> by]
    <2>1. versions' = versions \cup {new}
      BY <1>4 DEF CreateVersion
    <2>2. /\ new.sid = thread[t].row.id
          /\ new.by = IF thread[t].op \in Attempts THEN thread[t].row.token ELSE NoToken
      BY DEF Attempts
    <2> HIDE DEF new
    <2> SUFFICES ASSUME NEW id \in Nat \ {0}, NEW token \in Tokens,
                        [sid |-> id, token |-> token] \notin ghost'.spent
                 PROVE  OnceApplied(id, token)'
      BY DEF RetryInvariant, OnceApplied
    <2>3. OnceApplied(id, token) /\ [sid |-> id, token |-> token] \notin ghost.spent
      BY <1>1 DEF RetryInvariant
    <2>4. ~Saved(t, id, token)' /\ ~Saving(t, id, token)'
      BY <1>2 DEF Saved, Saving, Attempting
    <2>5. \A u \in Threads \ {t} : /\ Saved(u, id, token)' => Saved(u, id, token)
                                   /\ Saving(u, id, token)' => Saving(u, id, token)
      BY <1>1 DEF Saved, Saving, Attempting, Alone
    <2>6. CASE Saved(t, id, token)
      <3>1. /\ ~Applied(id, token) /\ \A u \in Threads \ {t} : ~Saved(u, id, token)
            /\ \A u \in Threads \ {t} : ~Saving(u, id, token)
        BY <2>3, <2>6 DEF OnceApplied
      <3>2. \A k \in Keys : secrets'[k].id = id => secrets'[k].token = token
        BY <1>1, <2>3, <2>6 DEF OnceApplied
      <3>3. \A v, w \in versions' :
              v.sid = id /\ v.by = token /\ w.sid = id /\ w.by = token => v.vid = w.vid
        BY <2>1, <3>1 DEF Applied
      <3>4. QED
        BY <2>4, <2>5, <3>1, <3>2, <3>3 DEF OnceApplied
    <2>7. CASE ~Saved(t, id, token)
      <3>1. ~(new.sid = id /\ new.by = token)
        BY <1>1, <2>2, <2>7, NoneAssumption DEF Saved, Attempting
      <3>2. \A v \in versions' : v.sid = id /\ v.by = token => v \in versions
        BY <2>1, <3>1
      <3>3. Applied(id, token)' => Applied(id, token)
        BY <3>2 DEF Applied
      <3>4. \A k \in Keys :
              (Applied(id, token) \/ \E u \in Threads : Saved(u, id, token))
                 /\ secrets'[k].id = id => secrets'[k].token = token
        BY <1>1, <2>3 DEF OnceApplied
      <3>5. QED
        BY <2>3, <2>4, <2>5, <3>2, <3>3, <3>4 DEF OnceApplied
    <2>8. QED
      BY <2>6, <2>7
  <1>5. QED
    BY <1>3, <1>4

(***************************************************************************)
(* A save under a token that stays unspent replaces no other token, and    *)
(* has no attempt under this token, and none at a destroyed secret, beside *)
(* it.                                                                     *)
(***************************************************************************)
LEMMA SavesOnce ==
  ASSUME TypeOK, TypeOK', StoreInvariant, StoreInvariant', AttemptsShape, RetryInvariant,
         NEW t \in Threads, NEW k \in Keys, NEW row, Saves(t, k, row), UNCHANGED versions,
         Alone(t), Exists(k) => secrets[k].id = row.id,
         \/ thread'[t].op \notin Attempts
         \/ Save(t) /\ k = thread[t].name /\ row = Copied(t)
  PROVE  RetryInvariant'
  <1> USE FieldTypes
  <1>1. /\ secrets'[k] = row /\ \A j \in Keys \ {k} : secrets'[j] = secrets[j]
        /\ ghost'.spent = ghost.spent \cup Spent(t, k, row) /\ row \in Row /\ row.id # 0
    BY DEF Saves, TypeOK
  <1> SUFFICES ASSUME NEW id \in Nat \ {0}, NEW token \in Tokens,
                      [sid |-> id, token |-> token] \notin ghost'.spent
               PROVE  OnceApplied(id, token)'
    BY DEF RetryInvariant, OnceApplied
  <1>2. OnceApplied(id, token) /\ [sid |-> id, token |-> token] \notin ghost.spent
    BY <1>1 DEF RetryInvariant
  <1>3. Applied(id, token)' <=> Applied(id, token)
    BY DEF Applied
  <1>4. Applied(id, token) => \E j \in Keys : secrets[j].id = id /\ Exists(j)
    BY DEF Applied, StoreInvariant, VersionsOwned
  <1>5. \A u \in Threads \ {t} : /\ Saved(u, id, token)' <=> Saved(u, id, token)
                                 /\ Saving(u, id, token)' <=> Saving(u, id, token)
    BY DEF Saved, Saving, Attempting, Alone
  <1>6. ~Saving(t, id, token)' /\ Idle.op \notin Attempts
    <2>1. Idle.op \notin Attempts
      BY DEF Idle, Attempts
    <2>2. QED
      BY <2>1, SaveGoesOn DEF Saving, Attempting
  <1>7. \A u \in Threads \ {t} :
          (Saved(u, id, token) \/ Saving(u, id, token)) /\ row.id = id => thread[u].name = k
    <2>1. \A u \in Threads \ {t} : thread'[u] = thread[u]
      BY DEF Alone
    <2>2. row.id = id => Exists(k)' /\ secrets'[k].id = id
      BY <1>1 DEF Exists
    <2>3. QED
      BY <2>1, <2>2 DEF StoreInvariant, IdsOwned, Saved, Saving, Attempting
  \* The save spends the tokens it replaces, and those of attempts beside it.
  <1>8. row.id = id /\ row.token # token => secrets[k].token # token
    BY <1>1 DEF Spent
  <1>9. ASSUME NEW u \in Threads \ {t}, Saved(u, id, token) \/ Saving(u, id, token), row.id = id
        PROVE  row.token # token /\ Exists(k)
    <2>1. thread[u].op \in {"post", "put"} /\ thread[u].name = k
          /\ thread[u].row.id = row.id /\ thread[u].row.token = token
      BY <1>7, <1>9 DEF Saved, Saving, Attempting, Attempts
    <2>2. u \notin Beside(t, k, row)
      BY <1>1, <1>9, <2>1 DEF Spent
    <2>3. QED
      BY <2>1, <2>2 DEF Beside
  \* What the save is, if it leaves an attempt under this token behind.
  <1>10. CASE Saved(t, id, token)'
    <2>1. Save(t) /\ k = thread[t].name /\ row = Copied(t)
      BY <1>10 DEF Saved, Attempting
    <2>2. /\ row.id = id /\ row.token = token /\ thread[t].op \in Attempts
      BY <1>6, <1>10, <2>1, SaveGoesOn DEF Saved, Attempting
    <2>3. ~Applied(id, token) /\ \A u \in Threads \ {t} : ~Saved(u, id, token)
      <3>1. CASE thread[t].row.id = 0
        <4>1. id = serial.row
          BY <2>1, <2>2, <3>1 DEF Copied, Row, TypeOK, Serial
        <4>2. QED
          BY <1>4, <4>1 DEF StoreInvariant, IdsFresh, Saved, Attempting
      <3>2. CASE thread[t].row.id # 0
        <4>1. Saving(t, id, token)
          BY <2>1, <2>2, <3>2 DEF Copied, Saving, Attempting, Save
        <4>2. QED
          BY <1>2, <4>1 DEF OnceApplied
      <3>3. QED
        BY <3>1, <3>2
    <2>4. \A u \in Threads \ {t} : ~Saving(u, id, token)
      BY <1>9, <2>2
    <2>5. \A j \in Keys : secrets'[j].id = id => secrets'[j].token = token
      <3>1. \A j \in Keys : secrets'[j].id = id => j = k
        BY <1>1, <2>2 DEF StoreInvariant, IdsOwned, Exists
      <3>2. QED
        BY <1>1, <2>2, <3>1
    <2>6. QED
      BY <1>2, <1>3, <1>5, <1>6, <2>3, <2>4, <2>5 DEF OnceApplied
  <1>11. CASE ~Saved(t, id, token)'
    <2>1. ASSUME NEW j \in Keys, secrets'[j].id = id,
                 Applied(id, token) \/ \E u \in Threads \ {t} : Saved(u, id, token)
          PROVE  secrets'[j].token = token
      <3>1. CASE j # k
        BY <1>1, <1>2, <2>1, <3>1 DEF OnceApplied
      <3>2. CASE j = k /\ Exists(k)
        BY <1>1, <1>2, <1>8, <2>1, <3>2 DEF OnceApplied
      <3>3. CASE j = k /\ ~Exists(k)
        <4>1. Applied(id, token)
          BY <1>1, <1>9, <2>1, <3>3
        <4>2. PICK i \in Keys : secrets[i].id = id /\ Exists(i)
          BY <1>4, <4>1
        <4>3. i # k /\ secrets'[i].id = id
          BY <1>1, <3>3, <4>2
        <4>4. QED
          BY <2>1, <3>3, <4>3 DEF StoreInvariant, IdsOwned, Exists
      <3>4. QED
        BY <3>1, <3>2, <3>3
    <2>2. QED
      BY <1>2, <1>3, <1>5, <1>6, <1>11, <2>1 DEF OnceApplied
  <1>12. QED
    BY <1>10, <1>11

LEMMA RetryInductive ==
  /\ TypeOK /\ TypeOK' /\ StoreInvariant /\ StoreInvariant'
  /\ AttemptsShape /\ RetryInvariant /\ [Next]_vars
  => RetryInvariant'
  <1> SUFFICES ASSUME TypeOK, TypeOK', StoreInvariant, StoreInvariant', AttemptsShape,
                      RetryInvariant, [Next]_vars
               PROVE  RetryInvariant'
    OBVIOUS
  <1>1. ASSUME NEW t \in Threads, SaveStep(t) PROVE RetryInvariant'
    <2>1. ThreadStep(t) /\ Alone(t) /\ thread[t].name \in Keys
      BY <1>1, StepsAlone, FieldTypes DEF SaveStep, ThreadStep, SecretApiStep, RekeyStep
    <2>2. UNCHANGED versions /\ thread[t].pc # "version"
      BY <1>1, <2>1, VersionsUntouched
         DEF SaveStep, CreateVersion, DeleteSecrets, Commit, Crash, Save, SaveCiphertext,
             SaveDeletedAt, UpdateOrCreate
    <2>3. thread'[t].op \notin Attempts \/ Save(t)
      <3>1. WriteLookup(t) => thread[t].pc = "idle"
        BY DEF WriteLookup, IsIdle, Idle
      <3>2. thread[t].pc # "idle"
        BY <1>1 DEF SaveStep, Save, SaveCiphertext, SaveDeletedAt, UpdateOrCreate
      <3>3. QED
        BY <2>1, <3>1, <3>2, AttemptsOnly
    <2>4. CASE UNCHANGED <<secrets, ghost>> /\ thread'[t].op \notin Attempts
      BY <2>1, <2>2, <2>4, OnceQuiet DEF Alone
    <2>5. CASE Save(t)
      <3>1. Idle.op \notin Attempts
        BY DEF Idle, Attempts
      <3>2. CASE thread'[t] = Idle /\ UNCHANGED <<secrets, ghost>>
        BY <2>4, <3>1, <3>2
      <3>3. CASE /\ Saves(t, thread[t].name, Copied(t))
                 /\ Exists(thread[t].name) => secrets[thread[t].name].id = Copied(t).id
        <4>1. PICK k \in Keys, row \in Row : k = thread[t].name /\ row = Copied(t)
          BY <2>1, <3>3 DEF Saves
        <4>2. Saves(t, k, row) /\ (Exists(k) => secrets[k].id = row.id)
          BY <3>3, <4>1 DEF Exists
        <4>3. QED
          BY <2>1, <2>2, <2>5, <4>1, <4>2, SavesOnce
      <3>4. QED
        BY <2>5, <3>2, <3>3, SaveGoesOn
    <2>6. CASE SaveCiphertext(t) \/ SaveDeletedAt(t)
      <3>1. thread'[t].op \notin Attempts
        BY <2>3, <2>6 DEF SaveCiphertext, SaveDeletedAt, Save
      <3>2. CASE UNCHANGED <<secrets, ghost>>
        BY <2>4, <3>1, <3>2
      <3>3. ASSUME NEW row, Saves(t, thread[t].name, row), row.id = secrets[thread[t].name].id
            PROVE  RetryInvariant'
        <4>1. PICK k \in Keys : k = thread[t].name
          BY <2>1
        <4>2. QED
          BY <2>1, <2>2, <3>1, <3>3, <4>1, SavesOnce
      <3>4. QED
        BY <2>6, <3>2, <3>3, FieldSaves
    <2>7. CASE UpdateOrCreate(t)
      <3>1. thread'[t].op \notin Attempts
        BY <2>3, <2>7 DEF UpdateOrCreate, Save
      <3>2. PICK k \in Keys : \E row : Saves(t, k, row) /\ (Exists(k) => secrets[k].id = row.id)
        BY <2>7, AddSaves
      <3>3. PICK row : Saves(t, k, row) /\ (Exists(k) => secrets[k].id = row.id)
        BY <3>2
      <3>4. QED
        BY <2>1, <2>2, <3>1, <3>3, SavesOnce
    <2>8. QED
      BY <1>1, <2>5, <2>6, <2>7 DEF SaveStep
  <1>2. ASSUME NEW t \in Threads, ThreadStep(t), ~SaveStep(t), ~WriteLookup(t), ~CreateVersion(t)
        PROVE  RetryInvariant'
    <2>1. /\ Alone(t) /\ RowsKept /\ ghost.spent \subseteq ghost'.spent
          /\ thread'[t].op \notin Attempts
      BY <1>2, StepsAlone, RowsAreKept, GhostGrows, AttemptsOnly DEF HistoryGrows, SaveStep
    <2>2. \A v \in versions' : \E w \in versions : w.vid = v.vid /\ w.sid = v.sid /\ w.by = v.by
      <3>1. CASE Commit(t)
        <4>1. versions' = {VersionAfter(t, v) : v \in versions}
          BY <3>1 DEF Commit
        <4>2. \A v \in versions : /\ VersionAfter(t, v).vid = v.vid
                                  /\ VersionAfter(t, v).sid = v.sid /\ VersionAfter(t, v).by = v.by
          BY DEF VersionAfter, TypeOK, Version
        <4>3. QED
          BY <4>1, <4>2
      <3>2. CASE DeleteSecrets(t) \/ Crash(t)
        BY <3>2 DEF DeleteSecrets, Crash
      <3>3. QED
        BY <1>2, <3>1, <3>2, VersionsUntouched
    <2>3. QED
      BY <2>1, <2>2, OnceQuiet DEF Alone, RowsKept
  <1>3. CASE WindowPasses
    <2>1. PICK k \in Keys : secrets' = [secrets EXCEPT ![k].deleted = "expired"]
      BY <1>3 DEF WindowPasses
    <2>2. /\ UNCHANGED <<versions, thread, ghost>>
          /\ \A j \in Keys : secrets'[j].id = secrets[j].id /\ secrets'[j].token = secrets[j].token
      BY <1>3, <2>1 DEF WindowPasses, TypeOK, Row
    <2>3. QED
      BY <2>2, OnceQuiet
  <1>4. CASE RequireRekey \/ UNCHANGED vars
    BY <1>4, OnceQuiet DEF RequireRekey, vars
  <1>5. QED
    BY <1>1, <1>2, <1>3, <1>4, BeginsOnce, VersionsOnce DEF Next, ThreadStep

(***************************************************************************)
(* A client's retry under its token is not applied a second time, unless   *)
(* another write replaced the token, two attempts ran side by side, or one *)
(* outlived the secret's destruction.                                      *)
(***************************************************************************)
THEOREM RetriesOnce == Spec => []RetriesNotApplied
  <1>1. Init => AttemptsShape /\ RetryInvariant
    <2> SUFFICES ASSUME Init PROVE AttemptsShape /\ RetryInvariant
      OBVIOUS
    <2>1. versions = {} /\ \A t \in Threads : thread[t].op \notin Attempts
      BY DEF Init, Idle, Attempts
    <2>2. QED
      BY <2>1 DEF AttemptsShape, RetryInvariant, OnceApplied, Applied, Saved, Saving, Attempting
  <1>2. TypeOK /\ StoreInvariant /\ RetryInvariant => RetriesNotApplied
    <2> SUFFICES ASSUME TypeOK, StoreInvariant, RetryInvariant, NEW v \in versions,
                        NEW w \in versions, v.by # NoToken, v.by = w.by, v.sid = w.sid,
                        v.vid # w.vid
                 PROVE  [sid |-> v.sid, token |-> v.by] \in ghost.spent
      BY DEF RetriesNotApplied
    <2>1. v.sid \in Nat \ {0} /\ v.by \in Tokens
      BY DEF TypeOK, Version, StoreInvariant, VersionsOwned, Exists
    <2>2. QED
      BY <2>1 DEF RetryInvariant, OnceApplied
  <1>3. QED
    BY <1>1, <1>2, AttemptsInductive, RetryInductive, TypeCorrect, StoreKept, PTL DEF Spec
-----------------------------------------------------------------------------
(***************************************************************************)
(* Proof that two rekeys never wait for each other, for any number of      *)
(* secrets, versions and threads: both lock the secrets in key order, and  *)
(* then the versions in one order, that of the secrets' names and, within  *)
(* one secret, newest first.                                               *)
(***************************************************************************)

(***************************************************************************)
(* What a thread holds, and when.  Only an open rekey lists and writes,    *)
(* only a hard delete that has deleted its versions holds deletions, and   *)
(* no rekey deletes anything.                                              *)
(***************************************************************************)
Deleting == {"delete_versions", "delete_secrets"}

Keeping(t) ==
  /\ thread[t].pc \in Deleting => thread[t].op # "rekey"
  /\ thread[t].pc # "delete_secrets" => tx[t].deleted = {}
  /\ thread[t].pc \notin Rekeying => tx[t].rows = {} /\ tx[t].rowWrites = {}
  /\ thread[t].pc # "versions" =>
       tx[t].owners = {} /\ tx[t].history = {} /\ tx[t].versionWrites = {}

Empty(t) ==
  /\ tx[t].rows = {} /\ tx[t].rowWrites = {} /\ tx[t].owners = {} /\ tx[t].history = {}
  /\ tx[t].versionWrites = {} /\ tx[t].deleted = {}

\* The steps that change what is listed, written or deleted.
OpenStep(t) ==
  \/ ListLiveSecrets(t) \/ ReencryptSecret(t) \/ ListAllSecrets(t) \/ ListVersions(t)
  \/ ReencryptVersion(t) \/ DeleteVersions(t)

\* After any other step its thread holds nothing.
LEMMA OthersEmpty ==
  ASSUME TypeOK, NEW t \in Threads, Keeping(t), ThreadStep(t), ~OpenStep(t)
  PROVE  Empty(t)'
  <1>1. CASE CloseTransaction(t)
    BY <1>1 DEF CloseTransaction, NoTx, Empty, TypeOK
  <1>2. CASE UNCHANGED tx /\ thread[t].pc \notin Rekeying \cup {"delete_secrets"}
    BY <1>2 DEF Keeping, Empty, Rekeying
  <1>3. CASE Commit(t)
    BY <1>3 DEF Commit, NoTx, Empty, TypeOK
  <1>4. CASE VerifyKey(t)
    <2>1. CASE tx' = [tx EXCEPT ![t].new = serial.salt]
      BY <1>4, <2>1 DEF VerifyKey, Keeping, Empty, Rekeying, TypeOK, Transaction
    <2>2. QED
      BY <1>2, <1>4, <2>1 DEF VerifyKey, Rekeying
  <1>5. CASE ForgetSession(t)
    <2>1. PICK s : tx' = [tx EXCEPT ![t].sessions = @ \ {s}]
      BY <1>5 DEF ForgetSession
    <2>2. QED
      BY <1>5, <2>1 DEF ForgetSession, Keeping, Empty, Rekeying, TypeOK, Transaction
  <1>6. CASE thread[t] = Idle /\ UNCHANGED tx
    BY <1>2, <1>6 DEF Idle, Rekeying
  <1>7. CASE \/ WriteLookup(t) \/ ImportLookup(t) \/ RotateLookup(t) \/ RestoreVersionLookup(t)
             \/ DeleteLookup(t) \/ RestoreLookup(t) \/ GetLookup(t) \/ ForceDeleteLookup(t)
             \/ CleanupSelect(t) \/ ExportSalt(t) \/ RekeyRequest(t)
    BY <1>6, <1>7
       DEF WriteLookup, ImportLookup, RotateLookup, RestoreVersionLookup, DeleteLookup,
           RestoreLookup, GetLookup, ForceDeleteLookup, CleanupSelect, ExportSalt, RekeyRequest,
           StartUnlock, Lock, ModifySession, StartAdd, StartRekey, IsIdle, Others
  <1>8. CASE \/ GetVersion(t) \/ Save(t) \/ SaveCiphertext(t) \/ CreateVersion(t)
             \/ SaveDeletedAt(t) \/ ReadSalt(t) \/ ReadRows(t) \/ Answer(t)
    BY <1>2, <1>8
       DEF GetVersion, Save, SaveCiphertext, CreateVersion, SaveDeletedAt, ReadSalt, ReadRows,
           Answer, Others, Rekeying
  <1>9. CASE Respond(t) \/ DeriveKey(t) \/ UpdateOrCreate(t) \/ ForgetOwnKey(t)
    BY <1>2, <1>9 DEF Respond, DeriveKey, UpdateOrCreate, ForgetOwnKey, Rekeying
  <1>10. QED
    BY <1>1, <1>3, <1>4, <1>5, <1>7, <1>8, <1>9
       DEF ThreadStep, SecretApiStep, RekeyStep, OpenStep, DeleteSecrets, DeadlockDetected, Crash
-----------------------------------------------------------------------------
(***************************************************************************)
(* A copy of a row is kept with the name it was found under, and no rekey  *)
(* comes to delete.                                                        *)
(***************************************************************************)
Taking(t) ==
  /\ \/ thread'[t].row.id = 0
     \/ thread'[t].name \in Keys /\ thread'[t].row.id = secrets[thread'[t].name].id
     \/ thread'[t].row.id = thread[t].row.id /\ thread'[t].name = thread[t].name
  /\ thread'[t].pc \in Deleting => thread'[t].op # "rekey"

LEMMA LookupsTake ==
  ASSUME TypeOK, NEW t \in Threads,
         \/ WriteLookup(t) \/ ImportLookup(t) \/ RotateLookup(t) \/ RestoreVersionLookup(t)
         \/ DeleteLookup(t) \/ RestoreLookup(t) \/ GetLookup(t)
  PROVE  Taking(t)
  <1> USE FieldTypes
  <1>1. ASSUME NEW op, NEW pc \in {"save", "get_version", "save_deleted", "read_salt"},
               NEW k \in Keys, NEW row, Begin(t, op, pc, k, row), row.id = secrets[k].id
        PROVE  Taking(t)
    <2> DEFINE next == [Idle EXCEPT !.op = op, !.pc = pc, !.name = k, !.row = row]
    <2>1. next.pc = pc /\ next.name = k /\ next.row = row /\ thread'[t] = next
      BY <1>1 DEF Begin, Idle, TypeOK
    <2> HIDE DEF next
    <2>2. QED
      BY <1>1, <2>1 DEF Taking, Deleting
  <1>2. ASSUME NEW k \in Keys, NEW ct, NEW token, NEW deleted
        PROVE  /\ [secrets[k] EXCEPT !.ct = ct, !.token = token, !.deleted = deleted].id
                    = secrets[k].id
               /\ [secrets[k] EXCEPT !.ct = ct, !.deleted = deleted].id = secrets[k].id
               /\ [secrets[k] EXCEPT !.ct = ct].id = secrets[k].id
               /\ [secrets[k] EXCEPT !.deleted = deleted].id = secrets[k].id
    BY DEF Row
  <1>3. CASE WriteLookup(t)
    <2>1. PICK op \in {"post", "put"}, k \in Keys, ct \in ClientCiphertext,
               token \in Tokens \cup {NoToken} :
             Begin(t, op, "save", k,
                   [secrets[k] EXCEPT !.ct = ct, !.token = token, !.deleted = "null"])
      BY <1>3 DEF WriteLookup
    <2> DEFINE row == [secrets[k] EXCEPT !.ct = ct, !.token = token, !.deleted = "null"]
    <2>2. row.id = secrets[k].id /\ Begin(t, op, "save", k, row)
      BY <1>2, <2>1
    <2> HIDE DEF row
    <2>3. QED
      BY <1>1, <2>2
  <1>4. CASE ImportLookup(t)
    <2>1. PICK k \in Keys, ct \in ClientCiphertext :
             Begin(t, "import", "save", k, [secrets[k] EXCEPT !.ct = ct, !.deleted = "null"])
      BY <1>4 DEF ImportLookup
    <2> DEFINE row == [secrets[k] EXCEPT !.ct = ct, !.deleted = "null"]
    <2>2. row.id = secrets[k].id /\ Begin(t, "import", "save", k, row)
      BY <1>2, <2>1
    <2> HIDE DEF row
    <2>3. QED
      BY <1>1, <2>2
  <1>5. CASE RotateLookup(t)
    BY <1>1, <1>2, <1>5 DEF RotateLookup
  <1>6. CASE RestoreVersionLookup(t)
    BY <1>1, <1>6 DEF RestoreVersionLookup
  <1>7. CASE DeleteLookup(t)
    BY <1>1, <1>2, <1>7 DEF DeleteLookup
  <1>8. CASE RestoreLookup(t)
    BY <1>1, <1>2, <1>8 DEF RestoreLookup
  <1>9. CASE GetLookup(t)
    BY <1>1, <1>9 DEF GetLookup
  <1>10. QED
    BY <1>3, <1>4, <1>5, <1>6, <1>7, <1>8, <1>9

LEMMA BeginningsTake ==
  ASSUME TypeOK, NEW t \in Threads,
         ForceDeleteLookup(t) \/ CleanupSelect(t) \/ ExportSalt(t) \/ RekeyRequest(t)
  PROVE  Taking(t)
  <1>1. ASSUME NEW op \in {"force_delete", "cleanup"}, NEW ids, BeginDelete(t, op, ids)
        PROVE  Taking(t)
    <2> DEFINE next == [Idle EXCEPT !.op = op, !.pc = "delete_versions", !.ids = ids]
    <2>1. next.op = op /\ next.row.id = 0 /\ thread'[t] = next
      BY <1>1 DEF BeginDelete, Idle, NoRow, TypeOK
    <2> HIDE DEF next
    <2>2. QED
      BY <2>1 DEF Taking
  <1>2. ASSUME NEW op, NEW s, NEW pc \in {"salt", "respond", "update_or_create"},
               BeginWeb(t, op, pc, s)
        PROVE  Taking(t)
    <2> DEFINE next == [Idle EXCEPT !.op = op, !.pc = pc, !.session = s, !.key = sess[s]]
    <2>1. next.pc = pc /\ next.row.id = 0 /\ thread'[t] = next
      BY <1>2 DEF BeginWeb, Idle, NoRow, TypeOK
    <2> HIDE DEF next
    <2>2. QED
      BY <2>1 DEF Taking, Deleting
  <1>3. CASE Lock(t)
    <2>1. PICK s \in Sessions :
             thread' = [thread EXCEPT ![t] =
                          [Idle EXCEPT !.op = "lock", !.pc = "respond", !.session = s]]
      BY <1>3 DEF Lock
    <2> DEFINE next == [Idle EXCEPT !.op = "lock", !.pc = "respond", !.session = s]
    <2>2. next.pc = "respond" /\ next.row.id = 0 /\ thread'[t] = next
      BY <2>1 DEF Idle, NoRow, TypeOK
    <2> HIDE DEF next
    <2>3. QED
      BY <2>2 DEF Taking, Deleting
  <1>4. CASE ExportSalt(t)
    <2> DEFINE next == [Idle EXCEPT !.op = "export", !.pc = "read_rows", !.derived = env.salt]
    <2>1. next.pc = "read_rows" /\ next.row.id = 0 /\ thread'[t] = next
      BY <1>4 DEF ExportSalt, Idle, NoRow, TypeOK
    <2> HIDE DEF next
    <2>2. QED
      BY <2>1 DEF Taking, Deleting
  <1>5. CASE StartUnlock(t) \/ ModifySession(t) \/ StartAdd(t) \/ StartRekey(t)
    BY <1>2, <1>5 DEF StartUnlock, ModifySession, StartAdd, StartRekey
  <1>6. CASE ForceDeleteLookup(t) \/ CleanupSelect(t)
    BY <1>1, <1>6 DEF ForceDeleteLookup, CleanupSelect
  <1>7. QED
    BY <1>3, <1>4, <1>5, <1>6 DEF RekeyRequest

\* The steps by which requests go on or end, but for the saves.
LEMMA StepsTake ==
  ASSUME TypeOK, NEW t \in Threads, Keeping(t), ThreadStep(t), ~SaveStep(t)
  PROVE  Taking(t)
  <1> USE FieldTypes
  <1>1. thread[t] \in ThreadState /\ thread[t].row \in Row
    BY DEF TypeOK, ThreadState
  <1>2. CASE Finish(t) \/ CloseTransaction(t)
    BY <1>2 DEF Finish, CloseTransaction, Taking, Deleting, Idle, NoRow, TypeOK
  <1>3. CASE UNCHANGED thread
    BY <1>3 DEF Taking, Keeping
  <1>4. ASSUME NEW next, thread' = [thread EXCEPT ![t] = next], next.row.id = thread[t].row.id,
               next.name = thread[t].name, next.pc \notin Deleting
        PROVE  Taking(t)
    BY <1>4 DEF Taking, TypeOK
  <1>5. ASSUME NEW pc, pc \notin Deleting, Goto(t, pc) PROVE Taking(t)
    <2> DEFINE next == [thread[t] EXCEPT !.pc = pc]
    <2>1. next.row.id = thread[t].row.id /\ next.name = thread[t].name /\ next.pc = pc
      BY <1>1 DEF ThreadState
    <2>2. thread' = [thread EXCEPT ![t] = next]
      BY <1>5 DEF Goto, TypeOK
    <2> HIDE DEF next
    <2>3. QED
      BY <1>4, <1>5, <2>1, <2>2
  <1>6. CASE DeleteVersions(t)
    <2>1. Goto(t, "delete_secrets") /\ thread[t].pc = "delete_versions"
      BY <1>6 DEF DeleteVersions
    <2>2. /\ thread'[t].row = thread[t].row /\ thread'[t].name = thread[t].name
          /\ thread'[t].op = thread[t].op
      BY <1>1, <2>1 DEF Goto, TypeOK, ThreadState
    <2>3. QED
      BY <2>1, <2>2 DEF Taking, Keeping, Deleting
  <1>7. CASE GetVersion(t) /\ ~Finish(t)
    <2>1. PICK v \in versions, pc \in {"save_ciphertext", "save"} :
             thread' = [thread EXCEPT ![t].row.ct = v.ct, ![t].pc = pc]
      BY <1>7 DEF GetVersion
    <2> DEFINE next == [thread[t] EXCEPT !.row.ct = v.ct, !.pc = pc]
    <2>2. thread' = [thread EXCEPT ![t] = next]
      BY <2>1 DEF TypeOK
    <2>3. /\ next.pc = pc /\ next.name = thread[t].name
          /\ next.row = [thread[t].row EXCEPT !.ct = v.ct]
      BY <1>1 DEF ThreadState
    <2>4. next.row.id = thread[t].row.id
      BY <1>1, <2>3 DEF Row
    <2> HIDE DEF next
    <2>5. QED
      BY <1>4, <2>2, <2>3, <2>4 DEF Deleting
  <1>8. CASE ReadSalt(t)
    <2> DEFINE next == [thread[t] EXCEPT !.derived = env.salt, !.pc = "answer"]
    <2>1. thread' = [thread EXCEPT ![t] = next]
      BY <1>8 DEF ReadSalt, TypeOK
    <2>2. next.pc = "answer" /\ next.name = thread[t].name /\ next.row = thread[t].row
      BY <1>1 DEF ThreadState
    <2> HIDE DEF next
    <2>3. QED
      BY <1>4, <2>1, <2>2 DEF Deleting
  <1>9. CASE ReadRows(t)
    <2>1. PICK k \in Keys :
             thread' = [thread EXCEPT ![t].name = k, ![t].row = secrets[k], ![t].pc = "answer"]
      BY <1>9 DEF ReadRows
    <2>2. /\ thread'[t].pc = "answer" /\ thread'[t].name = k /\ thread'[t].row = secrets[k]
      BY <1>1, <2>1 DEF TypeOK, ThreadState
    <2>3. QED
      BY <2>2 DEF Taking, Deleting
  <1>10. CASE DeriveKey(t)
    <2>1. PICK key : thread' = [thread EXCEPT ![t].derived = key, ![t].pc = "verify"]
      BY <1>10 DEF DeriveKey
    <2> DEFINE next == [thread[t] EXCEPT !.derived = key, !.pc = "verify"]
    <2>2. thread' = [thread EXCEPT ![t] = next]
      BY <2>1 DEF TypeOK
    <2>3. next.row = thread[t].row /\ next.pc = "verify" /\ next.name = thread[t].name
      BY <1>1 DEF ThreadState
    <2> HIDE DEF next
    <2>4. QED
      BY <1>4, <2>2, <2>3 DEF Deleting
  <1>11. ASSUME NEW key, thread' = [thread EXCEPT ![t].key = key, ![t].pc = "respond"]
         PROVE  Taking(t)
    <2> DEFINE next == [thread[t] EXCEPT !.key = key, !.pc = "respond"]
    <2>1. thread' = [thread EXCEPT ![t] = next]
      BY <1>11 DEF TypeOK
    <2>2. next.row = thread[t].row /\ next.pc = "respond" /\ next.name = thread[t].name
      BY <1>1 DEF ThreadState
    <2> HIDE DEF next
    <2>3. QED
      BY <1>4, <2>1, <2>2 DEF Deleting
  <1>12. CASE VerifyKey(t) \/ ForgetOwnKey(t)
    BY <1>2, <1>5, <1>11, <1>12 DEF VerifyKey, ForgetOwnKey, Deleting
  <1>13. CASE \/ ListLiveSecrets(t) \/ ReencryptSecret(t) \/ ListAllSecrets(t) \/ ListVersions(t)
              \/ ReencryptVersion(t) \/ Commit(t) \/ ForgetSession(t) \/ Respond(t)
    BY <1>2, <1>3, <1>5, <1>13
       DEF ListLiveSecrets, ReencryptSecret, ListAllSecrets, ListVersions, ReencryptVersion,
           Commit, ForgetSession, Respond, Deleting
  <1>14. CASE \/ CreateVersion(t) \/ DeleteSecrets(t) \/ Answer(t) \/ DeadlockDetected(t)
              \/ Crash(t)
    BY <1>2, <1>14 DEF CreateVersion, DeleteSecrets, Answer, DeadlockDetected, Crash
  <1>15. QED
    BY <1>2, <1>6, <1>7, <1>8, <1>9, <1>10, <1>12, <1>13, <1>14, LookupsTake, BeginningsTake
       DEF ThreadStep, SaveStep, SecretApiStep, RekeyStep
-----------------------------------------------------------------------------
(***************************************************************************)
(* Where identities come from.  After any step a secret has the identity   *)
(* it had, a new one, or that of a copy of this very secret; and so has    *)
(* every copy.                                                             *)
(***************************************************************************)
Inherits ==
  /\ serial.row <= serial'.row
  /\ \A k \in Keys : Exists(k)' => TakesIdentity(k, secrets'[k])
  /\ \A u \in Threads :
       \/ thread'[u].row.id = 0
       \/ thread'[u].row.id = thread[u].row.id /\ thread'[u].name = thread[u].name
       \/ thread'[u].name \in Keys /\ TakesIdentity(thread'[u].name, thread'[u].row)

LEMMA RowWriteInherits ==
  ASSUME TypeOK, NEW k \in Keys, NEW row, RowWrite(k, row)
  PROVE  Inherits
  <1>1. \A j \in Keys \ {k} : secrets'[j] = secrets[j]
    BY DEF RowWrite, TypeOK
  <1>2. secrets'[k] = row /\ TakesIdentity(k, row) /\ serial.row <= serial'.row
    BY DEF RowWrite, TypeOK
  <1>3. \A j \in Keys : Exists(j)' => TakesIdentity(j, secrets'[j])
    BY <1>1, <1>2 DEF TakesIdentity, Exists
  <1>4. ASSUME NEW u \in Threads, thread'[u] # thread[u], thread'[u].row.id # 0
        PROVE  thread'[u].name = k /\ TakesIdentity(k, thread'[u].row)
    BY <1>2, <1>4 DEF RowWrite, TakesIdentity
  <1>5. QED
    BY <1>2, <1>3, <1>4 DEF Inherits

LEMMA RowNumbersStay ==
  ASSUME TypeOK, NEW t \in Threads, ThreadStep(t), ~SaveStep(t)
  PROVE  serial'.row = serial.row
  <1>1. CASE UNCHANGED serial
    BY <1>1
  <1>2. CASE CreateVersion(t) \/ VerifyKey(t)
    BY <1>2 DEF CreateVersion, VerifyKey, TypeOK
  <1>3. CASE SecretApiStep(t) /\ ~CreateVersion(t)
    BY <1>1, <1>3
       DEF SaveStep, SecretApiStep, WriteLookup, ImportLookup, RotateLookup, RestoreVersionLookup,
           GetVersion, DeleteLookup, RestoreLookup, ForceDeleteLookup, CleanupSelect,
           DeleteVersions, DeleteSecrets, GetLookup, ReadSalt, ExportSalt, ReadRows, Answer
  <1>4. CASE RekeyStep(t) /\ ~VerifyKey(t)
    BY <1>1, <1>4
       DEF SaveStep, RekeyStep, Respond, DeriveKey, ListLiveSecrets, ReencryptSecret,
           ListAllSecrets, ListVersions, ReencryptVersion, Commit, ForgetSession, ForgetOwnKey
  <1>5. CASE RekeyRequest(t) \/ DeadlockDetected(t) \/ Crash(t)
    BY <1>1, <1>5 DEF RekeyRequest, StartUnlock, Lock, ModifySession, StartAdd, StartRekey,
                      DeadlockDetected, Crash
  <1>6. QED
    BY <1>2, <1>3, <1>4, <1>5 DEF ThreadStep

LEMMA StepsInherit ==
  ASSUME TypeOK, StoreInvariant, NEW t \in Threads, Keeping(t), ThreadStep(t)
  PROVE  Inherits
  <1> USE FieldTypes
  <1>1. serial.row \in Nat
    BY DEF TypeOK, Serial
  <1>2. CASE FindsNoRow(t)
    <2>1. \A u \in Threads : thread'[u] = thread[u] \/ thread'[u].row.id = 0
      BY <1>2 DEF FindsNoRow, Finish, Idle, NoRow, TypeOK
    <2>2. QED
      BY <1>1, <1>2, <2>1 DEF FindsNoRow, Inherits, TakesIdentity, Exists
  <1>3. CASE SaveStep(t) /\ ~FindsNoRow(t)
    BY <1>3, SaveWrites, SaveFieldWrites, AddWrites, RowWriteInherits DEF SaveStep
  <1>4. CASE ~SaveStep(t)
    <2>1. /\ \A k \in Keys : Exists(k)' => secrets'[k].id = secrets[k].id
          /\ serial'.row = serial.row
      BY <1>4, RowsAreKept, RowNumbersStay DEF RowsKept
    <2>2. /\ \A u \in Threads \ {t} : thread'[u] = thread[u]
          /\ Taking(t)
      BY <1>4, StepsAlone, StepsTake DEF Alone
    <2>3. \A k \in Keys : Exists(k)' => TakesIdentity(k, secrets'[k])
      BY <2>1 DEF TakesIdentity, Exists
    <2>4. thread'[t].row.id # 0 /\ thread'[t].name \in Keys
            /\ thread'[t].row.id = secrets[thread'[t].name].id
          => TakesIdentity(thread'[t].name, thread'[t].row)
      BY DEF TakesIdentity, Exists
    <2>5. QED
      BY <1>1, <2>1, <2>2, <2>3, <2>4 DEF Inherits, Taking
  <1>5. QED
    BY <1>2, <1>3, <1>4

LEMMA StepsKeepVersions ==
  ASSUME TypeOK, NEW t \in Threads, ThreadStep(t)
  PROVE  VersionsKept
  <1>1. CASE SecretApiStep(t)
    BY <1>1, ApiLookupsOrdinary, ApiKeepsVersions, VersionsStay DEF SecretApiStep
  <1>2. CASE RekeyStep(t)
    BY <1>2, WebKeepsVersions, ApiKeepsVersions, CommitKeepsVersions, RekeyStepsAlone, VersionsStay
       DEF RekeyStep
  <1>3. CASE RekeyRequest(t)
    BY <1>3, WebKeepsVersions
  <1>4. CASE DeadlockDetected(t) \/ Crash(t)
    BY <1>4, EndsAlone, VersionsStay
  <1>5. QED
    BY <1>1, <1>2, <1>3, <1>4 DEF ThreadStep

(***************************************************************************)
(* So a secret's number stands for its name for good, and a version is of  *)
(* the secret it always was of.                                            *)
(***************************************************************************)
NameIs(id, name) ==
  /\ id # 0 /\ id < serial.row
  /\ \A k \in Keys : secrets[k].id = id => k = name
  /\ \A u \in Threads : thread[u].row.id = id => thread[u].name = name

Place(vid, k) == Exists(k) /\ \E v \in versions : v.vid = vid /\ v.sid = secrets[k].id

LEMMA NamesPersist ==
  ASSUME TypeOK, TypeOK', Inherits, NEW id \in Nat, NEW name, NameIs(id, name)
  PROVE  NameIs(id, name)'
  <1>1. serial.row \in Nat /\ serial'.row \in Nat /\ id < serial'.row
    BY DEF TypeOK, Serial, Inherits, NameIs
  <1>2. ASSUME NEW k \in Keys, NEW row, TakesIdentity(k, row), row.id = id
        PROVE  k = name
    BY <1>1, <1>2 DEF TakesIdentity, NameIs
  <1>3. \A k \in Keys : secrets'[k].id = id => k = name
    BY <1>2 DEF Inherits, Exists, NameIs
  <1>4. \A u \in Threads : thread'[u].row.id = id => thread'[u].name = name
    BY <1>2 DEF Inherits, NameIs
  <1>5. QED
    BY <1>1, <1>3, <1>4 DEF NameIs

LEMMA PlacesPersist ==
  ASSUME TypeOK, StoreInvariant, Inherits, VersionsKept,
         NEW vid, vid < serial.version, NEW k \in Keys, Place(vid, k)'
  PROVE  Place(vid, k)
  <1>1. PICK v \in versions' : v.vid = vid /\ v.sid = secrets'[k].id
    BY DEF Place
  <1>2. PICK u \in versions : u.vid = vid /\ u.sid = v.sid
    BY <1>1 DEF VersionsKept
  <1> DEFINE row == secrets'[k]
  <1>3. row.id # 0 /\ TakesIdentity(k, row) /\ u.sid = row.id
    BY <1>1, <1>2 DEF Place, Exists, Inherits
  <1> HIDE DEF row
  <1>4. Exists(k) /\ row.id = secrets[k].id
    BY <1>2, <1>3, IdentityIsOwn DEF TakesIdentity
  <1>5. QED
    BY <1>2, <1>3, <1>4 DEF Place

\* A version that no transaction has deleted stays.
LEMMA UndeletedStay ==
  ASSUME TypeOK, NEW t \in Threads, ThreadStep(t), NEW v \in versions, v.vid \notin tx[t].deleted
  PROVE  \E w \in versions' : w.vid = v.vid
  <1>1. CASE CreateVersion(t)
    BY <1>1, VersionArchives DEF Archives
  <1>2. CASE DeleteSecrets(t)
    BY <1>2 DEF DeleteSecrets
  <1>3. CASE Commit(t)
    BY <1>3, VersionAfterSame DEF Commit
  <1>4. CASE Crash(t)
    BY <1>4 DEF Crash
  <1>5. QED
    BY <1>1, <1>2, <1>3, <1>4, VersionsUntouched
-----------------------------------------------------------------------------
(***************************************************************************)
(* The order in which a rekey takes its locks.  The secrets come in key    *)
(* order; the versions, in the order of their secrets' names and, within   *)
(* one secret, newest first.  What it has written comes before what it has *)
(* listed, and nobody has deleted it.                                      *)
(***************************************************************************)
RowsOrdered(t) ==
  /\ \A r, q \in tx[t].rows : r.name = q.name => r = q
  /\ \A w \in tx[t].rowWrites, r \in tx[t].rows : w.name < r.name

WritesPresent(t) ==
  \A w \in tx[t].versionWrites :
    /\ \E v \in versions : v.vid = w.vid
    /\ \A u \in Threads : w.vid \notin tx[u].deleted

OwnersNamed(t) ==
  /\ \A o \in tx[t].owners : NameIs(o.id, o.name)
  /\ \A o, p \in tx[t].owners : o.name = p.name => o = p

Precedes(vid, o) == \A k \in Keys : Place(vid, k) => k < o.name

VersionsOrdered(t) ==
  /\ \A g, h \in tx[t].history :
       /\ g.vid = h.vid => g = h
       /\ \A j, k \in Keys : Place(g.vid, j) /\ Place(h.vid, k) => j = k
  /\ \A w \in tx[t].versionWrites, h \in tx[t].history, j, k \in Keys :
       Place(w.vid, j) /\ Place(h.vid, k) => j < k \/ (j = k /\ h.vid < w.vid)
  /\ \A o \in tx[t].owners :
       /\ \A w \in tx[t].versionWrites : Precedes(w.vid, o)
       /\ \A h \in tx[t].history : Precedes(h.vid, o)

Orderly(t) ==
  Keeping(t) /\ RowsOrdered(t) /\ WritesPresent(t) /\ OwnersNamed(t) /\ VersionsOrdered(t)

LockOrder == \A t \in Threads : Orderly(t)

\* What a hard delete takes is locked by nobody.
LEMMA DeletesUnlocked ==
  ASSUME TypeOK, NEW t \in Threads, Keeping(t), ThreadStep(t), NEW vid \in tx'[t].deleted,
         vid \notin tx[t].deleted
  PROVE  ~VersionLocked(vid)
  <1>1. CASE ~OpenStep(t)
    BY <1>1, OthersEmpty DEF Empty
  <1>2. CASE CloseTransaction(t)
    BY <1>2 DEF CloseTransaction, NoTx, TypeOK
  <1>3. CASE DeleteVersions(t)
    BY <1>3 DEF DeleteVersions, TypeOK, Transaction
  <1>4. CASE ListLiveSecrets(t) \/ ListAllSecrets(t)
    BY <1>4 DEF ListLiveSecrets, ListAllSecrets, TypeOK, Transaction
  <1>5. CASE ReencryptSecret(t) /\ ~CloseTransaction(t)
    <2>1. PICK r, w : tx' = [tx EXCEPT ![t].rows = @ \ {r}, ![t].rowWrites = @ \cup {w}]
      BY <1>5 DEF ReencryptSecret
    <2>2. QED
      BY <2>1 DEF TypeOK, Transaction
  <1>6. CASE ListVersions(t)
    <2>1. PICK o, vs : tx' = [tx EXCEPT ![t].owners = @ \ {o}, ![t].history = vs]
      BY <1>6 DEF ListVersions
    <2>2. QED
      BY <2>1 DEF TypeOK, Transaction
  <1>7. CASE ReencryptVersion(t) /\ ~CloseTransaction(t)
    <2>1. PICK v, w : tx' = [tx EXCEPT ![t].history = @ \ {v}, ![t].versionWrites = @ \cup {w}]
      BY <1>7 DEF ReencryptVersion
    <2>2. QED
      BY <2>1 DEF TypeOK, Transaction
  <1>8. QED
    BY <1>1, <1>2, <1>3, <1>4, <1>5, <1>6, <1>7 DEF OpenStep

(***************************************************************************)
(* A step of one thread leaves the others' order alone.                    *)
(***************************************************************************)
LEMMA OthersStayOrderly ==
  ASSUME TypeOK, TypeOK', StoreInvariant, LockOrder, NEW t \in Threads, ThreadStep(t),
         NEW u \in Threads \ {t}
  PROVE  Orderly(u)'
  <1>1. thread'[u] = thread[u] /\ tx'[u] = tx[u] /\ Orderly(u) /\ Keeping(t)
    BY StepsAlone DEF Alone, LockOrder, Orderly
  <1>2. Keeping(u)' /\ RowsOrdered(u)'
    BY <1>1 DEF Orderly, Keeping, RowsOrdered
  <1>3. Inherits /\ VersionsKept
    BY <1>1, StepsInherit, StepsKeepVersions
  <1>4. ASSUME NEW w \in tx[u].versionWrites
        PROVE  /\ \E v \in versions' : v.vid = w.vid
               /\ \A x \in Threads : w.vid \notin tx'[x].deleted
    <2>1. /\ \E v \in versions : v.vid = w.vid
          /\ \A x \in Threads : w.vid \notin tx[x].deleted
      BY <1>1 DEF Orderly, WritesPresent
    <2>2. VersionLocked(w.vid)
      BY DEF VersionLocked, HoldsVersion
    <2>3. w.vid \notin tx'[t].deleted
      BY <1>1, <2>1, <2>2, DeletesUnlocked
    <2>4. \A x \in Threads : w.vid \notin tx'[x].deleted
      BY <2>1, <2>3, StepsAlone DEF Alone
    <2>5. QED
      BY <2>1, <2>4, UndeletedStay
  <1>5. WritesPresent(u)'
    BY <1>1, <1>4 DEF WritesPresent
  <1>6. OwnersNamed(u)'
    <2>1. \A o \in tx[u].owners : o.id \in Nat
      BY DEF TypeOK, Transaction
    <2>2. QED
      BY <1>1, <1>3, <2>1, NamesPersist DEF Orderly, OwnersNamed
  <1>7. VersionsOrdered(u)'
    <2>1. /\ \A h \in tx[u].history : h.vid < serial.version
          /\ \A w \in tx[u].versionWrites : w.vid < serial.version
      BY DEF StoreInvariant, RekeyTrue, SameValue
    <2>2. \A k \in Keys :
            /\ \A h \in tx[u].history : Place(h.vid, k)' => Place(h.vid, k)
            /\ \A w \in tx[u].versionWrites : Place(w.vid, k)' => Place(w.vid, k)
      BY <1>3, <2>1, PlacesPersist
    <2>3. QED
      BY <1>1, <2>2 DEF Orderly, VersionsOrdered, Precedes
  <1>8. QED
    BY <1>2, <1>5, <1>6, <1>7 DEF Orderly
(***************************************************************************)
(* The steps that list, write or delete keep the order of their own thread.*)
(***************************************************************************)
LEMMA NamesAreNumbers ==
  ASSUME TypeOK, NEW t \in Threads
  PROVE  (\A r \in tx[t].rows : r.name \in Nat) /\ (\A o \in tx[t].owners : o.name \in Nat)
  <1>1. /\ tx[t].rows \subseteq [name: Keys, id: Nat, ct: Ciphertext]
        /\ tx[t].owners \subseteq [name: Keys, id: Nat]
    BY DEF TypeOK, Transaction
  <1>2. QED
    BY <1>1, KeysAssumption

LEMMA ListingSecretsOrders ==
  ASSUME TypeOK, StoreInvariant, NEW t \in Threads, Orderly(t),
         ListLiveSecrets(t) \/ ListAllSecrets(t)
  PROVE  Orderly(t)'
  <1> USE FieldTypes
  <1>1. UNCHANGED <<secrets, versions, serial>>
    BY DEF ListLiveSecrets, ListAllSecrets
  <1>2. CASE ListLiveSecrets(t)
    <2> DEFINE listed == {[name |-> k, id |-> secrets[k].id, ct |-> secrets[k].ct] :
                            k \in {k \in Keys : Live(k)}}
    <2>1. /\ tx'[t].rows = listed /\ tx'[t].rowWrites = tx[t].rowWrites
          /\ tx'[t].owners = tx[t].owners /\ tx'[t].history = tx[t].history
          /\ tx'[t].versionWrites = tx[t].versionWrites /\ tx'[t].deleted = tx[t].deleted
      BY <1>2 DEF ListLiveSecrets, TypeOK, Transaction
    <2>2. thread[t].pc = "list" /\ thread'[t].pc = "reencrypt"
      BY <1>2 DEF ListLiveSecrets, Goto, TypeOK, ThreadState
    <2>3. \A r, q \in listed : r.name = q.name => r = q
      OBVIOUS
    <2> HIDE DEF listed
    <2>4. /\ tx'[t].rowWrites = {} /\ tx'[t].owners = {} /\ tx'[t].history = {}
          /\ tx'[t].versionWrites = {} /\ tx'[t].deleted = {}
      BY <2>1, <2>2 DEF Orderly, Keeping, Rekeying
    <2>5. Keeping(t)' /\ RowsOrdered(t)'
      BY <2>1, <2>2, <2>3, <2>4 DEF Keeping, RowsOrdered, Rekeying, Deleting
    <2>6. QED
      BY <2>4, <2>5 DEF Orderly, WritesPresent, OwnersNamed, VersionsOrdered
  <1>3. CASE ListAllSecrets(t)
    <2> DEFINE all == {[name |-> k, id |-> secrets[k].id] : k \in {k \in Keys : Exists(k)}}
    <2>1. /\ tx'[t].rows = tx[t].rows /\ tx'[t].rowWrites = tx[t].rowWrites
          /\ tx'[t].owners = all /\ tx'[t].history = tx[t].history
          /\ tx'[t].versionWrites = tx[t].versionWrites /\ tx'[t].deleted = tx[t].deleted
      BY <1>3 DEF ListAllSecrets, TypeOK, Transaction
    <2>2. /\ thread[t].pc = "reencrypt" /\ thread'[t].pc = "versions" /\ tx[t].rows = {}
          /\ \A u \in Threads : thread'[u].row = thread[u].row /\ thread'[u].name = thread[u].name
      BY <1>3 DEF ListAllSecrets, Goto, TypeOK, ThreadState
    <2>3. \A o, p \in all : o.name = p.name => o = p
      OBVIOUS
    <2>4. ASSUME NEW o \in all PROVE NameIs(o.id, o.name)
      <3>1. o.name \in Keys /\ Exists(o.name) /\ o.id = secrets[o.name].id
        OBVIOUS
      <3>2. QED
        BY <3>1 DEF NameIs, StoreInvariant, IdsFresh, IdsOwned, Exists
    <2> HIDE DEF all
    <2>5. OwnersNamed(t)'
      BY <1>1, <2>1, <2>2, <2>3, <2>4 DEF OwnersNamed, NameIs
    <2>6. tx'[t].history = {} /\ tx'[t].versionWrites = {} /\ tx'[t].deleted = {}
      BY <2>1, <2>2 DEF Orderly, Keeping
    <2>7. Keeping(t)' /\ RowsOrdered(t)'
      BY <2>1, <2>2, <2>6 DEF Keeping, RowsOrdered, Rekeying, Deleting
    <2>8. QED
      BY <2>5, <2>6, <2>7 DEF Orderly, WritesPresent, VersionsOrdered
  <1>4. QED
    BY <1>2, <1>3

LEMMA WritingSecretsOrders ==
  ASSUME TypeOK, NEW t \in Threads, Orderly(t), ReencryptSecret(t), ~CloseTransaction(t)
  PROVE  Orderly(t)'
  <1>1. PICK r \in First(tx[t].rows) :
          tx' = [tx EXCEPT ![t].rows = @ \ {r},
                   ![t].rowWrites = @ \cup {[name |-> r.name, ct |-> Rewrap(t, r.ct)]}]
    BY DEF ReencryptSecret
  <1> DEFINE write == [name |-> r.name, ct |-> Rewrap(t, r.ct)]
  <1>2. /\ tx'[t].rows = tx[t].rows \ {r} /\ tx'[t].rowWrites = tx[t].rowWrites \cup {write}
        /\ tx'[t].owners = tx[t].owners /\ tx'[t].history = tx[t].history
        /\ tx'[t].versionWrites = tx[t].versionWrites /\ tx'[t].deleted = tx[t].deleted
    BY <1>1 DEF TypeOK, Transaction
  <1>3. write.name = r.name
    OBVIOUS
  <1> HIDE DEF write
  <1>4. UNCHANGED thread /\ thread[t].pc = "reencrypt"
    BY DEF ReencryptSecret
  <1>5. /\ tx'[t].owners = {} /\ tx'[t].history = {} /\ tx'[t].versionWrites = {}
        /\ tx'[t].deleted = {}
    BY <1>2, <1>4 DEF Orderly, Keeping
  <1>6. r \in tx[t].rows /\ \A q \in tx[t].rows : r.name <= q.name
    BY DEF First
  <1>7. \A q \in tx[t].rows : q.name \in Nat
    BY NamesAreNumbers
  <1>8. RowsOrdered(t)'
    BY <1>2, <1>3, <1>6, <1>7 DEF Orderly, RowsOrdered
  <1>9. Keeping(t)'
    BY <1>4, <1>5 DEF Keeping, Rekeying, Deleting
  <1>10. QED
    BY <1>5, <1>8, <1>9 DEF Orderly, WritesPresent, OwnersNamed, VersionsOrdered

\* A listed version's place is that of the secret it was listed for.
LEMMA ListingVersionsOrders ==
  ASSUME TypeOK, StoreInvariant, NEW t \in Threads, Orderly(t), ListVersions(t)
  PROVE  Orderly(t)'
  <1>1. PICK o \in First(tx[t].owners) :
          tx' = [tx EXCEPT ![t].owners = @ \ {o}, ![t].history = {v \in versions : v.sid = o.id}]
    BY DEF ListVersions
  <1>2. /\ tx'[t].rows = tx[t].rows /\ tx'[t].rowWrites = tx[t].rowWrites
        /\ tx'[t].owners = tx[t].owners \ {o}
        /\ tx'[t].history = {v \in versions : v.sid = o.id}
        /\ tx'[t].versionWrites = tx[t].versionWrites
        /\ \A u \in Threads : tx'[u].deleted = tx[u].deleted
    BY <1>1 DEF TypeOK, Transaction
  <1>3. UNCHANGED <<secrets, versions, serial, thread>> /\ thread[t].pc = "versions"
    BY DEF ListVersions
  <1>4. o \in tx[t].owners /\ \A p \in tx[t].owners : o.name <= p.name
    BY DEF First
  <1>5. /\ o.name \in Nat /\ NameIs(o.id, o.name)
        /\ \A p \in tx'[t].owners : p.name \in Nat /\ o.name < p.name
    <2>1. \A p \in tx[t].owners : p.name \in Nat
      BY NamesAreNumbers
    <2>2. QED
      BY <1>2, <1>4, <2>1 DEF Orderly, OwnersNamed
  <1>6. ASSUME NEW h \in tx'[t].history, NEW k \in Keys, Place(h.vid, k)'
        PROVE  k = o.name
    <2>1. h \in versions /\ h.sid = o.id
      BY <1>2
    <2>2. secrets[k].id = o.id
      BY <1>3, <1>6, <2>1 DEF Place, StoreInvariant, VersionsOwned
    <2>3. QED
      BY <1>5, <2>2 DEF NameIs
  <1>7. Keeping(t)' /\ RowsOrdered(t)'
    BY <1>2, <1>3 DEF Orderly, Keeping, RowsOrdered, Rekeying, Deleting
  <1>8. WritesPresent(t)'
    BY <1>2, <1>3 DEF Orderly, WritesPresent
  <1>9. OwnersNamed(t)'
    BY <1>2, <1>3 DEF Orderly, OwnersNamed, NameIs
  <1>10. \A w \in tx[t].versionWrites, k \in Keys : Place(w.vid, k)' => k < o.name
    BY <1>3, <1>4 DEF Orderly, VersionsOrdered, Precedes, Place, Exists
  <1>11. VersionsOrdered(t)'
    <2>1. \A g, h \in tx'[t].history :
            /\ g.vid = h.vid => g = h
            /\ \A j, k \in Keys : Place(g.vid, j)' /\ Place(h.vid, k)' => j = k
      BY <1>2, <1>6 DEF StoreInvariant, VersionsOwned
    <2>2. \A w \in tx'[t].versionWrites, h \in tx'[t].history, j, k \in Keys :
            Place(w.vid, j)' /\ Place(h.vid, k)' => j < k
      BY <1>2, <1>6, <1>10
    <2>3. ASSUME NEW p \in tx'[t].owners, NEW k \in Keys
          PROVE  /\ \A w \in tx'[t].versionWrites : Place(w.vid, k)' => k < p.name
                 /\ \A h \in tx'[t].history : Place(h.vid, k)' => k < p.name
      <3>1. k \in Nat
        BY KeysAssumption
      <3>2. QED
        BY <1>2, <1>5, <1>6, <1>10, <3>1
    <2>4. QED
      BY <2>1, <2>2, <2>3 DEF VersionsOrdered, Precedes
  <1>12. QED
    BY <1>7, <1>8, <1>9, <1>11 DEF Orderly

LEMMA WritingVersionsOrders ==
  ASSUME TypeOK, NEW t \in Threads, Orderly(t), ReencryptVersion(t), ~CloseTransaction(t)
  PROVE  Orderly(t)'
  <1>1. PICK v \in Newest(tx[t].history) :
          /\ \E w \in versions : w.vid = v.vid
          /\ ~VersionLocked(v.vid)
          /\ tx' = [tx EXCEPT ![t].history = @ \ {v},
                      ![t].versionWrites = @ \cup {[vid |-> v.vid, ct |-> Rewrap(t, v.ct)]}]
    BY DEF ReencryptVersion
  <1> DEFINE write == [vid |-> v.vid, ct |-> Rewrap(t, v.ct)]
  <1>2. /\ tx'[t].rows = tx[t].rows /\ tx'[t].rowWrites = tx[t].rowWrites
        /\ tx'[t].owners = tx[t].owners
        /\ tx'[t].history = tx[t].history \ {v}
        /\ tx'[t].versionWrites = tx[t].versionWrites \cup {write}
        /\ \A u \in Threads : tx'[u].deleted = tx[u].deleted
    BY <1>1 DEF TypeOK, Transaction
  <1>3. write.vid = v.vid
    OBVIOUS
  <1> HIDE DEF write
  <1>4. UNCHANGED <<secrets, versions, serial, thread>> /\ thread[t].pc = "versions"
    BY DEF ReencryptVersion
  <1>5. v \in tx[t].history /\ \A h \in tx[t].history : h.vid <= v.vid
    BY DEF Newest
  <1>6. \A h \in tx[t].history : h.vid \in Nat
    BY DEF TypeOK, Transaction, Version
  <1>7. Keeping(t)' /\ RowsOrdered(t)'
    BY <1>2, <1>4 DEF Orderly, Keeping, RowsOrdered, Rekeying, Deleting
  <1>8. WritesPresent(t)'
    <2>1. \A u \in Threads : v.vid \notin tx[u].deleted
      BY <1>1 DEF VersionLocked, HoldsVersion
    <2>2. QED
      BY <1>1, <1>2, <1>3, <1>4, <2>1 DEF Orderly, WritesPresent
  <1>9. OwnersNamed(t)'
    BY <1>2, <1>4 DEF Orderly, OwnersNamed, NameIs
  <1>10. \A vid, k : Place(vid, k)' <=> Place(vid, k)
    BY <1>4 DEF Place, Exists
  <1>11. VersionsOrdered(t)'
    <2>1. VersionsOrdered(t)
      BY DEF Orderly
    <2>2. \A h \in tx'[t].history : h \in tx[t].history /\ h.vid < v.vid
      BY <1>2, <1>5, <1>6, <2>1 DEF VersionsOrdered
    <2>3. \A w \in tx'[t].versionWrites, h \in tx'[t].history, j, k \in Keys :
            Place(w.vid, j) /\ Place(h.vid, k) => j < k \/ (j = k /\ h.vid < w.vid)
      BY <1>2, <1>3, <1>5, <2>1, <2>2 DEF VersionsOrdered
    <2>4. \A o \in tx'[t].owners, w \in tx'[t].versionWrites, k \in Keys :
            Place(w.vid, k) => k < o.name
      BY <1>2, <1>3, <1>5, <2>1 DEF VersionsOrdered, Precedes
    <2>5. QED
      BY <1>2, <1>10, <2>1, <2>2, <2>3, <2>4 DEF VersionsOrdered, Precedes
  <1>12. QED
    BY <1>7, <1>8, <1>9, <1>11 DEF Orderly
LEMMA DeletingOrders ==
  ASSUME TypeOK, NEW t \in Threads, Orderly(t), DeleteVersions(t)
  PROVE  Orderly(t)'
  <1>1. \E ids : tx' = [tx EXCEPT ![t].deleted = ids]
    BY DEF DeleteVersions
  <1>2. /\ tx'[t].rows = tx[t].rows /\ tx'[t].rowWrites = tx[t].rowWrites
        /\ tx'[t].owners = tx[t].owners /\ tx'[t].history = tx[t].history
        /\ tx'[t].versionWrites = tx[t].versionWrites
    BY <1>1 DEF TypeOK, Transaction
  <1>3. /\ thread[t].pc = "delete_versions" /\ thread'[t].pc = "delete_secrets"
        /\ thread'[t].op = thread[t].op
    BY DEF DeleteVersions, Goto, TypeOK, ThreadState
  <1>4. /\ tx'[t].rows = {} /\ tx'[t].rowWrites = {} /\ tx'[t].owners = {}
        /\ tx'[t].history = {} /\ tx'[t].versionWrites = {}
    BY <1>2, <1>3 DEF Orderly, Keeping, Rekeying
  <1>5. Keeping(t)'
    BY <1>3, <1>4 DEF Orderly, Keeping, Deleting
  <1>6. QED
    BY <1>4, <1>5 DEF Orderly, RowsOrdered, WritesPresent, OwnersNamed, VersionsOrdered

\* After a save its thread deletes nothing.
LEMMA SavesDoNotDelete ==
  ASSUME TypeOK, NEW t \in Threads, SaveStep(t)
  PROVE  thread'[t].pc \notin Deleting
  <1>1. CASE Finish(t)
    BY <1>1 DEF Finish, Idle, Deleting, TypeOK
  <1>2. CASE \E row : thread' = [thread EXCEPT ![t].row = row, ![t].pc = "version"]
    BY <1>2 DEF Deleting, TypeOK, ThreadState
  <1>3. CASE Goto(t, "version")
    BY <1>3 DEF Goto, Deleting, TypeOK, ThreadState
  <1>4. QED
    BY <1>1, <1>2, <1>3 DEF SaveStep, Save, SaveCiphertext, SaveDeletedAt, UpdateOrCreate

LEMMA ThreadStaysOrderly ==
  ASSUME TypeOK, StoreInvariant, NEW t \in Threads, Orderly(t), ThreadStep(t)
  PROVE  Orderly(t)'
  <1>1. thread'[t].pc \in Deleting => thread'[t].op # "rekey"
    BY SavesDoNotDelete, StepsTake DEF Taking, Orderly
  <1>2. CASE ~OpenStep(t)
    <2>1. Empty(t)'
      BY <1>2, OthersEmpty DEF Orderly
    <2>2. QED
      BY <1>1, <2>1
         DEF Empty, Orderly, Keeping, RowsOrdered, WritesPresent, OwnersNamed, VersionsOrdered
  <1>3. CASE CloseTransaction(t)
    <2>1. Empty(t)'
      BY <1>3 DEF CloseTransaction, NoTx, Empty, TypeOK
    <2>2. QED
      BY <1>1, <2>1
         DEF Empty, Orderly, Keeping, RowsOrdered, WritesPresent, OwnersNamed, VersionsOrdered
  <1>4. QED
    BY <1>2, <1>3, ListingSecretsOrders, WritingSecretsOrders, ListingVersionsOrders,
       WritingVersionsOrders, DeletingOrders
       DEF OpenStep

LEMMA OrderInductive ==
  TypeOK /\ TypeOK' /\ StoreInvariant /\ LockOrder /\ [Next]_vars => LockOrder'
  <1> SUFFICES ASSUME TypeOK, TypeOK', StoreInvariant, LockOrder, [Next]_vars
               PROVE  LockOrder'
    OBVIOUS
  <1>1. ASSUME NEW t \in Threads, ThreadStep(t) PROVE LockOrder'
    BY <1>1, ThreadStaysOrderly, OthersStayOrderly DEF LockOrder
  <1>2. CASE WindowPasses \/ RequireRekey \/ UNCHANGED vars
    <2>1. UNCHANGED <<versions, thread, tx, serial>>
      BY <1>2 DEF WindowPasses, RequireRekey, Others, vars
    <2>2. \A k \in Keys : secrets'[k].id = secrets[k].id
      BY <1>2, FieldTypes DEF WindowPasses, RequireRekey, vars, TypeOK, Row
    <2>3. ASSUME NEW t \in Threads PROVE Orderly(t)'
      <3>1. Orderly(t)
        BY DEF LockOrder
      <3>2. /\ \A id, name : NameIs(id, name)' <=> NameIs(id, name)
            /\ \A vid : \A k \in Keys : Place(vid, k)' <=> Place(vid, k)
        BY <2>1, <2>2 DEF NameIs, Place, Exists
      <3>3. Keeping(t)' /\ RowsOrdered(t)' /\ WritesPresent(t)'
        BY <2>1, <3>1 DEF Orderly, Keeping, RowsOrdered, WritesPresent
      <3>4. OwnersNamed(t)' /\ VersionsOrdered(t)'
        BY <2>1, <3>1, <3>2 DEF Orderly, OwnersNamed, VersionsOrdered, Precedes
      <3>5. QED
        BY <3>3, <3>4 DEF Orderly
    <2>4. QED
      BY <2>3 DEF LockOrder
  <1>3. QED
    BY <1>1, <1>2 DEF Next, ThreadStep

(***************************************************************************)
(* Two rekeys that wait for each other would each have written what comes  *)
(* after what the other has.                                               *)
(***************************************************************************)
LEMMA OrderPreventsDeadlock ==
  ASSUME TypeOK, StoreInvariant, LockOrder, NEW t \in Threads, NEW u \in Threads,
         Deadlocked(t, u), thread[t].op = "rekey", thread[u].op = "rekey"
  PROVE  FALSE
  <1>1. /\ Orderly(t) /\ Orderly(u)
        /\ thread[t].pc \notin Deleting /\ thread[u].pc \notin Deleting
        /\ tx[t].deleted = {} /\ tx[u].deleted = {}
    BY DEF LockOrder, Orderly, Keeping, Deleting
  <1>2. ASSUME NEW a \in Threads, NEW b \in Threads, Orderly(a), Orderly(b),
               WaitsFor(a, b), WaitsFor(b, a), thread[a].pc = "reencrypt",
               tx[a].deleted = {}, tx[b].deleted = {},
               thread[b].pc \notin Deleting
        PROVE  FALSE
    <2>1. PICK r \in First(tx[a].rows) : HoldsRow(b, r.name)
      BY <1>2 DEF WaitsFor
    <2>2. PICK w \in tx[b].rowWrites : w.name = r.name
      BY <2>1 DEF HoldsRow
    <2>3. r \in tx[a].rows
      BY DEF First
    <2>4. CASE thread[b].pc = "versions"
      <3>1. PICK v \in Newest(tx[b].history) : HoldsVersion(a, v.vid)
        BY <1>2, <2>4 DEF WaitsFor
      <3>2. tx[a].versionWrites = {}
        BY <1>2 DEF Orderly, Keeping
      <3>3. QED
        BY <1>2, <3>1, <3>2 DEF HoldsVersion
    <2>5. CASE thread[b].pc = "reencrypt"
      <3>1. PICK q \in First(tx[b].rows) : HoldsRow(a, q.name)
        BY <1>2, <2>5 DEF WaitsFor
      <3>2. PICK x \in tx[a].rowWrites : x.name = q.name
        BY <3>1 DEF HoldsRow
      <3>3. q \in tx[b].rows
        BY DEF First
      <3>4. x.name < r.name /\ w.name < q.name
        BY <1>2, <2>2, <2>3, <3>2, <3>3 DEF Orderly, RowsOrdered
      <3>5. r.name \in Nat /\ q.name \in Nat
        BY <2>3, <3>3, NamesAreNumbers
      <3>6. QED
        BY <2>2, <3>2, <3>4, <3>5
    <2>6. QED
      BY <1>2, <2>4, <2>5 DEF WaitsFor, Deleting
  <1>3. CASE thread[t].pc = "versions" /\ thread[u].pc = "versions"
    <2>1. PICK g \in tx[t].history, w \in tx[u].versionWrites : w.vid = g.vid
      BY <1>1, <1>3 DEF Deadlocked, WaitsFor, Newest, HoldsVersion
    <2>2. PICK h \in tx[u].history, x \in tx[t].versionWrites : x.vid = h.vid
      BY <1>1, <1>3 DEF Deadlocked, WaitsFor, Newest, HoldsVersion
    <2>3. PICK j \in Keys : Place(g.vid, j)
      BY <1>1, <2>1 DEF Orderly, WritesPresent, StoreInvariant, VersionsOwned, Place
    <2>4. PICK k \in Keys : Place(h.vid, k)
      BY <1>1, <2>2 DEF Orderly, WritesPresent, StoreInvariant, VersionsOwned, Place
    <2>5. j < k \/ (j = k /\ h.vid < g.vid)
      BY <1>1, <2>1, <2>3, <2>4 DEF Orderly, VersionsOrdered
    <2>6. k < j \/ (k = j /\ g.vid < h.vid)
      BY <1>1, <2>2, <2>3, <2>4 DEF Orderly, VersionsOrdered
    <2>7. j \in Nat /\ k \in Nat
      BY KeysAssumption
    <2>8. g.vid \in Nat /\ h.vid \in Nat
      BY DEF TypeOK, Transaction, Version
    <2>9. QED
      BY <2>5, <2>6, <2>7, <2>8
  <1>4. \/ thread[t].pc = "reencrypt" \/ thread[u].pc = "reencrypt"
        \/ thread[t].pc = "versions" /\ thread[u].pc = "versions"
    BY <1>1 DEF Deadlocked, WaitsFor, Deleting
  <1>5. QED
    BY <1>1, <1>2, <1>3, <1>4 DEF Deadlocked

(***************************************************************************)
(* Two rekeys of a project never wait for each other, whatever is saved,   *)
(* deleted, restored or destroyed meanwhile: _reencrypt_project visits     *)
(* the secrets and the versions in the ordering of their models.           *)
(***************************************************************************)
THEOREM RekeysOrdered == Spec => []RekeysNeverDeadlock
  <1>1. Init => LockOrder
    BY DEF Init, LockOrder, Orderly, Keeping, RowsOrdered, WritesPresent, OwnersNamed,
           VersionsOrdered, Idle, NoTx, Deleting
  <1>2. TypeOK /\ TypeOK' /\ StoreInvariant /\ LockOrder /\ [Next]_vars => LockOrder'
    BY OrderInductive
  <1>3. TypeOK /\ StoreInvariant /\ LockOrder => RekeysNeverDeadlock
    BY OrderPreventsDeadlock DEF RekeysNeverDeadlock
  <1>4. QED
    BY <1>1, <1>2, <1>3, TypeCorrect, StoreKept, PTL DEF Spec
=============================================================================
