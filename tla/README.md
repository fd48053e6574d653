# TLA+ verification of doctorhide

doctorhide is a Django application on PostgreSQL that keeps the secrets of projects encrypted
under keys derived from passphrases the server does not store. This directory holds TLA+ modules of
the parts that change shared state, TLC configurations that check them on small instances, and proofs
of their main safety properties for every instance.

    tlc -workers 2 -config VaultRekey.cfg MCVault      # each run is listed below
    tlapm VaultProof.tla

Paths below are relative to `src/`.

## 1. What runs where

Production is gunicorn with 2 workers of 4 threads (`Dockerfile`), PostgreSQL at READ COMMITTED in
autocommit mode (`doctorhide/settings.py`, `DATABASES`; there is no `ATOMIC_REQUESTS`), session rows in
the database, and a `LocMemCache` per worker. So a request is a sequence of statements, each committed
on its own, and any other request may run between two of them; what a request has read is a copy that
may be old when it writes. Transactions are few: the rekey, the kill switch, the two cleanup commands, the hard
deletes of Django's collector, `update_or_create` (the browser's add, `vault/views.py:203`, and the e-mail token,
`accounts/views.py:115`), the insert of `get_or_create` (`accounts/views.py:172`), django-otp's `match_token`
and Django's own admin; their writes lock rows until they end, and signal handlers run inside them. All modules follow this: a
thread has a program counter `pc`, the copies it has read, and one action per statement that can matter.

A worker's cache holds 300 entries, the default of `LocMemCache`, since `CACHES` sets no `OPTIONS`
(`doctorhide/settings.py:136`). Setting one more drops a third of them, the least recently used. Counters of failed logins (one per user name, address
and step), histories of throttles and the last uses of keys share it, so any of them can go at any time in a living worker.

## 2. Inventory

| Part | State | Operations | What is hard |
|---|---|---|---|
| Secrets API (`vault/api.py`, `cleanup_deleted_secrets`) | Secret, SecretVersion | create, put, import, rotate, restore version, soft delete, restore, force delete, cleanup; get, batch get, export, list | whole-row saves of old copies; row and version in two statements; retries with a token; deletion beside insertion; an answer made of two queries |
| Project encryption, rekey (`vault/views.py`) | Environment (salt, verifier, flag), secrets, versions | create project, unlock, lock, reveal, add, delete, rekey | one transaction over every row against all of the API; a new key that exists only if the commit succeeds; partial failure |
| Session rows (`vault/views.py`, Django) | cached unlock keys | load at the request's start, whole save at its end, sweep by the rekey | lost updates: a response writes back what the rekey swept |
| Organizations (`organizations/`) | Organization, Membership | first visit, invite, change role, remove, switch | check-then-write without a transaction |
| Accounts (`accounts/views.py`) | User, email tokens, sessions | sign up, verify email, sign in, change password, deactivate, delete | whole-row saves of old copies; a sign-in in two steps beside a change of password; names compared without case and stored with it |
| MFA (`accounts/views.py`, django-otp) | TOTP devices, backup codes | enrol, verify, issue codes, the administrator's reset | two enrolments at once; series of autocommitted statements |
| Project API keys (`vault/authentication.py`, `vault/models.py`) | ProjectAPIKey, cache of last use | mint, revoke, authenticate | row written on every authentication beside a revocation; caches that differ by worker |
| Kill switch (`vault/incident_views.py`, `emergency_revoke_all_keys`) | ProjectAPIKey, AuditEvent | revoke all of an organization | keys minted or revoked beside it; a row for each call that gets to the view or is throttled, whatever becomes of it |
| Throttle (`vault/throttling.py`) | request history in the cache | allow or refuse | unlocked read-modify-write, one history per worker, which other entries can evict |
| Failed-login alerts (`vault/alerts.py`) | counter in the worker's cache | count, alert at the threshold | unlocked read-modify-write; equality with the threshold; counters per worker, which other entries can evict; window that slides |
| Webhooks (`vault/webhooks.py`, `vault/signals.py`) | WebhookEndpoint, WebhookDelivery | send on save and delete | sent from inside transactions that may roll back and between the two statements of a write; worker dies while pending |
| Service accounts (`iam/`) | ServiceAccount, APIKey | add, edit, revoke, delete in the admin; authenticate | a page of the admin is filled in at one time and saved, with all its columns, at another |
| Audit trail, metrics, billing, `cleanup_audit_logs` | append-only rows | insert, purge | nothing reads them back to decide |
| Settings, URLs, health, `dh-get`, examples | none | | |

Interactions: the API and the browser views share the secret and version rows; the rekey rewrites them
all, changes the environment's salt and then edits other users' session rows; sessions carry keys from
one request to a later one; every save of a secret calls the webhooks before the request goes on;
memberships decide who may do any of it; deleting an account deletes
memberships; the kill switch and the browser write the key rows that every API request reads and stamps.

What makes each part correct:

- *Encryption.* Nothing is ever stored under a key that cannot be derived again; after a rekey, live
  secrets and all history are under the new key; no session keeps an old one; the salt and the ciphertexts
  of an answer fit.
- *Secrets.* The current value is in the history; history is not lost or changed; a retried write is
  applied once; a hard delete takes what was selected and nothing else.
- *Progress.* A rekey that fails or deadlocks releases its locks; every request ends.
- *Organizations.* An organization with members has an owner; only those entitled change a membership.
- *Accounts.* A change to a user stands; whoever is signed in knows the present password and has passed the
  second factor; one account has one device and one set of codes; a reset is final.
- *Keys.* A revocation that has been answered is final at once, and for good; the recorded last use can be
  trusted within a known margin.
- *Announcements.* What receivers are told has happened, what has happened is told, and the record of both is true.
- *Counting.* No run of failures that a worker keeps count of passes the threshold unnoticed; no more calls get through than
  the rate, as long as the history is kept; what is carried out is recorded, and so is what the view or the throttle refuses.

## 3. Modules

| Module | Models |
|---|---|
| `SecretStore` | abstract: a store of secrets with an append-only history |
| `VaultDb` | the rows, session store, threads, transactions and locks that the two modules below share |
| `SecretApi` | the operations of `vault/api.py`, `secret_version_restore` and the cleanup command |
| `ProjectRekey` | unlock, lock, add, key minting's session write, the rekey and its sweep, from `vault/views.py` |
| `Vault` | their composition: Init, crashes, PostgreSQL's deadlock detection, Next, fairness, properties, and the mapping to `SecretStore` |
| `VaultProof` | theorems about `Vault`, in five parts: types and salts, the store, what a rekey leaves behind, the history of a secret, deadlocks |
| `Membership`, `MembershipProof` | `organizations/views.py`, `personal_organization`, `delete_account` |
| `ApiKeys`, `ApiKeysProof` | project keys, their authentication and the kill switch |
| `ServiceKeys`, `ServiceKeysProof` | service accounts, their keys, the admin's pages, and authentication |
| `Account`, `AccountProof` | user rows and sessions, from `accounts/views.py` |
| `Mfa`, `MfaProof` | the second factor of one account, from `accounts/views.py` |
| `Webhooks`, `WebhooksProof` | `vault/webhooks.py`, `vault/signals.py` and every path that reaches them |
| `Counters`, `CountersProof` | failed-login alerts, the kill switch's throttle and its audit rows |
| `MC...` | symmetry and constants for TLC |

Every module but `ServiceKeys` takes a constant `Ops`, the requests that may be made: a run chooses the
operations whose interleavings it is about. `Max...` constants bound counters in the guards of the actions that use them
up; each is named a bound where it is declared. Operators preceded by "Mutant:" are plausible
mistakes, not part of a specification: with one in place of the operator it stands by, the property it is meant
for fails, which shows that the property can. A variable `ghost` (or `dead`, `undone`, `stale`, `late`) is history:
no action reads it to decide anything but what a request may bring along. Clients encrypt under a salt that has been served
(`ghost.issued` in `SecretApi`), and type the backup codes they have been shown (`ghost.shown` in `Mfa`).

### Vault

A project has one environment. `env` is its salt and the `requires_rekey` flag, `secrets` maps a key name
to its row (`NoRow` if there is none), `versions` is the set of version rows, `serial` the next primary
keys, `sess` the unlock key each session row caches, `tx` the uncommitted writes of each thread's open
transaction, which are the row locks it holds.

- A ciphertext is the salt of its key and the value; a key is the salt it is derived from. Decryption
  succeeds exactly with the same salt. Clients of the API encrypt under a salt the API has served.
- `WriteLookup`, `Save`, `CreateVersion` are POST and PUT (`_write_secret`): copy the row, save it whole,
  insert the version. Import (one entry at a time), rotate and restore share the last two. `Save` inserts again a row
  that was deleted since, as `Model.save` does. A restore of a version from the browser saves one column.
- `DeleteVersions`, `DeleteSecrets` are the two statements of Django's collector; the second fails on its
  foreign key when a version was inserted in between, and the transaction rolls back. All version locks
  are taken in one step, so no three transactions wait in a circle and `WaitsFor` of pairs is enough.
- `GetLookup`, `ReadSalt` are `secret_detail` and the batch get, which read the row and then the salt;
  `ExportSalt`, `ReadRows` are the export, which reads them the other way round; `Answer` sends both. A thread keeps one row
  of those it read, any one.
- `StartRekey`, `ListLiveSecrets`, `ReencryptSecret` (in key order), `ListAllSecrets`, `ListVersions`,
  `ReencryptVersion` (newest first), `Commit`, `ForgetSession` (one per session row), `ForgetOwnKey` are `project_rekey`. A ciphertext
  under another key, and a row that is gone, make the rekey roll back. The UPDATE of the environment is the last statement before the commit and one
  step with it. Loading and saving a session row in the sweep is one step. If the
  row is deleted between the two, `store.save()` raises and ends the sweep (`vault/views.py:324`): the model deletes no
  session rows, and has the sweep end there by a crash.
- `StartUnlock`, `DeriveKey`, `VerifyKey`, `ModifySession`, `Respond`: each request loads its session first and
  saves it whole at the end if it changed it; deriving the key takes long.
- `DeadlockDetected` aborts one of two transactions that wait for each other; `Crash` ends a thread anywhere,
  rolling back an open transaction.

History: `issued`, the salts that have been the environment's; `tainted`, sessions whose own response wrote
an obsolete key, or whose sweep died; `torn`, readers between whose queries a rekey committed, or whose secret was a stray;
`stray`, secrets whose last save or restore used another salt than the current one or ran beside an open
rekey; `written`, every value a secret has held; `unarchived`, values whose request died before archiving
them, the browser's, and those a rekey may write back to a row inserted again; `spent`, tokens that another write replaced or that two attempts
shared; `revived`, expired secrets restored or written under a cleanup that had selected them.

Left out: audit rows, webhooks (see `Webhooks`), metrics, payload types and tags (nothing here depends on them),
permissions, logout and session expiry, and the creation of the project: Init is a created project that
nobody has unlocked. A lookup that answers 404 is a guard that does not hold.

### SecretStore

What the vault is to its clients: `rows` with an identity, a value and a deletion mark, and a `history` of
versions. A step stores one secret's value (`Store`), appends a value it has held to the history (`Archive`), sets or clears its mark
(`Mark`), destroys secrets with their whole history (`Destroy`), or puts back values they held before (`Revert`), which is
what a rekey does to a write made between its listing and its UPDATE. There are no threads, keys,
transactions or sessions. `Vault` maps `rows` to its secrets with their values decrypted, `history` to its versions, `held` to `ghost.written`:
no interleaving, crash, deadlock or rekey shows through, a primary key never comes to name another secret, a version is never changed and
never outlives its secret or goes before it.

### Membership

`orgs` and `members` are the tables, `users` the accounts that exist. A slug is its owner's name and a
number. The role "member" stands for viewer too. A request under an organization begins in
`RequireRole` with the caller's membership as it was then; the selected organization of a session
is not kept, since a user may switch to any of theirs before any request. `member_role` and `member_remove` share lookup and
count (`GetTarget`, `CountOwners`) and differ in the write. `delete_account` checks one organization after
the other (`OtherOwners`, `OtherMembers`) before `DeleteUser`, which takes the memberships along. The
cascade to projects and the refusal because of service accounts are left out. No view makes anyone
an owner, though the views provide for several: `GrantOwnership` is an operator's statement, and external.

`stale` is history: the organizations that a request changed on the strength of a reading that no longer
held when it wrote (`Outdated`, `RoleLost`, `StillShared`, `StillAlone` say which). An operator who appoints an owner
takes the organization out.

### ApiKeys

`keys` are the rows, `cached` says until when a worker need not record a key's use again, `clock` counts
ticks, a few of which make up `LAST_USED_AT_THROTTLE_SECONDS`. A request ends by the next tick:
requests take seconds, the interval is an hour. `Authenticate` looks up and checks the row, `CheckLastUsed`, `SaveLastUsed` and `Remember`
are `_update_last_used_at`, `Serve` stands for the view. `Tick` lets cached uses expire, `Cull` drops one to make room, `Crash` all
of a worker's. `CallKillSwitch` notes the keys that exist then (`owed`);
`SelectActive` and `RevokeAll` are the snapshot and the effect of the one UPDATE. `dead` holds the
keys whose revocation has been answered, `late` says that a request's key was among them when it arrived.
`expires_at` is never set for project keys and is left out; the endpoint's denials, throttle and audit rows are `Counters`'.

### ServiceKeys

`accounts` and `keys` are the rows, with a key's account, revocation and expiry. Staff work in Django's
admin: `OpenKey` and `OpenAccount` fill in a page, `PostPage` posts it later with its fields as shown or as
edited, `SavePage` saves every column; `SelectKeys` and `RevokeKey` are the bulk action, one row after the other. A machine's request
is `Arrive`, `Authenticate` (key and account in one query), `Touch`, `SaveLastUsed` (that column only) and `Serve`. A key
expires at a tick. `dead` are the keys known to be revoked, expired, deleted or disabled; `undone` those that a page opened
before has brought back. Which uses are written down is left open here, as `ApiKeys` models it.

### Account

`users` are the rows, `mailed` who has a verification token, `session` per browser who is between the two
steps of the sign-in or signed in, and under which password. Every view that changes a user loads the row,
sets a field and saves the whole copy: `StartSignup`, `CreateUser`, `SaveTerms`, `StoreToken`, `SendMail`;
`StartVerifyEmail`, `SaveVerified`, `DeleteToken`; `StartSettings`, `SavePassword`, `Respond`. `SwitchActive`
is the administrator's change of `is_active`; `DeleteAccount` follows `Membership`'s checks; `Login` and `CompleteLogin` are
the steps before and after the second factor. All accounts have one name in several spellings, as `signup` compares without
case and the database with it. `ghost.wanted` is each row as its last writer wanted it; `overlap`, `rivals` and `carried`
mark users, signups and sign-ins that overlapped with a change.

### Mfa

`totp` are the devices, `backup` and `tokens` the sets of backup codes, `session` per browser whether the
password step has been passed and the device signed in with: `Verified` looks that device up, as
django-otp's middleware does. Enrolment is `StartEnroll`, `GetDevice`, `CreateDevice`, `VerifyToken`, `Confirm`; django-otp's
`verify_token` saves the whole copy of the device, unconfirmed as it was read. `SelectBackups`, `DeleteBackups`, `CreateBackup` and
`CreateToken` (one by one) are `_issue_backup_codes`, for an enrolment and for `reset_mfa_admin` (`StartReset`). `StartVerify`, `Match` and
`Respond` are the second step of the sign-in; `match_token` locks the confirmed devices, so it is one step. Throttling by django-otp
is a wrong code. `ghost.contested` says that two enrolments have overlapped.

### Webhooks

`secret` says whether a secret is absent, live or soft-deleted, `endpoint` whether an endpoint is active;
`deliveries` are the committed rows, `archived` the changes that have a version, `received` what the
receivers were sent, `tx` what an open transaction has written. A request's `op` says whether what it saves is committed at once
(`Autocommitted`: the API's writes, restores and deletes, the browser's delete) or with its transaction (`Transactional`: the rekey, the
browser's add, the hard deletes). `Save` stands for the save of every autocommitted operation; the others begin with `StartRekey` and `SaveInRekey`,
`StartAdd` or `StartPurge`, and end with `Commit`, which fails on a delivery to an endpoint that has been deleted. The signal
runs in the request's thread, in its transaction if it has one: `Query`, and per endpoint `CreateDelivery`, `Post`, `Settle`. `Announced` goes on with what the
request does next: `CreateVersion`, a second event, the next secret of a rekey, or the commit. A write clears the deletion mark;
the restore of a version and the add leave it as it is. What lookups do to each other is `Vault`'s matter: a lookup and its save are one step. An operator's
`SwitchEndpoint` activates, deactivates or deletes an endpoint. Payloads and signatures are left out; that one call is a request and an answer, or one of them
missing, is not.

### Counters

Per worker, `failed` is the counter of failed logins of one user from one address, and `history` the times at
which calls of the kill switch were let through; both are in the worker's cache, where a get and a set are
atomic and what happens between them is not. `StartFailure`, `GetCount`, `SetCount`, `RaiseAlert` are `track_failed_login`;
`StartCall`, `GetHistory`, `SetHistory` are `IncidentRateThrottle`,
which takes the time once (`now`), drops calls that are too old from the end of the history, and enters the new one at that time. `RecordThrottled` is
`incident_exception_handler` for a call that was held back, `RevokeAllKeys` the
view with its audit row in the same transaction, `RefuseUnread` a call that is let through and then refused by the framework: for its method, or because its
body does not parse or is a list. `Tick` expires counters, `CullCounter` and `CullHistory` evict
them to make room, `Crash` kills a worker with its threads and cache. `ghost.mixed`, `lapsed` and `crowded` mark
the workers in which two counted or were checked side by side, or a counter was dropped under a thread; `run` and `let` begin anew with
a counter and a history; `unread` are the calls that `RefuseUnread` refused.

## 4. Runs

All state spaces are explored in full. A server that has used up its bounds and has no request under way stops,
so deadlock is checked only where nothing is used up (`ServiceKeys`); that begun requests end is a property
of its own (`RequestsEnd`).

| Run | Instance | Shows | States |
|---|---|---|---|
| `VaultRekey.cfg` | 2 secrets, 2 row ids, 2 versions, 2 values, 2 threads, 2 rekeys; put, rotate, version restore, delete, restore, force delete | `NoOrphanCiphertext`, `LiveSecretsReadable`, `RekeysNeverDeadlock`, `RekeyCoversHistory`, `StoreImplemented` | 1.6 M |
| `VaultSessions.cfg` | 1 secret, 2 sessions, 2 threads, 2 rekeys; unlock, lock, add, minting, put, get, export, the rekey flag, crashes | `TypeOK`, `AnswersDecryptable`, `ObsoleteKeysAccounted` | 1.9 M |
| `VaultHistory.cfg` | 1 key name, 2 row ids, 2 versions, 2 values, 1 token, 2 threads; every write of the API, the cleanup, time, crashes | `CurrentValueArchived`, `RetriesNotApplied`, `CleanupSparesTheRest`, `StoreImplemented` | 1.9 M |
| `VaultLiveness.cfg` | 1 secret, 2 threads, 2 rekeys; put, force delete | `RequestsEnd`, under `FairSpec` | 23 k |
| `Membership.cfg` | 3 users, 2 threads, 2 organizations, 3 memberships; every operation, crashes | `TypeOK`, `OwnerKept`, `ChangesAuthorized` | 3.1 M |
| `ApiKeys.cfg` | 1 key, 2 threads on a worker each, interval of 2 ticks, 6 times; every operation, entries evicted, crashes | `TypeOK`, `DeadKeysRefused`, `LastUseKnown`, `RevokedForGood` | 1.0 M |
| `ServiceKeys.cfg` | 1 account, 2 keys, 2 of the staff, 1 thread, 2 times; every operation | `TypeOK`, `DeadKeysRefused` | 4.1 M |
| `Account.cfg` | 2 spellings of one name, 2 browsers, 2 threads, 2 users, 2 passwords; every operation, crashes | `TypeOK`, `RowsAsWanted`, `SignInsCurrent`, `NoTwins` | 1.2 M |
| `Mfa.cfg` | 2 browsers, 2 threads, 2 devices, 3 sets of one code; every operation, crashes | `TypeOK`, `DevicesConsistent`, `CodesReplaced`, `ResetFinal` | 1.6 M |
| `Webhooks.cfg` | 1 secret, 2 endpoints, 2 threads, 2 changes, 1 switch; every operation, crashes | `TypeOK`, `DeliveriesTrue`, `ReceiptsTrue`, `ChangesAnnounced`, `PendingAccounted`, `ChangesArchived` | 2.9 M |
| `Counters.cfg` | 3 threads on 2 workers, threshold 2, window 2, rate 1 in 2 ticks, 3 failures, 2 calls, 4 times, entries evicted, crashes | `TypeOK`, `AlertsRaised`, `RateKept`, `CallsRecorded` | 3.5 M |

The bounds let the interesting cases happen. Two rekeys of two secrets are the least for lock orders to
conflict, and the second rekey meets what the first left behind. Two threads already interleave each pair of operations at each
statement; no guard counts to more than one other thread. Two row ids are needed to see a name deleted and created
again, two versions to see a value archived after the next one, or a retry applied twice. Three
users are an owner, a second owner and someone who is neither; two organizations let a request touch the wrong
one. In `Counters`, two threads share one worker's cache and the third has its own; in `ApiKeys`, where a
thread meets in the cache what its own last request left there, two threads on two workers do. An interval of 2 ticks is the least
that is longer than a request (`TimeAssumption`), and in six times the lag of
`LastUseKnown` reaches the 4 it allows: one worker's save of a use at 0 comes after the other's save of a use at 1, which the other
remembers at 2, until 4; the request it relies on this for, at 3, is served at 4, and the row still says 0. One key suffices for `ApiKeys`, since rows meet in the kill switch only; `ServiceKeys` has two, because the admin's
list page changes several in one request. Two enrolments can share a device or have one each, and a third set of
codes can replace theirs. Two spellings are one name to a lookup that ignores case, and two users are twins. Two
endpoints make a delivery that succeeds beside one that does not. With threshold 2, three failures can pass it with
and without one lost, and four times let a window end. What the proofs of section 5 cover is free of all these bounds.

**Fairness.** `FairSpec` asks for weak fairness of `Proceed(t)`: a request under way executes its next statement,
a statement that waits for a row lock goes on once the lock is free, and PostgreSQL breaks deadlocks
(`deadlock_timeout`). Weak fairness suffices there because the bound on salts lets only a few rekeys compete for
the row; it stands for PostgreSQL's first-come queue of waiters. Nothing obliges users to send requests, and
nothing that uses fairness allows crashes.

### What the code does not do

One run checks a statement of the code's own documentation, and TLC finds a counterexample: `RekeyDeleted.cfg`, `RekeyCoversEverySecret`. A
rekey re-encrypts every secret (`docs/INCIDENT_RESPONSE.md:163`, `vault/views.py:379`), but a soft-deleted secret stays under the
old key; restored, it cannot be read, and the next rekey fails on it.

A second statement does not hold either, as `CallsRecorded` has to admit: "every call — successful, denied, throttled — is recorded"
(`vault/incident_views.py:94`; also `docs/INCIDENT_RESPONSE.md:127` and `vault/throttling.py:33`). A call whose body does not parse or is a list
(`vault/incident_views.py:117`), or that is not a POST, passes the throttle, is refused, and leaves no row, since the exception handler
(`vault/exception_handler.py:79`) records throttled calls only. Without its exception `unread`, `CallsRecorded` fails in `Counters.cfg`.

The passing properties of the other runs have exceptions, each marked by a history variable and drawn as narrowly as the code
allows: outside them the property holds. These are the gaps behind them.

| Exception | What the code does |
|---|---|
| `tainted` | an unlock that began before a rekey's commit saves its session, with the old key, after the sweep that drops the cached key from all sessions (`vault/views.py:382`) |
| `stray` | a write under an old salt, or beside an open rekey, leaves its secret under the old key |
| `torn` | a reader is given the ciphertext of one moment and the salt of another |
| `unarchived` | `secret_add` creates no version, though every update is said to (`vault/models.py:284`); nor does a worker that dies between the save and the version; and a rekey may write back what it listed of a secret that was destroyed and inserted again |
| `spent` | only the last token is kept: a retry delayed past another write is applied again (`vault/api.py:156`) |
| `revived` | the cleanup destroys a secret restored after its SELECT |
| `stale` | two owners demote each other, each having counted two (`organizations/views.py:109`), and the like |
| `undone` (`ServiceKeys`) | an admin page opened before a revocation of a service key and saved after it takes the revocation back, and may wipe `last_used_at` |
| `contested` | two enrolments that overlap replace each other's codes or device |
| `overlap` | a page of the account saves the whole copy of the user it loaded over another's change, or inserts a deleted user again |
| `carried` | a password changed between the two steps of a sign-in does not end it; nor before a signup's response |
| `rivals` | two signups see the same name free, in two spellings |
| `undone` (`Webhooks`) | an event of a rekey, a browser's add or a hard delete is sent from a transaction that then rolls back |
| `excused` | a worker that dies leaves its delivery pending (outside a transaction), events unsent and its version uncreated; nothing retries. A purge of the secret, by another request, or a deletion of the endpoint breaks off a request the same; a purge does not excuse its own announcements |
| `mixed`, `lapsed`, `crowded` | two threads of one worker read a counter before either writes it, or it expires or is evicted between a get and a set |
| `run` and `let` beginning anew | an evicted counter or history lets a run of failures, or calls beyond the rate, go on unnoticed in a living worker |
| `unread`, `lost` | a call refused before its body is read leaves no row; nor does one whose row cannot be written, or whose worker dies |

Read while modelling, and not checked by a run:

- A force delete removes the row entirely (`vault/api.py:303`), but a rotation that saves its copy afterwards inserts
  the row again, without its history.
- After the administrator's reset of a second factor the backup codes cannot be used: without a confirmed device
  the second step sends the user to enrol.
- `docs/INCIDENT_RESPONSE.md:126` promises 3 calls of the kill switch per hour and superuser; the history is kept per worker.
- Calls of the kill switch without authentication are refused before the throttle and not recorded either. A throttled call that names an organization
  that does not exist loses its row to the foreign key; the handler logs that and goes on.
- `docs/SECURITY.md:95` speaks of 5 failed logins within 15 minutes; each failure renews the window.
- `emergency_revoke_all_keys` says its audit row records the cutoff and the number of keys, and the command stores
  neither (the endpoint stores both).

## 5. Proofs

Checked by TLAPS for any number of keys, users, sessions, threads and workers, and for any bounds. The
assumptions are those the modules name: bounds are natural numbers, `NoVal`-like values lie
outside the sets they extend, names of secrets are numbers, a kill switch's keys are keys, threads have a process and are
finitely many (where requests are counted), limits and periods are positive, secrets and endpoints are visited in the order of their numbers,
and the interval between two records of a key's use is longer than one request. The last is needed: with an interval
of one tick `LastUseKnown` fails.

| Theorem | Statement |
|---|---|
| `VaultProof!TypeCorrect` | `Spec => []TypeOK` |
| `VaultProof!SaltsIssued` | `Spec => []SaltInvariant` |
| `VaultProof!NothingOrphaned` | `Spec => []NoOrphanCiphertext` |
| `VaultProof!StoreKept` | `Spec => []StoreInvariant` |
| `VaultProof!VaultImplementsStore` | `Spec => StoreImplemented` |
| `VaultProof!SessionsAccounted` | `Spec => []ObsoleteKeysAccounted` |
| `VaultProof!LiveSecretsStayReadable` | `Spec => []LiveSecretsReadable` |
| `VaultProof!HistoryRekeyed` | `Spec => RekeyCoversHistory` |
| `VaultProof!AnswersFitTogether` | `Spec => []AnswersDecryptable` |
| `VaultProof!CleanupSpares` | `Spec => CleanupSparesTheRest` |
| `VaultProof!ValuesArchived` | `Spec => []CurrentValueArchived` |
| `VaultProof!RetriesOnce` | `Spec => []RetriesNotApplied` |
| `VaultProof!RekeysOrdered` | `Spec => []RekeysNeverDeadlock` |
| `MembershipProof!MembershipTypeCorrect` | `Spec => []TypeOK` |
| `MembershipProof!OwnerNeverLost` | `Spec => []OwnerKept` |
| `MembershipProof!ChangesStayAuthorized` | `Spec => ChangesAuthorized` |
| `ApiKeysProof!ApiKeysTypeCorrect` | `Spec => []TypeOK` |
| `ApiKeysProof!RevocationStands` | `Spec => RevokedForGood` |
| `ApiKeysProof!RevokedKeysRefused` | `Spec => []DeadKeysRefused` |
| `ApiKeysProof!LastUseReliable` | `Spec => []LastUseKnown` |
| `ServiceKeysProof!ServiceKeysTypeCorrect` | `Spec => []TypeOK` |
| `ServiceKeysProof!DeadServiceKeysRefused` | `Spec => []DeadKeysRefused` |
| `AccountProof!AccountTypeCorrect` | `Spec => []TypeOK` |
| `AccountProof!ChangesStand` | `Spec => []RowsAsWanted` |
| `AccountProof!NamesStayUnique` | `Spec => []NoTwins` |
| `AccountProof!SignInsStayCurrent` | `Spec => []SignInsCurrent` |
| `MfaProof!MfaTypeCorrect` | `Spec => []TypeOK` |
| `MfaProof!DevicesStayConsistent` | `Spec => []DevicesConsistent` |
| `MfaProof!CodesStayReplaced` | `Spec => []CodesReplaced` |
| `MfaProof!ResetStaysFinal` | `Spec => []ResetFinal` |
| `WebhooksProof!WebhooksTypeCorrect` | `Spec => []TypeOK` |
| `WebhooksProof!RecordsAreTrue` | `Spec => []DeliveriesTrue` |
| `WebhooksProof!ReceiptsAreTrue` | `Spec => []ReceiptsTrue` |
| `WebhooksProof!ChangesStayAnnounced` | `Spec => []ChangesAnnounced` |
| `WebhooksProof!PendingStaysAccounted` | `Spec => []PendingAccounted` |
| `WebhooksProof!ChangesStayArchived` | `Spec => []ChangesArchived` |
| `CountersProof!CountersTypeCorrect` | `Spec => []TypeOK` |
| `CountersProof!CallsStayRecorded` | `Spec => []CallsRecorded` |
| `CountersProof!AlertsStayRaised` | `Spec => []AlertsRaised` |
| `CountersProof!RateStaysKept` | `Spec => []RateKept` |

*NothingOrphaned.* That stored salts have been issued is not inductive: a thread about to save a copy, a session with a
cached key and an open rekey all hold salts that will be stored. `SaltInvariant` adds that copies and sessions
carry issued salts only, that an open rekey writes under its own new salt only, and that its writes are empty outside its
transaction. The commit makes the new salt the environment's in the same step that stores the writes; a
rollback or crash discards both.

*VaultImplementsStore.* `StoreInvariant` says that primary keys are fresh and owned by one name for good, also in the copies
of threads and the lists of open transactions; that what rows, copies and a rekey's lists hold has been written; that
versions are unique and belong to an existing secret; that a rekey's copies of versions are true; and that the rows it has written exist, since their locks
keep the hard deletes away. Then each action is one of the store's or stutters: a save is `Store`, a new version `Archive`,
the second statement of a hard delete `Destroy`, a commit `Revert` or a stutter, according to whether someone wrote beside it.

*Rekeys* (`SessionsAccounted` to `AnswersFitTogether`). Sessions are left to clean only while their rekey sweeps, so a session with an obsolete key is one of them, or tainted. In
an open rekey each live secret is still listed, or written, or a stray; so at the commit none is under the old key. Each
version older than the rekey's mark belongs to a secret yet to be listed, or is listed, or is written. A reader's salt is the environment's, or a
rekey has committed since and has made it torn.

*History* (`CleanupSpares` to `RetriesOnce`). A primary key the cleanup has selected stays expired or is revived, and never comes to name another secret. The
current value of a secret has a version, or its thread is about to create one, or it is excused; what a rekey has
listed or written must be as well, because its commit makes it current again. For a token that has not been spent: it is applied at
most once, and once applied or saved it is the secret's own; no other attempt under it has saved or may still
save. A second attempt finds it and answers without writing.

*RekeysOrdered.* `LockOrder` says that a rekey writes the secrets in key order, and the versions in the order of their secrets'
names and, within one secret, newest first: what it has written comes before what it has listed. Two rekeys list at different times, so the
order must not change in between. It does not: a secret's number stands for one name for good, even when a stale copy inserts a
destroyed secret again (`NameIs`), and a version never changes its secret (`Place`). A version a rekey has written cannot be deleted, because it is locked. If each
of two rekeys waited for the other, each would have written what comes after the other's next row. A cycle with a hard delete
remains possible, and is what `DeadlockDetected` resolves.

*OwnerNeverLost.* `OwnerInvariant` adds that a primary key names one membership for good (`IdsUnique`), and that a thread about to
write an owner's membership has counted owners who are not exactly one (`TargetCounted`). If the owners are still those it counted, at
least one other remains; if they are not, the organization becomes `stale`. If the target is no owner and has not
become one, all owners stay. An invitation finds its caller's membership still there, so the organization had members and
hence an owner; a deletion finds another owner, or nobody else, in each organization it owned.

*ChangesStayAuthorized.* `AllChecked` adds that a request past its lookup has a target of its own organization, and an owner's only if
its caller was an owner. With `IdsUnique` the row it writes is still of that organization; if it has become an owner's, the write is outdated.

*RevokedKeysRefused.* `RefusalInvariant` adds that an answered revocation is in the row; that a kill switch about to update has
selected each key it owes or finds it revoked; and that a request past its lookup did not arrive late. The lookup
reads the row itself, and no write to the row clears the flag (`RevocationStands`): the
authentication saves `last_used_at` alone.

*LastUseReliable.* A worker whose cache still holds a key skips the record, so the column may be old when a request is served; and a
recorder that is late may set it back, by one tick, because a request ends by the next. The least time all may still agree on, `Floor`, never
decreases; what the caches hold and what has been served lies within two intervals of it.

*DeadServiceKeysRefused.* A dead key's row is revoked, expired, deleted or disabled unless one of the staff has undone it, and a request that
has looked up its key arrived before the key was dead, or found it so.

*Types of the account, its second factor and the counters.* A request that will take a primary key is let in only while there is room, and takes the
key several steps later. `RoomKept` counts the requests that have still to take one: together with the next key they stay below the bound. This
is where the threads must be finitely many; `CountsBounded` says the same of the failures.

*ChangesStand, SignInsStayCurrent, NamesStayUnique.* `CopiesTrue` adds that a copy a request will save is still the row, and the only copy, unless the user is in
`overlap`: so a save changes the one field it is about. A session's recorded password is the one that was typed, or, between the two steps,
the user's own (`SessionsTrue`). A signup about to insert its user is alone, and no user exists yet, or `rivals` holds (`SignupsAlone`).

*DevicesStayConsistent.* While enrolments do not overlap, the account has one device at most, and an enrolment under way finds none confirmed, none at all
when it is about to create one, and none but the one it has a copy of afterwards (`EnrolsAlone`). So the saves of its copy, which would un-confirm a
confirmed device, meet none.

*CodesStayReplaced.* An issuance that nobody overlaps has found all sets, then none is left, then its own is the only one with the codes made
so far (`IssuesAlone`). A sign-in meanwhile takes no code of the new set, since none of it has been shown (`SetsOwned`).

*ResetStaysFinal.* A device that a session or a request signs in with was confirmed, and stays so until a reset removes it (`FactorsLast`): only `verify_token`
un-confirms, and it runs beside no confirmed device. Nobody has a copy of a removed device to save (`RemovedGone`), because an
enrolment under way means there was no confirmed device to remove. For backup codes, `SignedOut` follows a reset through its statements: whoever was signed in has a set that
the reset has selected, or that is gone; a new set has a new key (`KeysGiven`), so it does not let them back in.

*Webhooks.* In `WebhooksProof`, a rekey, an add and a hard delete are one case: what each has written waits in `tx` until its commit. A change is one request's own until it stands (`ChangesOwned`), and a request has no row yet for the events and endpoints still to come (`RowsNew`), so
each call has one row. `RecordInvariant` adds that a success that has still to be written was received. `DueInvariant` says that what a request
needs for its next write is there, or it is excused (`ServedAll`); that a pending row is the call being made; that a version is
there or its request is before it; and, of each event of a change and each endpoint active all the while, that it has been settled or is to come
(`AnnouncementsDue`), in an open transaction as well as outside, so that a commit carries it over and a rollback loses both.

*AlertsStayRaised.* Unless the counter was dropped under a thread, by its expiry or by another entry, what a thread has read is no more than the failures that have come (`AlertTrue`), and a thread that has read
the threshold or more finds the alert raised or being raised. Each writes one more than it has read, so the count never skips the threshold.

*RateStaysKept.* Of the calls let through since a moment, the history has an entry each, at different places (`Remembers`), so there are no more
of them than it is long. Trimming drops entries from the end only up to the first that is recent, a new entry needs a place, and a call is let
through only while the history is shorter than the rate; a window that ends earlier than now has been counted already. A history that is
evicted has nothing more to tell, and the calls let through are counted from there.

## 6. Only model-checked

Every invariant and every action property of the passing runs is proved, and the refinement. What TLC alone checks: `RequestsEnd`, a liveness property under
fairness, which is out of the prover's reach, as is `ENABLED`; and the counterexample to `RekeyCoversEverySecret`. No proof needs induction
over data, but for the library's fact that a set of natural numbers has a least one, and no module has a recursive definition.

## 7. Not modelled

- The listing of secrets with its pages and filters, the descriptions and the list of versions: each answers from one query
  and changes nothing.
- `generate_password` and the format of tokens: pure functions of random bytes.
- The permission classes of the API: each is one lookup at the start of a request, and nothing of what they read is
  written by what they guard. The models start behind them.
- `project_create`: the environment its signal seeds is replaced in the same request; a crash in between leaves a project whose
  passphrase nobody knows and that has no secret yet.
- Other writers of a user's row: the password reset (`accounts/urls.py:25`) and the admin's forms, for passwords too, load and save the
  whole row as `Account`'s views do, and would join `overlap` like them. `SwitchActive` stands for the admin's change form, as a change of
  that one column at once.
- The deletion of a user in the admin (`accounts/admin.py:32`), which asks nobody whether an owner is left: `OwnerKept` is about the views.
- The code that confirms the deletion of an account (`accounts/views.py:299`): it spends a backup code, as a sign-in does.
- Logout and expiry of sessions as far as they take unlock keys with them: they drop a cached key, as `Lock` does.
- Billing (tables no code uses), the audit trail and the metrics (written, never read back to decide anything), the
  cleanup of audit rows (one DELETE of rows nothing refers to).
- A second personal organization, which two first requests of one user may create: `Membership` has it happen, and no
  property forbids it, since every other view works with several.
- Settings, URLs, templates, `dh-get` and the examples: no shared state. The models take the number of workers and threads, the
  database's isolation and the session engine from the settings.

Tests make up most of the Python lines of the repository; they are read for what they say of the code and not modelled.
