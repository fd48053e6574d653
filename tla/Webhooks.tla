------------------------------- MODULE Webhooks -------------------------------
(***************************************************************************)
(* Outbound webhooks, vault/webhooks.py and vault/signals.py.  Saving a    *)
(* secret, or deleting its row, runs emit_webhook in the same thread: the  *)
(* endpoints are queried, and for each one that subscribes to the event a  *)
(* delivery row is created, the receiver is called over HTTP, and the row  *)
(* is saved with the outcome.  Two requests send a second event of their   *)
(* own.                                                                    *)
(*                                                                         *)
(* Outside a transaction every statement is committed on its own, so the   *)
(* receiver hears of a change that stands.  The rekey, the hard deletes    *)
(* and the browser's add (update_or_create opens a transaction of its own) *)
(* save inside one: their deliveries stand or fall with them, the calls do *)
(* not.  What the lookups of concurrent writes do to each other is Vault's *)
(* matter: here a lookup and its save are one step.                        *)
(***************************************************************************)
EXTENDS Naturals, FiniteSets

CONSTANTS Secrets,     \* primary keys: a rekey visits the secrets in order
          Endpoints,   \* primary keys: an event visits the endpoints in order
          Subscribed,  \* [Endpoints -> SUBSET Events], WebhookEndpoint.events
          Threads,
          Ops,         \* the requests that may be made
          MaxChanges,  \* bound: saves and deletions of secrets
          MaxSwitches  \* bound: times an operator touches an endpoint

Events == {"created", "updated", "rotated", "deleted"}

ASSUME OrderAssumption == Secrets \subseteq Nat \ {0} /\ Endpoints \subseteq Nat \ {0}
ASSUME SubscribedAssumption == Subscribed \in [Endpoints -> SUBSET Events]
ASSUME BoundsAssumption == MaxChanges \in Nat /\ MaxSwitches \in Nat

VARIABLES secret,      \* Secret rows: none, live or soft-deleted
          endpoint,    \* WebhookEndpoint rows, by primary key
          deliveries,  \* WebhookDelivery, committed
          archived,    \* SecretVersion: the changes that have one
          received,    \* what the receivers were sent
          serial,      \* the next change; switches of endpoints
          thread,      \* what each thread is doing
          tx,          \* what its open transaction has written
          ghost        \* history, for the properties only

vars == <<secret, endpoint, deliveries, archived, received, serial, thread, tx, ghost>>

Changes == 1..MaxChanges

Call == [endpoint: Endpoints, change: Changes, event: Events]
Delivery == [call: Call, status: {"pending", "success", "failed"}]

First(S) == CHOOSE n \in S : \A m \in S : n <= m
-----------------------------------------------------------------------------
(***************************************************************************)
(* A request: the secret it saves, the change and the event it announces,  *)
(* the endpoints still to visit, the answer of the last one, and for a     *)
(* rekey the secrets still to save.                                        *)
(***************************************************************************)
Autocommitted == {"put", "rotate", "restore", "delete", "web_delete"}
Transactional == {"add", "rekey", "purge"}
OpNames == {"idle"} \cup Autocommitted \cup Transactional
Pcs == {"idle", "query", "send", "post", "settle", "version", "rekey", "commit"}

Idle == [op |-> "idle", pc |-> "idle", secret |-> 0, change |-> 0, event |-> "none",
         targets |-> {}, answer |-> "pending", rest |-> {}]

ThreadState ==
  [op: OpNames, pc: Pcs, secret: Secrets \cup {0}, change: Changes \cup {0},
   event: Events \cup {"none"}, targets: SUBSET Endpoints,
   answer: {"pending", "success", "failed"}, rest: SUBSET Secrets]

NoTx == [changes |-> {}, rows |-> {}, deliveries |-> {}]
Transaction == [changes: SUBSET Changes, rows: SUBSET Secrets, deliveries: SUBSET Delivery]

InTransaction(t) == thread[t].op \in Transactional
Locked(s) == \E t \in Threads : s \in tx[t].rows

IsIdle(t, op) == op \in Ops /\ thread[t] = Idle
Goto(t, pc) == thread' = [thread EXCEPT ![t].pc = pc]

ChangeRoom == serial.change <= MaxChanges

(***************************************************************************)
(* History: "due" holds the events each change has to announce; "steady"   *)
(* the endpoints that have been active and untouched since it was made;    *)
(* "versioned" the changes that are to have a version;                     *)
(* "committed" the changes that stand, "undone" those a transaction took   *)
(* back; "excused" those whose request died, or had its secret purged or   *)
(* an endpoint deleted under it.                                           *)
(***************************************************************************)
GhostState ==
  [due: [Changes -> SUBSET Events], steady: [Changes -> SUBSET Endpoints],
   versioned: SUBSET Changes, committed: SUBSET Changes, undone: SUBSET Changes, excused: SUBSET Changes]

Active == {e \in Endpoints : endpoint[e] = "active"}

Begin(c, events, g) == [g EXCEPT !.due[c] = events, !.steady[c] = Active]

Working(t) == ({thread[t].change} \cup tx[t].changes) \ {0}

Finish(t) == thread' = [thread EXCEPT ![t] = Idle]

\* An error ends the request, and rolls its transaction back if it has one.
Fail(t) ==
  /\ ghost' = [ghost EXCEPT !.undone = @ \cup tx[t].changes]
  /\ tx' = [tx EXCEPT ![t] = NoTx]
  /\ Finish(t)
-----------------------------------------------------------------------------
(***************************************************************************)
(* Saving outside a transaction: the row is committed, then announced.     *)
(*   put         POST, PUT, import, a version restored: a version follows  *)
(*   rotate      the same, and "rotated" after the version                 *)
(*   restore     of a soft-deleted secret: the save only                   *)
(*   delete      DELETE of the API, and "deleted" after the save           *)
(*   web_delete  the browser's delete: the save only                       *)
(***************************************************************************)
MaySave(op, s) ==
  CASE op = "put" -> TRUE
    [] op = "restore" -> secret[s] = "deleted"
    [] op \in {"rotate", "delete", "web_delete"} -> secret[s] = "live"

\* A write clears the deletion mark, and a restored version leaves it as it is.
After(op, s) ==
  CASE op = "put" -> {"live"} \cup ({secret[s]} \ {"none"})
    [] op \in {"rotate", "restore"} -> {"live"}
    [] op \in {"delete", "web_delete"} -> {"deleted"}

Save(t) ==
  \E op \in Autocommitted, s \in Secrets :
    LET event == IF secret[s] = "none" THEN "created" ELSE "updated"
        second == CASE op = "rotate" -> {"rotated"} [] op = "delete" -> {"deleted"}
                    [] OTHER -> {}
    IN /\ IsIdle(t, op) /\ ChangeRoom
       /\ MaySave(op, s) /\ ~Locked(s)
       /\ \E state \in After(op, s) : secret' = [secret EXCEPT ![s] = state]
       /\ serial' = [serial EXCEPT !.change = @ + 1]
       /\ thread' = [thread EXCEPT ![t] = [Idle EXCEPT !.op = op, !.pc = "query",
                       !.secret = s, !.change = serial.change, !.event = event]]
       /\ ghost' = [Begin(serial.change, {event} \cup second, ghost)
                      EXCEPT !.committed = @ \cup {serial.change},
                             !.versioned = IF op \in {"put", "rotate"}
                                             THEN @ \cup {serial.change} ELSE @]
       /\ UNCHANGED <<endpoint, deliveries, archived, received, tx>>

(***************************************************************************)
(* emit_webhook: the active endpoints that subscribe to the event.         *)
(***************************************************************************)
Query(t) ==
  /\ thread[t].pc = "query"
  /\ thread' = [thread EXCEPT ![t].pc = "send",
       ![t].targets = {e \in Active : thread[t].event \in Subscribed[e]}]
  /\ UNCHANGED <<secret, endpoint, deliveries, archived, received, serial, tx, ghost>>

ThisCall(t) ==
  [endpoint |-> First(thread[t].targets), change |-> thread[t].change, event |-> thread[t].event]

\* Mutant: delivery rows are committed at once, in a transaction or not.
WriteAtOnce(t, old, new) ==
  /\ deliveries' = (deliveries \ old) \cup new
  /\ UNCHANGED tx

\* A delivery row is written in the transaction, or committed at once.
Write(t, old, new) ==
  IF InTransaction(t)
    THEN /\ tx' = [tx EXCEPT ![t].deliveries = (@ \ old) \cup new]
         /\ UNCHANGED deliveries
    ELSE /\ deliveries' = (deliveries \ old) \cup new
         /\ UNCHANGED tx

Pending(t) == [call |-> ThisCall(t), status |-> "pending"]

(***************************************************************************)
(* send: the row is created pending.  Its foreign key fails if the         *)
(* endpoint is gone; in a transaction, not before the commit.  Nothing     *)
(* catches that error: it comes out of Secret.save().                      *)
(***************************************************************************)
CreateDelivery(t) ==
  /\ thread[t].pc = "send" /\ thread[t].targets # {}
  /\ IF endpoint[First(thread[t].targets)] = "none" /\ ~InTransaction(t)
       THEN /\ Fail(t)
            /\ UNCHANGED deliveries
       ELSE /\ Write(t, {}, {Pending(t)})
            /\ Goto(t, "post")
            /\ UNCHANGED ghost
  /\ UNCHANGED <<secret, endpoint, archived, received, serial>>

\* The call, which succeeds, or arrives and fails or times out, or does not arrive.
Post(t) ==
  /\ thread[t].pc = "post"
  /\ \E arrives \in BOOLEAN, answer \in {"success", "failed"} :
       /\ answer = "success" => arrives
       /\ received' = IF arrives THEN received \cup {ThisCall(t)} ELSE received
       /\ thread' = [thread EXCEPT ![t].answer = answer, ![t].pc = "settle"]
  /\ UNCHANGED <<secret, endpoint, deliveries, archived, serial, tx, ghost>>

\* Mutant: the outcome is not saved.
SettleNothing(t) ==
  /\ thread[t].pc = "settle"
  /\ thread' = [thread EXCEPT ![t].pc = "send", ![t].targets = @ \ {First(@)},
                              ![t].answer = "pending"]
  /\ UNCHANGED <<secret, endpoint, deliveries, archived, received, serial, tx, ghost>>

\* Mutant: the outcome goes to a row of its own.
SettleAnother(t) ==
  /\ thread[t].pc = "settle"
  /\ Write(t, {}, {[Pending(t) EXCEPT !.status = thread[t].answer]})
  /\ thread' = [thread EXCEPT ![t].pc = "send", ![t].targets = @ \ {First(@)},
                              ![t].answer = "pending"]
  /\ UNCHANGED <<secret, endpoint, archived, received, serial, ghost>>

\* Mutant: an answer that is an error ends the request.
SettleOrFail(t) ==
  /\ thread[t].pc = "settle"
  /\ IF thread[t].answer = "failed"
       THEN /\ Fail(t)
            /\ UNCHANGED deliveries
       ELSE /\ Write(t, {Pending(t)}, {[Pending(t) EXCEPT !.status = "success"]})
            /\ thread' = [thread EXCEPT ![t].pc = "send", ![t].targets = @ \ {First(@)},
                                        ![t].answer = "pending"]
            /\ UNCHANGED ghost
  /\ UNCHANGED <<secret, endpoint, archived, received, serial>>

\* delivery.save(): if the row went with its endpoint, inserting it again fails.
Settle(t) ==
  LET row == Pending(t)
  IN /\ thread[t].pc = "settle"
     /\ IF row \in deliveries \cup tx[t].deliveries
          THEN /\ Write(t, {row}, {[row EXCEPT !.status = thread[t].answer]})
               /\ thread' = [thread EXCEPT ![t].pc = "send", ![t].targets = @ \ {First(@)},
                                           ![t].answer = "pending"]
               /\ UNCHANGED ghost
          ELSE /\ Fail(t)
               /\ UNCHANGED deliveries
     /\ UNCHANGED <<secret, endpoint, archived, received, serial>>
-----------------------------------------------------------------------------
\* Mutant: soft_delete's own "updated" is taken for the deletion's event.
AnnouncedOnce(t) ==
  /\ thread[t].pc = "send" /\ thread[t].targets = {}
  /\ \/ /\ thread[t].op \in {"put", "rotate", "rekey"} /\ thread[t].event # "rotated"
        /\ Goto(t, IF thread[t].op = "rekey" THEN "rekey" ELSE "version")
     \/ /\ thread[t].op \in {"restore", "delete", "web_delete"} \/ thread[t].event = "rotated"
        /\ Finish(t)
     \/ thread[t].op \in {"add", "purge"} /\ Goto(t, "commit")
  /\ UNCHANGED <<secret, endpoint, deliveries, archived, received, serial, tx, ghost>>

\* Mutant: the rotation is announced before its version is created.
AnnouncedEarly(t) ==
  /\ thread[t].pc = "send" /\ thread[t].targets = {}
  /\ IF thread[t].op = "rotate" /\ thread[t].event # "rotated"
       THEN thread' = [thread EXCEPT ![t].event = "rotated", ![t].pc = "query"]
       ELSE Goto(t, "version")
  /\ UNCHANGED <<secret, endpoint, deliveries, archived, received, serial, tx, ghost>>

(***************************************************************************)
(* Every endpoint has been visited, and the request goes on: a version, or *)
(* the second event, or the next secret of a rekey, or the commit.         *)
(***************************************************************************)
Announced(t) ==
  /\ thread[t].pc = "send" /\ thread[t].targets = {}
  /\ \/ /\ thread[t].op \in {"put", "rotate"} /\ thread[t].event # "rotated"
        /\ Goto(t, "version")
     \/ /\ thread[t].op = "delete" /\ thread[t].event = "updated"
        /\ thread' = [thread EXCEPT ![t].event = "deleted", ![t].pc = "query"]
     \/ /\ \/ thread[t].op \in {"restore", "web_delete"}
           \/ thread[t].op = "delete" /\ thread[t].event = "deleted"
           \/ thread[t].event = "rotated"
        /\ Finish(t)
     \/ thread[t].op = "rekey" /\ Goto(t, "rekey")
     \/ thread[t].op \in {"add", "purge"} /\ Goto(t, "commit")
  /\ UNCHANGED <<secret, endpoint, deliveries, archived, received, serial, tx, ghost>>

\* SecretVersion.objects.create, after the save and all its calls.
CreateVersion(t) ==
  /\ thread[t].pc = "version"
  /\ \/ /\ secret[thread[t].secret] = "none"
        /\ Fail(t)
        /\ UNCHANGED archived
     \/ /\ secret[thread[t].secret] # "none"
        /\ archived' = archived \cup {thread[t].change}
        /\ IF thread[t].op = "rotate"
             THEN thread' = [thread EXCEPT ![t].event = "rotated", ![t].pc = "query"]
             ELSE Finish(t)
        /\ UNCHANGED <<tx, ghost>>
  /\ UNCHANGED <<secret, endpoint, deliveries, received, serial>>
-----------------------------------------------------------------------------
(***************************************************************************)
(* The rekey saves the live secrets one after the other, in a transaction; *)
(* each save is announced while the transaction is open.                   *)
(***************************************************************************)
StartRekey(t) ==
  /\ IsIdle(t, "rekey")
  /\ thread' = [thread EXCEPT ![t] = [Idle EXCEPT !.op = "rekey", !.pc = "rekey",
                  !.rest = {s \in Secrets : secret[s] = "live"}]]
  /\ UNCHANGED <<secret, endpoint, deliveries, archived, received, serial, tx, ghost>>

SaveInRekey(t) ==
  LET s == First(thread[t].rest)
      c == serial.change
  IN /\ thread[t].pc = "rekey" /\ thread[t].rest # {}
     /\ ChangeRoom /\ ~Locked(s) /\ secret[s] # "none"
     /\ tx' = [tx EXCEPT ![t].changes = @ \cup {c}, ![t].rows = @ \cup {s}]
     /\ serial' = [serial EXCEPT !.change = @ + 1]
     /\ thread' = [thread EXCEPT ![t].secret = s, ![t].change = c, ![t].event = "updated",
                                 ![t].rest = @ \ {s}, ![t].pc = "query"]
     /\ ghost' = Begin(c, {"updated"}, ghost)
     /\ UNCHANGED <<secret, endpoint, deliveries, archived, received>>

\* All saved; or a ciphertext that does not decrypt, or a row that is gone, ends it.
RekeyDone(t) ==
  /\ thread[t].pc = "rekey"
  /\ \/ thread[t].rest = {} /\ Goto(t, "commit") /\ UNCHANGED <<tx, ghost>>
     \/ Fail(t)
  /\ UNCHANGED <<secret, endpoint, deliveries, archived, received, serial>>

(***************************************************************************)
(* secret_add: update_or_create locks the row, or inserts it, and sets the *)
(* ciphertext alone; nobody else sees the row before the commit.           *)
(***************************************************************************)
StartAdd(t) ==
  \E s \in Secrets :
    LET c == serial.change
        event == IF secret[s] = "none" THEN "created" ELSE "updated"
    IN /\ IsIdle(t, "add") /\ ChangeRoom /\ ~Locked(s)
       /\ thread' = [thread EXCEPT ![t] = [Idle EXCEPT !.op = "add", !.pc = "query",
                       !.secret = s, !.change = c, !.event = event]]
       /\ tx' = [tx EXCEPT ![t].changes = {c}, ![t].rows = {s}]
       /\ serial' = [serial EXCEPT !.change = @ + 1]
       /\ ghost' = Begin(c, {event}, ghost)
       /\ UNCHANGED <<secret, endpoint, deliveries, archived, received>>

\* A hard delete announces the deletion first, then deletes.
StartPurge(t) ==
  \E s \in Secrets :
    LET c == serial.change
    IN /\ IsIdle(t, "purge") /\ ChangeRoom /\ secret[s] # "none"
       /\ thread' = [thread EXCEPT ![t] = [Idle EXCEPT !.op = "purge", !.pc = "query",
                       !.secret = s, !.change = c, !.event = "deleted"]]
       /\ tx' = [tx EXCEPT ![t].changes = {c}]
       /\ serial' = [serial EXCEPT !.change = @ + 1]
       /\ ghost' = Begin(c, {"deleted"}, ghost)
       /\ UNCHANGED <<secret, endpoint, deliveries, archived, received>>

\* A secret that was added is live, but one that was soft-deleted stays so.
Committed(t) ==
  CASE thread[t].op = "purge" -> [secret EXCEPT ![thread[t].secret] = "none"]
    [] thread[t].op = "add" -> [secret EXCEPT ![thread[t].secret] =
                                  IF @ = "none" THEN "live" ELSE @]
    [] thread[t].op = "rekey" -> secret

\* The commit, which a delivery to a deleted endpoint makes fail, or a version
\* that was created beside the deletion.
Commit(t) ==
  LET orphan == \E d \in tx[t].deliveries : endpoint[d.call.endpoint] = "none"
  IN /\ thread[t].pc = "commit"
     /\ thread[t].op = "purge" => ~Locked(thread[t].secret)
     /\ \/ /\ orphan \/ thread[t].op = "purge"
           /\ Fail(t)
           /\ UNCHANGED <<secret, deliveries>>
        \/ /\ ~orphan
           /\ deliveries' = deliveries \cup tx[t].deliveries
           /\ secret' = Committed(t)
           /\ ghost' = [ghost EXCEPT
                !.committed = @ \cup tx[t].changes,
                !.excused = @ \cup UNION {Working(u) : u \in
                   {v \in Threads \ {t} : thread[t].op = "purge"
                                          /\ thread[v].secret = thread[t].secret}}]
           /\ tx' = [tx EXCEPT ![t] = NoTx]
           /\ thread' = [thread EXCEPT ![t] = Idle]
     /\ UNCHANGED <<endpoint, archived, received, serial>>
-----------------------------------------------------------------------------
(***************************************************************************)
(* No view manages endpoints: an operator activates, deactivates and       *)
(* deletes them, the deliveries of a deleted one included.                 *)
(***************************************************************************)
SwitchEndpoint ==
  /\ "switch" \in Ops /\ serial.switch < MaxSwitches
  /\ serial' = [serial EXCEPT !.switch = @ + 1]
  /\ \E e \in Endpoints, state \in {"active", "inactive", "none"} :
       /\ endpoint[e] \notin {"none", state}
       /\ endpoint' = [endpoint EXCEPT ![e] = state]
       /\ deliveries' = IF state = "none" THEN {d \in deliveries : d.call.endpoint # e}
                                          ELSE deliveries
       /\ ghost' = [ghost EXCEPT
            !.steady = [c \in Changes |-> @[c] \ {e}],
            !.excused = IF state = "none" THEN @ \cup UNION {Working(t) : t \in Threads} ELSE @]
  /\ UNCHANGED <<secret, archived, received, thread, tx>>

\* The worker process dies; PostgreSQL rolls its transaction back.
Crash(t) ==
  /\ "crash" \in Ops /\ thread[t] # Idle
  /\ tx' = [tx EXCEPT ![t] = NoTx]
  /\ Finish(t)
  /\ ghost' = [ghost EXCEPT !.undone = @ \cup tx[t].changes, !.excused = @ \cup Working(t)]
  /\ UNCHANGED <<secret, endpoint, deliveries, archived, received, serial>>

Init ==
  /\ secret \in [Secrets -> {"none", "live"}]
  /\ endpoint = [e \in Endpoints |-> "active"]
  /\ deliveries = {} /\ archived = {} /\ received = {}
  /\ serial = [change |-> 1, switch |-> 0]
  /\ thread = [t \in Threads |-> Idle]
  /\ tx = [t \in Threads |-> NoTx]
  /\ ghost = [due |-> [c \in Changes |-> {}], steady |-> [c \in Changes |-> {}],
              versioned |-> {}, committed |-> {}, undone |-> {}, excused |-> {}]

Step(t) ==
  \/ Save(t) \/ Query(t) \/ CreateDelivery(t) \/ Post(t) \/ Settle(t) \/ Announced(t)
  \/ CreateVersion(t)
  \/ StartRekey(t) \/ SaveInRekey(t) \/ RekeyDone(t) \/ StartAdd(t) \/ StartPurge(t)
  \/ Commit(t) \/ Crash(t)

Next == (\E t \in Threads : Step(t)) \/ SwitchEndpoint

Spec == Init /\ [][Next]_vars
-----------------------------------------------------------------------------
\* The types of all the variables; a call has one row.
TypeOK ==
  /\ secret \in [Secrets -> {"none", "live", "deleted"}]
  /\ endpoint \in [Endpoints -> {"active", "inactive", "none"}]
  /\ deliveries \subseteq Delivery
  /\ \A d, e \in deliveries : d.call = e.call => d = e
  /\ archived \subseteq Changes
  /\ received \subseteq Call
  /\ serial \in [change: 1..(MaxChanges + 1), switch: 0..MaxSwitches]
  /\ thread \in [Threads -> ThreadState]
  /\ tx \in [Threads -> Transaction]
  /\ ghost \in GhostState

(***************************************************************************)
(* The record of deliveries is true: each is about a change that stands,   *)
(* is to an endpoint that exists, and a success was received.              *)
(***************************************************************************)
DeliveriesTrue ==
  \A d \in deliveries :
    /\ d.call.change \in ghost.committed
    /\ endpoint[d.call.endpoint] # "none"
    /\ d.status = "success" => d.call \in received

(***************************************************************************)
(* A receiver hears of a change that never was only from a transaction     *)
(* that is open or was rolled back, and of a rotation only when the new    *)
(* value is in the history.                                                *)
(***************************************************************************)
ReceiptsTrue ==
  \A r \in received :
    /\ \/ r.change \in ghost.committed \cup ghost.undone
       \/ \E t \in Threads : r.change \in tx[t].changes
    /\ r.event = "rotated" => r.change \in archived

(***************************************************************************)
(* Once its request is over, a change that stands has been announced, each *)
(* of its events to every endpoint that was active all the while and       *)
(* subscribes to it, and how each call went is recorded, whatever the      *)
(* other endpoints answered.  A worker's death, a purge of the secret or   *)
(* the deletion of an endpoint in between excuses it.                      *)
(***************************************************************************)
Over(c) == c \notin ghost.excused /\ \A t \in Threads : c \notin Working(t)

ChangesAnnounced ==
  \A c \in ghost.committed : Over(c) =>
    \A e \in ghost.steady[c] : \A event \in ghost.due[c] \cap Subscribed[e] :
      \E d \in deliveries :
        /\ d.call = [endpoint |-> e, change |-> c, event |-> event]
        /\ d.status # "pending"

(***************************************************************************)
(* A delivery is left pending only by a request that died; nothing retries *)
(* it.                                                                     *)
(***************************************************************************)
PendingAccounted ==
  \A d \in deliveries : d.status = "pending" => ~Over(d.call.change)

(***************************************************************************)
(* The calls run between the save of a value and its version, and no       *)
(* answer of a receiver costs the version: every change that is to have    *)
(* one has it once its request is over, with the same excuses.             *)
(***************************************************************************)
ChangesArchived ==
  \A c \in ghost.versioned : Over(c) => c \in archived

=============================================================================
