----------------------------- MODULE WebhooksProof -----------------------------
(***************************************************************************)
(* Proofs about Webhooks, for any secrets, endpoints, subscriptions,       *)
(* threads and bounds.                                                     *)
(***************************************************************************)
EXTENDS Webhooks, WellFoundedInduction, TLAPS

USE DEF Autocommitted, Transactional   \* the names of the requests

(***************************************************************************)
(* What types alone do not say: what a request is doing where it is, that  *)
(* it writes in a transaction or not at all in one, and that a change is   *)
(* one request's own until it stands.                                      *)
(***************************************************************************)
Announcing == {"query", "send", "post", "settle"}
Calling == {"send", "post", "settle"}

Known(t) ==
  /\ thread[t].pc = "idle" => thread[t] = Idle
  /\ thread[t].op = "idle" => thread[t].pc = "idle"
  /\ thread[t].pc \in Announcing \cup {"version"} =>
       thread[t].change # 0 /\ thread[t].event # "none"
  /\ thread[t].pc = "version" => thread[t].op \in {"put", "rotate"} /\ thread[t].event # "rotated"
  /\ thread[t].pc \in {"post", "settle"} => thread[t].targets # {}
  /\ thread[t].pc = "settle" => thread[t].answer # "pending"
  /\ thread[t].pc = "rekey" => thread[t].op = "rekey"
  /\ thread[t].pc = "commit" => InTransaction(t)
  /\ thread[t].op = "delete" => thread[t].event \in {"updated", "deleted"}
  /\ thread[t].event = "rotated" => thread[t].op = "rotate"
  /\ ~InTransaction(t) /\ thread[t].pc # "idle" => thread[t].secret \in Secrets
  /\ InTransaction(t) => thread[t].change = 0 \/ thread[t].change \in tx[t].changes
  /\ ~InTransaction(t) => /\ tx[t] = NoTx
                          /\ thread[t].pc # "idle" => thread[t].change \in ghost.committed
  /\ \A d \in tx[t].deliveries : d.call.change \in tx[t].changes

ChangesOwned ==
  /\ \A t \in Threads : \A c \in Working(t) : c < serial.change
  /\ \A t, u \in Threads : t # u => Working(t) \cap Working(u) = {}
  /\ \A c \in ghost.committed : c < serial.change /\ \A t \in Threads : c \notin tx[t].changes

(***************************************************************************)
(* Which rows there are already for what a request is announcing: none for *)
(* the event it will announce next, none for the endpoints it has still to *)
(* visit but the pending one of the call it is making.                     *)
(***************************************************************************)
Later(t) ==
  IF thread[t].op = "rotate" /\ thread[t].event # "rotated" THEN {"rotated"}
  ELSE IF thread[t].op = "delete" /\ thread[t].event = "updated" THEN {"deleted"} ELSE {}

OneRow(rows) == \A d, e \in rows : d.call = e.call => d = e

RowNew(t, d) ==
  d.call.change = thread[t].change =>
    /\ d.call.event \notin Later(t)
    /\ d.call.event = thread[t].event =>
         /\ thread[t].pc # "query"
         /\ thread[t].pc = "send" => d.call.endpoint \notin thread[t].targets
         /\ thread[t].pc \in {"post", "settle"} =>
              d.call.endpoint \notin thread[t].targets \/ d = Pending(t)

RowsNew ==
  /\ OneRow(deliveries)
  /\ \A d \in deliveries : d.call.change \in ghost.committed
  /\ \A t \in Threads : /\ OneRow(tx[t].deliveries)
                        /\ \A d \in deliveries \cup tx[t].deliveries : RowNew(t, d)

RequestsKnown == \A t \in Threads : Known(t)

Types ==
  /\ secret \in [Secrets -> {"none", "live", "deleted"}]
  /\ endpoint \in [Endpoints -> {"active", "inactive", "none"}]
  /\ deliveries \subseteq Delivery
  /\ archived \subseteq Changes
  /\ received \subseteq Call
  /\ serial \in [change: 1..(MaxChanges + 1), switch: 0..MaxSwitches]
  /\ thread \in [Threads -> ThreadState]
  /\ tx \in [Threads -> Transaction]
  /\ ghost \in GhostState

TypeInvariant == TypeOK /\ RequestsKnown /\ ChangesOwned /\ RowsNew

(***************************************************************************)
(* The record: a success was received, in an open transaction too; what is *)
(* pending is being called, or excused.                                    *)
(***************************************************************************)
Asking(t) == thread[t].pc \in {"post", "settle"}

CallTrue(t) ==
  /\ thread[t].pc = "settle" /\ thread[t].answer = "success" => ThisCall(t) \in received
  /\ thread[t].event = "rotated" => thread[t].change \in archived
  /\ \A d \in tx[t].deliveries : /\ d.status = "success" => d.call \in received
                                 /\ d.status = "pending" => Asking(t) /\ d = Pending(t)

RecordInvariant ==
  /\ \A t \in Threads : CallTrue(t)
  /\ DeliveriesTrue /\ ReceiptsTrue

(***************************************************************************)
(* A request fails only if it is excused: what it needs is there.          *)
(***************************************************************************)
Served(t) ==
  thread[t].pc # "idle" =>
    IF InTransaction(t) THEN Asking(t) => Pending(t) \in tx[t].deliveries
    ELSE \/ thread[t].change \in ghost.excused
         \/ /\ Asking(t) => Pending(t) \in deliveries
            /\ thread[t].pc \in Calling => \A e \in thread[t].targets : endpoint[e] # "none"
            /\ secret[thread[t].secret] # "none"

PendingRows ==
  \A d \in deliveries : d.status = "pending" =>
    \/ d.call.change \in ghost.excused
    \/ \E t \in Threads : ~InTransaction(t) /\ Asking(t) /\ d = Pending(t)

VersionsDue ==
  \A c \in ghost.versioned :
    \/ c \in archived \cup ghost.excused
    \/ \E t \in Threads : /\ thread[t].change = c /\ thread[t].op \in {"put", "rotate"}
                          /\ thread[t].event # "rotated"

\* Thread t is still to call endpoint e about the event.
ToCome(t, e, event) ==
  \/ event \in Later(t)
  \/ /\ event = thread[t].event
     /\ thread[t].pc = "query" \/ (thread[t].pc \in Calling /\ e \in thread[t].targets)

SettledIn(rows, c, e, event) ==
  \E d \in rows : /\ d.call = [endpoint |-> e, change |-> c, event |-> event]
                  /\ d.status # "pending"

SteadyActive == \A c \in Changes : \A e \in ghost.steady[c] : endpoint[e] = "active"

AnnouncementsDue ==
  /\ \A c \in ghost.committed \ ghost.excused :
       \A e \in ghost.steady[c] : \A event \in ghost.due[c] \cap Subscribed[e] :
         \/ SettledIn(deliveries, c, e, event)
         \/ \E t \in Threads : thread[t].change = c /\ ToCome(t, e, event)
  /\ \A t \in Threads : \A c \in tx[t].changes :
       \A e \in ghost.steady[c] : \A event \in ghost.due[c] \cap Subscribed[e] :
         SettledIn(tx[t].deliveries, c, e, event) \/ (thread[t].change = c /\ ToCome(t, e, event))

ServedAll == \A t \in Threads : Served(t)

DueInvariant ==
  ServedAll /\ PendingRows /\ VersionsDue /\ SteadyActive /\ AnnouncementsDue
-----------------------------------------------------------------------------
\* A set of numbers has a smallest, and First picks it.
LEMMA Smallest ==
  ASSUME NEW T, T \subseteq Nat, T # {}
  PROVE  \E x \in T : \A y \in T : x <= y
  <1> DEFINE R == {ss \in Nat \X Nat : ss[1] < ss[2]}
  <1>1. OpToRel(<, Nat) = R
    BY Zenon DEF OpToRel
  <1>2. PICK x \in T : \A y \in T : ~(<<y, x>> \in R)
    <2>1. IsWellFoundedOn(R, Nat)
      BY <1>1, NatLessThanWellFounded, Zenon
    <2> HIDE DEF R
    <2>2. QED
      BY <2>1, WFMin
  <1>3. ASSUME NEW y \in T, y < x
        PROVE  FALSE
    BY <1>2, <1>3
  <1>4. QED
    BY <1>3

LEMMA FirstIn ==
  ASSUME NEW S, S \subseteq Nat, S # {}
  PROVE  First(S) \in S
  BY Smallest DEF First

LEMMA FirstOfKeys ==
  /\ \A S \in SUBSET Endpoints : S # {} => First(S) \in S
  /\ \A S \in SUBSET Secrets : S # {} => First(S) \in S
  BY FirstIn, OrderAssumption

\* The records a thread and a transaction start from have their types.
LEMMA InitialRecords ==
  Idle \in ThreadState /\ NoTx \in Transaction
  BY DEF Idle, ThreadState, OpNames, Pcs, NoTx, Transaction

\* Fields read from well-typed records.
LEMMA FieldTypes ==
  ASSUME TypeOK
  PROVE  /\ serial \in [change: 1..(MaxChanges + 1), switch: 0..MaxSwitches]
         /\ serial.change \in Nat \ {0} /\ serial.switch \in Nat
         /\ \A t \in Threads :
              /\ thread[t] \in ThreadState /\ thread[t].op \in OpNames /\ thread[t].pc \in Pcs
              /\ thread[t].change \in Changes \cup {0} /\ thread[t].event \in Events \cup {"none"}
              /\ thread[t].targets \subseteq Endpoints /\ thread[t].rest \subseteq Secrets
              /\ thread[t].secret \in Secrets \cup {0}
              /\ thread[t].answer \in {"pending", "success", "failed"}
         /\ \A t \in Threads :
              /\ tx[t] \in Transaction /\ tx[t].changes \subseteq Changes
              /\ tx[t].rows \subseteq Secrets /\ tx[t].deliveries \subseteq Delivery
         /\ \A d \in Delivery : /\ d.call \in Call /\ d.call.change \in Changes
                                /\ d.call.endpoint \in Endpoints /\ d.call.event \in Events
  <1>1. /\ \A t \in Threads : thread[t] \in ThreadState
        /\ \A t \in Threads : tx[t] \in Transaction
        /\ serial \in [change: 1..(MaxChanges + 1), switch: 0..MaxSwitches]
    BY DEF TypeOK
  <1>2. serial.change \in Nat \ {0} /\ serial.switch \in Nat
    BY <1>1, BoundsAssumption
  <1>3. \A d \in Delivery : /\ d.call \in Call /\ d.call.change \in Changes
                            /\ d.call.endpoint \in Endpoints /\ d.call.event \in Events
    BY DEF Delivery, Call
  <1>4. \A t \in Threads :
              /\ thread[t].op \in OpNames /\ thread[t].pc \in Pcs
              /\ thread[t].change \in Changes \cup {0} /\ thread[t].event \in Events \cup {"none"}
              /\ thread[t].targets \subseteq Endpoints /\ thread[t].rest \subseteq Secrets
              /\ thread[t].secret \in Secrets \cup {0}
              /\ thread[t].answer \in {"pending", "success", "failed"}
    BY <1>1 DEF ThreadState
  <1>5. \A t \in Threads :
              /\ tx[t].changes \subseteq Changes
              /\ tx[t].rows \subseteq Secrets /\ tx[t].deliveries \subseteq Delivery
    BY <1>1 DEF Transaction
  <1>6. QED
    BY <1>1, <1>2, <1>3, <1>4, <1>5

LEMMA HistoryTypes ==
  ASSUME TypeOK
  PROVE  /\ ghost \in GhostState
         /\ ghost.due \in [Changes -> SUBSET Events]
         /\ ghost.steady \in [Changes -> SUBSET Endpoints]
         /\ ghost.versioned \subseteq Changes /\ ghost.committed \subseteq Changes
         /\ ghost.undone \subseteq Changes /\ ghost.excused \subseteq Changes
  BY DEF TypeOK, GhostState

LEMMA ChangesNumbered ==
  Changes \subseteq Nat \ {0}
  BY BoundsAssumption DEF Changes

LEMMA NextChange ==
  ASSUME TypeOK, ChangeRoom
  PROVE  /\ serial.change \in Changes /\ serial.change + 1 \in 1..(MaxChanges + 1)
         /\ [serial EXCEPT !.change = @ + 1] \in [change: 1..(MaxChanges + 1), switch: 0..MaxSwitches]
  <1>1. serial.change \in Changes /\ serial.change + 1 \in 1..(MaxChanges + 1)
    BY FieldTypes, BoundsAssumption DEF ChangeRoom, Changes
  <1>2. QED
    BY <1>1, FieldTypes

\* What a request works on are changes, and what it calls about is one of them.
LEMMA WorkTypes ==
  ASSUME TypeOK, NEW t \in Threads
  PROVE  /\ Working(t) \subseteq Changes
         /\ Working(t) = IF thread[t].change = 0 THEN tx[t].changes
                                                 ELSE tx[t].changes \cup {thread[t].change}
  BY FieldTypes, ChangesNumbered DEF Working

LEMMA CallTypes ==
  ASSUME TypeOK, RequestsKnown, NEW t \in Threads, thread[t].pc \in Calling,
         thread[t].targets # {}
  PROVE  /\ ThisCall(t) \in Call /\ Pending(t) \in Delivery
         /\ First(thread[t].targets) \in thread[t].targets
         /\ First(thread[t].targets) \in Endpoints
         /\ thread[t].change \in Changes /\ thread[t].event \in Events
  <1>1. First(thread[t].targets) \in thread[t].targets
    BY FieldTypes, FirstOfKeys
  <1>2. thread[t].change \in Changes /\ thread[t].event \in Events
    BY FieldTypes DEF RequestsKnown, Known, Announcing, Calling
  <1>3. First(thread[t].targets) \in Endpoints
    BY <1>1, FieldTypes
  <1>4. QED
    BY <1>1, <1>2, <1>3 DEF ThisCall, Pending, Call, Delivery
-----------------------------------------------------------------------------
\* A request that opens its transaction with the change it makes.
Opens(t) == StartAdd(t) \/ StartPurge(t)

\* A step of one thread leaves the others as they are.
LEMMA OtherThreads ==
  ASSUME TypeOK, NEW t \in Threads, Step(t)
  PROVE  \A u \in Threads : u # t => thread'[u] = thread[u] /\ tx'[u] = tx[u]
  <1> USE DEF TypeOK, Finish, Goto, Fail, Write
  <1>1. CASE Save(t) \/ Query(t) \/ Post(t) \/ Announced(t) \/ CreateVersion(t)
    BY <1>1 DEF Save, Query, Post, Announced, CreateVersion
  <1>2. CASE CreateDelivery(t)
    BY <1>2 DEF CreateDelivery
  <1>3. CASE Settle(t)
    BY <1>3 DEF Settle
  <1>4. CASE StartRekey(t) \/ SaveInRekey(t) \/ RekeyDone(t) \/ Opens(t)
    BY <1>4 DEF StartRekey, SaveInRekey, RekeyDone, Opens, StartAdd, StartPurge
  <1>5. CASE Commit(t) \/ Crash(t)
    BY <1>5 DEF Commit, Crash
  <1>6. QED
    BY <1>1, <1>2, <1>3, <1>4, <1>5 DEF Step, Opens

\* What t is working on, as what it has not touched of its request.
SameRequest(t) ==
  /\ thread'[t].op = thread[t].op /\ thread'[t].secret = thread[t].secret
  /\ thread'[t].change = thread[t].change
  /\ tx'[t].changes = tx[t].changes

SameCall(t) ==
  SameRequest(t) /\ thread'[t].event = thread[t].event /\ thread'[t].targets = thread[t].targets

\* A step that makes no change: it leaves the rows of the others' tables alone.
Quiet ==
  /\ serial' = serial /\ secret' = secret /\ endpoint' = endpoint
  /\ archived \subseteq archived' /\ received \subseteq received'
  /\ ghost'.due = ghost.due /\ ghost'.steady = ghost.steady
  /\ ghost'.versioned = ghost.versioned /\ ghost'.committed = ghost.committed
  /\ ghost.undone \subseteq ghost'.undone /\ ghost.excused \subseteq ghost'.excused

\* A request ends: what it has not committed is undone.
Ends(t) ==
  /\ Quiet /\ thread'[t] = Idle /\ tx'[t] = NoTx
  /\ tx[t].changes \subseteq ghost'.undone
  /\ deliveries' = deliveries /\ received' = received

\* A step of a request that leaves what it has written and the history alone.
Moves(t) ==
  /\ Quiet /\ SameRequest(t) /\ ghost' = ghost
  /\ tx' = tx /\ deliveries' = deliveries /\ received' = received

LEMMA Failing ==
  ASSUME TypeOK, NEW t \in Threads, Fail(t)
  PROVE  /\ thread'[t] = Idle /\ tx'[t] = NoTx /\ tx[t].changes \subseteq ghost'.undone
         /\ ghost'.due = ghost.due /\ ghost'.steady = ghost.steady
         /\ ghost'.versioned = ghost.versioned /\ ghost'.committed = ghost.committed
         /\ ghost.undone \subseteq ghost'.undone /\ ghost'.excused = ghost.excused
         /\ ghost'.undone = ghost.undone \cup tx[t].changes
  BY HistoryTypes DEF Fail, Finish, TypeOK, GhostState

LEMMA QueryMoves ==
  ASSUME TypeOK, NEW t \in Threads, Query(t)
  PROVE  /\ thread[t].pc = "query" /\ Moves(t)
         /\ thread'[t].pc = "send" /\ thread'[t].event = thread[t].event
         /\ thread'[t].targets = {e \in Active : thread[t].event \in Subscribed[e]}
         /\ thread'[t].answer = thread[t].answer /\ archived' = archived
  <1>1. thread'[t] = [thread[t] EXCEPT !.pc = "send",
                        !.targets = {e \in Active : thread[t].event \in Subscribed[e]}]
    BY DEF Query, TypeOK
  <1>2. /\ thread[t].pc = "query" /\ thread[t] \in ThreadState
        /\ tx' = tx /\ ghost' = ghost /\ deliveries' = deliveries /\ received' = received
        /\ archived' = archived /\ serial' = serial /\ secret' = secret /\ endpoint' = endpoint
    BY FieldTypes DEF Query
  <1>3. QED
    BY <1>1, <1>2 DEF Moves, Quiet, SameRequest, ThreadState

\* A row is written where the request writes.
Writes(t, old, new) ==
  IF InTransaction(t)
    THEN /\ tx'[t].deliveries = (tx[t].deliveries \ old) \cup new
         /\ deliveries' = deliveries
    ELSE deliveries' = (deliveries \ old) \cup new /\ tx'[t] = tx[t]

LEMMA Writing ==
  ASSUME TypeOK, NEW t \in Threads, NEW old, NEW new, Write(t, old, new)
  PROVE  Writes(t, old, new) /\ tx'[t].changes = tx[t].changes /\ tx'[t].rows = tx[t].rows
  <1>1. CASE InTransaction(t)
    <2>1. tx'[t] = [tx[t] EXCEPT !.deliveries = (@ \ old) \cup new] /\ deliveries' = deliveries
      BY <1>1 DEF Write, TypeOK
    <2>2. QED
      BY <1>1, <2>1, FieldTypes DEF Writes, Transaction
  <1>2. CASE ~InTransaction(t)
    BY <1>2 DEF Write, Writes
  <1>3. QED
    BY <1>1, <1>2

LEMMA CreateMoves ==
  ASSUME TypeOK, NEW t \in Threads, CreateDelivery(t)
  PROVE  /\ thread[t].pc = "send" /\ thread[t].targets # {}
         /\ \/ /\ endpoint[First(thread[t].targets)] = "none" /\ ~InTransaction(t)
               /\ Ends(t)
            \/ /\ endpoint[First(thread[t].targets)] # "none" \/ InTransaction(t)
               /\ Quiet /\ ghost' = ghost /\ SameCall(t) /\ Writes(t, {}, {Pending(t)})
               /\ thread'[t].pc = "post" /\ thread'[t].answer = thread[t].answer
         /\ received' = received /\ archived' = archived
  <1>1. CASE endpoint[First(thread[t].targets)] = "none" /\ ~InTransaction(t)
    BY <1>1, Failing DEF CreateDelivery, Ends, Quiet
  <1>2. CASE ~(endpoint[First(thread[t].targets)] = "none" /\ ~InTransaction(t))
    <2>1. Write(t, {}, {Pending(t)}) /\ Goto(t, "post") /\ ghost' = ghost
      BY <1>2 DEF CreateDelivery
    <2>2. thread'[t] = [thread[t] EXCEPT !.pc = "post"]
      BY <2>1 DEF Goto, TypeOK
    <2>3. QED
      BY <1>2, <2>1, <2>2, Writing, FieldTypes
      DEF CreateDelivery, Quiet, SameCall, SameRequest, ThreadState
  <1>3. QED
    BY <1>1, <1>2

LEMMA PostMoves ==
  ASSUME TypeOK, NEW t \in Threads, Post(t)
  PROVE  /\ thread[t].pc = "post" /\ thread'[t].pc = "settle"
         /\ SameCall(t) /\ Quiet /\ ghost' = ghost /\ tx' = tx /\ deliveries' = deliveries
         /\ thread'[t].answer \in {"success", "failed"}
         /\ thread'[t].answer = "success" => received' = received \cup {ThisCall(t)}
         /\ received' \in {received, received \cup {ThisCall(t)}} /\ archived' = archived
  <1>1. PICK arrives \in BOOLEAN, answer \in {"success", "failed"} :
          /\ answer = "success" => arrives
          /\ received' = IF arrives THEN received \cup {ThisCall(t)} ELSE received
          /\ thread' = [thread EXCEPT ![t].answer = answer, ![t].pc = "settle"]
    BY DEF Post
  <1>2. thread'[t] = [thread[t] EXCEPT !.answer = answer, !.pc = "settle"]
    BY <1>1 DEF TypeOK
  <1>3. /\ thread[t].pc = "post" /\ thread[t] \in ThreadState
        /\ tx' = tx /\ ghost' = ghost /\ deliveries' = deliveries
        /\ archived' = archived /\ serial' = serial /\ secret' = secret /\ endpoint' = endpoint
    BY FieldTypes DEF Post
  <1>4. /\ thread'[t].op = thread[t].op /\ thread'[t].secret = thread[t].secret
        /\ thread'[t].change = thread[t].change /\ thread'[t].event = thread[t].event
        /\ thread'[t].pc = "settle" /\ thread'[t].answer = answer
        /\ thread'[t].targets = thread[t].targets
    BY <1>2, <1>3 DEF ThreadState
  <1>5. QED
    BY <1>1, <1>3, <1>4 DEF Quiet, SameCall, SameRequest

LEMMA SettleMoves ==
  ASSUME TypeOK, NEW t \in Threads, Settle(t)
  PROVE  /\ thread[t].pc = "settle"
         /\ \/ Pending(t) \notin deliveries \cup tx[t].deliveries /\ Ends(t)
            \/ /\ Pending(t) \in deliveries \cup tx[t].deliveries
               /\ Quiet /\ ghost' = ghost /\ SameRequest(t)
               /\ thread'[t].event = thread[t].event
               /\ Writes(t, {Pending(t)}, {[call |-> ThisCall(t), status |-> thread[t].answer]})
               /\ thread'[t].pc = "send" /\ thread'[t].answer = "pending"
               /\ thread'[t].targets = thread[t].targets \ {First(thread[t].targets)}
         /\ received' = received /\ archived' = archived
  <1>1. CASE Pending(t) \notin deliveries \cup tx[t].deliveries
    BY <1>1, Failing DEF Settle, Ends, Quiet
  <1>2. CASE Pending(t) \in deliveries \cup tx[t].deliveries
    <2> DEFINE row == [call |-> ThisCall(t), status |-> thread[t].answer]
    <2>1. [Pending(t) EXCEPT !.status = thread[t].answer] = row
      BY DEF Pending
    <2>2. /\ Write(t, {Pending(t)}, {row}) /\ ghost' = ghost
          /\ thread' = [thread EXCEPT ![t].pc = "send", ![t].targets = @ \ {First(@)},
                                      ![t].answer = "pending"]
      BY <1>2, <2>1 DEF Settle
    <2>3. thread'[t] = [thread[t] EXCEPT !.pc = "send", !.targets = @ \ {First(@)},
                                         !.answer = "pending"]
      BY <2>2 DEF TypeOK
    <2>4. Writes(t, {Pending(t)}, {row}) /\ tx'[t].changes = tx[t].changes
      <3> HIDE DEF row
      <3>1. QED
        BY <2>2, Writing
    <2>5. /\ thread[t].pc = "settle" /\ thread[t] \in ThreadState /\ received' = received
          /\ archived' = archived /\ serial' = serial /\ secret' = secret /\ endpoint' = endpoint
      BY FieldTypes DEF Settle
    <2>6. /\ thread'[t].op = thread[t].op /\ thread'[t].secret = thread[t].secret
          /\ thread'[t].change = thread[t].change /\ thread'[t].event = thread[t].event
          /\ thread'[t].pc = "send" /\ thread'[t].answer = "pending"
          /\ thread'[t].targets = thread[t].targets \ {First(thread[t].targets)}
      BY <2>3, <2>5 DEF ThreadState
    <2>7. QED
      BY <1>2, <2>2, <2>4, <2>5, <2>6 DEF Quiet, SameRequest
  <1>3. QED
    BY <1>1, <1>2
-----------------------------------------------------------------------------
\* Finishing outside a transaction leaves nothing behind.
LEMMA Finishing ==
  ASSUME TypeOK, NEW t \in Threads, Known(t), ~InTransaction(t), Finish(t), tx' = tx
  PROVE  thread'[t] = Idle /\ tx'[t] = NoTx /\ tx[t].changes = {}
  BY DEF Finish, TypeOK, Known, NoTx

\* A thread goes elsewhere, and that is all.
LEMMA Going ==
  ASSUME TypeOK, NEW t \in Threads, NEW pc \in Pcs, Goto(t, pc)
  PROVE  /\ thread'[t].op = thread[t].op /\ thread'[t].secret = thread[t].secret
         /\ thread'[t].change = thread[t].change /\ thread'[t].event = thread[t].event
         /\ thread'[t].pc = pc /\ thread'[t].answer = thread[t].answer
         /\ thread'[t].targets = thread[t].targets /\ thread'[t].rest = thread[t].rest
  <1>1. thread'[t] = [thread[t] EXCEPT !.pc = pc] /\ thread[t] \in ThreadState
    BY FieldTypes DEF Goto, TypeOK
  <1>2. QED
    BY <1>1 DEF ThreadState

LEMMA AnnouncedMoves ==
  ASSUME TypeOK, NEW t \in Threads, Known(t), Announced(t)
  PROVE  /\ thread[t].pc = "send" /\ thread[t].targets = {} /\ archived' = archived
         /\ \/ /\ thread[t].op \in {"put", "rotate"} /\ thread[t].event # "rotated"
               /\ Moves(t) /\ SameCall(t) /\ thread'[t].pc = "version"
               /\ thread'[t].answer = thread[t].answer
            \/ /\ thread[t].op = "delete" /\ thread[t].event = "updated"
               /\ Moves(t) /\ thread'[t].event = "deleted" /\ thread'[t].pc = "query"
               /\ thread'[t].answer = thread[t].answer
            \/ /\ ~InTransaction(t) /\ thread[t].op # "put"
               /\ thread[t].op = "delete" => thread[t].event = "deleted"
               /\ thread[t].op = "rotate" => thread[t].event = "rotated"
               /\ Ends(t) /\ ghost' = ghost
            \/ /\ InTransaction(t) /\ Moves(t) /\ SameCall(t)
               /\ thread'[t].pc \in {"rekey", "commit"} /\ thread'[t].answer = thread[t].answer
               /\ thread'[t].pc = "rekey" => thread[t].op = "rekey"
  <1>1. /\ thread[t].pc = "send" /\ thread[t].targets = {} /\ thread[t] \in ThreadState
        /\ tx' = tx /\ ghost' = ghost /\ deliveries' = deliveries /\ received' = received
        /\ archived' = archived /\ serial' = serial /\ secret' = secret /\ endpoint' = endpoint
    BY FieldTypes DEF Announced
  <1>2. CASE /\ thread[t].op \in {"put", "rotate"} /\ thread[t].event # "rotated"
             /\ Goto(t, "version")
    BY <1>1, <1>2, Going DEF Moves, Quiet, SameRequest, SameCall, Pcs
  <1>3. CASE /\ thread[t].op = "delete" /\ thread[t].event = "updated"
             /\ thread' = [thread EXCEPT ![t].event = "deleted", ![t].pc = "query"]
    <2>1. thread'[t] = [thread[t] EXCEPT !.event = "deleted", !.pc = "query"]
      BY <1>3 DEF TypeOK
    <2>2. /\ thread'[t].op = thread[t].op /\ thread'[t].secret = thread[t].secret
          /\ thread'[t].change = thread[t].change /\ thread'[t].event = "deleted"
          /\ thread'[t].pc = "query" /\ thread'[t].answer = thread[t].answer
      BY <1>1, <2>1 DEF ThreadState
    <2>3. QED
      BY <1>1, <1>3, <2>2 DEF Moves, Quiet, SameRequest
  <1>4. CASE /\ \/ thread[t].op \in {"restore", "web_delete"}
                \/ thread[t].op = "delete" /\ thread[t].event = "deleted"
                \/ thread[t].event = "rotated"
             /\ Finish(t)
    <2>1. /\ ~InTransaction(t) /\ thread[t].op # "put"
          /\ thread[t].op = "delete" => thread[t].event = "deleted"
          /\ thread[t].op = "rotate" => thread[t].event = "rotated"
      BY <1>4 DEF Known, InTransaction
    <2>2. thread'[t] = Idle /\ tx'[t] = NoTx /\ tx[t].changes = {}
      BY <1>1, <1>4, <2>1, Finishing
    <2>3. Ends(t)
      BY <1>1, <2>2 DEF Ends, Quiet
    <2>4. QED
      BY <1>1, <2>1, <2>3
  <1>5. CASE thread[t].op = "rekey" /\ Goto(t, "rekey")
    BY <1>1, <1>5, Going DEF Moves, Quiet, SameRequest, SameCall, Pcs, InTransaction
  <1>6. CASE thread[t].op \in {"add", "purge"} /\ Goto(t, "commit")
    BY <1>1, <1>6, Going DEF Moves, Quiet, SameRequest, SameCall, Pcs, InTransaction
  <1>7. QED
    BY <1>2, <1>3, <1>4, <1>5, <1>6 DEF Announced

LEMMA VersionMoves ==
  ASSUME TypeOK, NEW t \in Threads, Known(t), CreateVersion(t)
  PROVE  /\ thread[t].pc = "version" /\ received' = received
         /\ thread[t].op \in {"put", "rotate"} /\ thread[t].event # "rotated"
         /\ \/ secret[thread[t].secret] = "none" /\ Ends(t) /\ archived' = archived
            \/ /\ archived' = archived \cup {thread[t].change} /\ ghost' = ghost
               /\ \/ thread[t].op = "put" /\ Ends(t)
                  \/ /\ thread[t].op = "rotate" /\ Moves(t)
                     /\ secret[thread[t].secret] # "none"
                     /\ thread'[t].event = "rotated" /\ thread'[t].pc = "query"
                     /\ thread'[t].answer = thread[t].answer
  <1>1. /\ thread[t].pc = "version" /\ thread[t] \in ThreadState
        /\ thread[t].op \in {"put", "rotate"} /\ thread[t].event # "rotated"
        /\ ~InTransaction(t)
        /\ deliveries' = deliveries /\ received' = received
        /\ serial' = serial /\ secret' = secret /\ endpoint' = endpoint
    BY FieldTypes DEF CreateVersion, Known, InTransaction
  <1>2. CASE secret[thread[t].secret] = "none"
    <2>1. Fail(t) /\ archived' = archived
      BY <1>2 DEF CreateVersion
    <2>2. QED
      BY <1>1, <1>2, <2>1, Failing DEF Ends, Quiet
  <1>3. CASE secret[thread[t].secret] # "none" /\ thread[t].op = "put"
    <2>1. Finish(t) /\ tx' = tx /\ ghost' = ghost /\ archived' = archived \cup {thread[t].change}
      BY <1>3 DEF CreateVersion
    <2>2. thread'[t] = Idle /\ tx'[t] = NoTx /\ tx[t].changes = {}
      BY <1>1, <2>1, Finishing
    <2>3. QED
      BY <1>1, <1>3, <2>1, <2>2 DEF Ends, Quiet
  <1>4. CASE secret[thread[t].secret] # "none" /\ thread[t].op = "rotate"
    <2>1. /\ thread' = [thread EXCEPT ![t].event = "rotated", ![t].pc = "query"]
          /\ tx' = tx /\ ghost' = ghost /\ archived' = archived \cup {thread[t].change}
      BY <1>4 DEF CreateVersion
    <2>2. thread'[t] = [thread[t] EXCEPT !.event = "rotated", !.pc = "query"]
      BY <2>1 DEF TypeOK
    <2>3. /\ thread'[t].op = thread[t].op /\ thread'[t].secret = thread[t].secret
          /\ thread'[t].change = thread[t].change /\ thread'[t].event = "rotated"
          /\ thread'[t].pc = "query" /\ thread'[t].answer = thread[t].answer
      BY <1>1, <2>2 DEF ThreadState
    <2>4. QED
      BY <1>1, <1>4, <2>1, <2>3 DEF Moves, Quiet, SameRequest
  <1>5. QED
    BY <1>1, <1>2, <1>3, <1>4

LEMMA RekeyMoves ==
  ASSUME TypeOK, NEW t \in Threads, Known(t), StartRekey(t) \/ RekeyDone(t)
  PROVE  /\ archived' = archived /\ received' = received
         /\ \/ /\ thread[t] = Idle /\ Quiet /\ ghost' = ghost
               /\ tx' = tx /\ tx[t] = NoTx /\ deliveries' = deliveries
               /\ thread'[t].op = "rekey" /\ thread'[t].pc = "rekey" /\ thread'[t].change = 0
               /\ thread'[t].event = "none" /\ thread'[t].answer = "pending"
            \/ /\ thread[t].pc = "rekey" /\ Moves(t) /\ SameCall(t)
               /\ thread'[t].pc = "commit" /\ thread'[t].answer = thread[t].answer
            \/ thread[t].pc = "rekey" /\ Ends(t)
  <1>1. /\ deliveries' = deliveries /\ received' = received /\ archived' = archived
        /\ serial' = serial /\ secret' = secret /\ endpoint' = endpoint
    BY DEF StartRekey, RekeyDone
  <1>2. CASE StartRekey(t)
    <2>1. /\ thread[t] = Idle /\ tx' = tx /\ ghost' = ghost
          /\ thread'[t] = [Idle EXCEPT !.op = "rekey", !.pc = "rekey",
                             !.rest = {s \in Secrets : secret[s] = "live"}]
      BY <1>2 DEF StartRekey, IsIdle, TypeOK
    <2>2. /\ thread'[t].op = "rekey" /\ thread'[t].pc = "rekey" /\ thread'[t].change = 0
          /\ thread'[t].event = "none" /\ thread'[t].answer = "pending"
      BY <2>1 DEF Idle
    <2>3. tx[t] = NoTx
      BY <2>1 DEF Known, InTransaction, Idle
    <2>4. QED
      BY <1>1, <2>1, <2>2, <2>3 DEF Quiet
  <1>3. CASE RekeyDone(t)
    <2>1. CASE Goto(t, "commit") /\ tx' = tx /\ ghost' = ghost
      BY <1>1, <1>3, <2>1, Going DEF RekeyDone, Moves, Quiet, SameRequest, SameCall, Pcs
    <2>2. CASE Fail(t)
      BY <1>1, <1>3, <2>2, Failing DEF RekeyDone, Ends, Quiet
    <2>3. QED
      BY <1>3, <2>1, <2>2 DEF RekeyDone
  <1>4. QED
    BY <1>2, <1>3
-----------------------------------------------------------------------------
\* A step that makes a change: it begins to announce an event of it.
Makes(t, events) ==
  /\ ChangeRoom /\ serial'.change = serial.change + 1 /\ serial'.switch = serial.switch
  /\ serial' = [serial EXCEPT !.change = @ + 1]
  /\ thread'[t].change = serial.change /\ thread'[t].pc = "query"
  /\ thread'[t].event \in events \cap {"created", "updated", "deleted"}
  /\ thread'[t].secret \in Secrets
  /\ endpoint' = endpoint /\ deliveries' = deliveries
  /\ archived' = archived /\ received' = received
  /\ ghost'.due = [ghost.due EXCEPT ![serial.change] = events]
  /\ ghost'.steady = [ghost.steady EXCEPT ![serial.change] = Active]
  /\ ghost'.undone = ghost.undone /\ ghost'.excused = ghost.excused

LEMMA Beginning ==
  ASSUME TypeOK, NEW events \in SUBSET Events, ChangeRoom
  PROVE  LET g == Begin(serial.change, events, ghost)
         IN  /\ g.due = [ghost.due EXCEPT ![serial.change] = events]
             /\ g.steady = [ghost.steady EXCEPT ![serial.change] = Active]
             /\ g.undone = ghost.undone /\ g.excused = ghost.excused
             /\ g.committed = ghost.committed /\ g.versioned = ghost.versioned
             /\ g \in GhostState
  <1> DEFINE g == Begin(serial.change, events, ghost)
  <1>1. /\ g.due = [ghost.due EXCEPT ![serial.change] = events]
        /\ g.steady = [ghost.steady EXCEPT ![serial.change] = Active]
        /\ g.undone = ghost.undone /\ g.excused = ghost.excused
        /\ g.committed = ghost.committed /\ g.versioned = ghost.versioned
    BY HistoryTypes DEF Begin, GhostState
  <1>2. Active \subseteq Endpoints
    BY DEF Active
  <1>3. /\ [ghost.due EXCEPT ![serial.change] = events] \in [Changes -> SUBSET Events]
        /\ [ghost.steady EXCEPT ![serial.change] = Active] \in [Changes -> SUBSET Endpoints]
    BY <1>2, HistoryTypes
  <1>4. g \in GhostState
    BY <1>3, HistoryTypes DEF Begin, GhostState
  <1>5. QED
    BY <1>1, <1>4

\* The event a request announces after that of its save.
Second(op) == IF op = "rotate" THEN {"rotated"} ELSE IF op = "delete" THEN {"deleted"} ELSE {}

\* What a save outside a transaction does.
Saves(t, op, s, event) ==
  /\ op = "delete" => event = "updated"
  /\ thread[t] = Idle /\ tx' = tx /\ tx[t] = NoTx
  /\ thread'[t].op = op /\ thread'[t].secret = s /\ thread'[t].event = event
  /\ thread'[t].answer = "pending"
  /\ Makes(t, {event} \cup Second(op))
  /\ \E state \in {"live", "deleted"} : secret' = [secret EXCEPT ![s] = state]
  /\ thread' = [thread EXCEPT ![t] = [Idle EXCEPT !.op = op, !.pc = "query",
                  !.secret = s, !.change = serial.change, !.event = event]]
  /\ ghost'.committed = ghost.committed \cup {serial.change}
  /\ ghost'.versioned = IF op \in {"put", "rotate"} THEN ghost.versioned \cup {serial.change}
                                                    ELSE ghost.versioned
  /\ ghost' \in GhostState

LEMMA SaveMoves ==
  ASSUME TypeOK, NEW t \in Threads, Known(t), Save(t)
  PROVE  \E op \in Autocommitted, s \in Secrets,
            event \in {"created", "updated"} : Saves(t, op, s, event)
  <1>1. PICK op \in Autocommitted, s \in Secrets :
          LET event == IF secret[s] = "none" THEN "created" ELSE "updated"
              second == CASE op = "rotate" -> {"rotated"} [] op = "delete" -> {"deleted"}
                          [] OTHER -> {}
          IN /\ IsIdle(t, op) /\ ChangeRoom
             /\ MaySave(op, s) /\ ~Locked(s)
             /\ \E state \in After(op, s) : secret' = [secret EXCEPT ![s] = state]
             /\ serial' = [serial EXCEPT !.change = @ + 1]
             /\ thread' = [thread EXCEPT ![t] = [Idle EXCEPT !.op = op, !.pc = "query",
                             !.secret = s, !.change = serial.change, !.event = event]]
             /\ ghost' = [Begin(serial.change, {event} \cup second, ghost)
                            EXCEPT !.committed = @ \cup {serial.change},
                                   !.versioned = IF op \in {"put", "rotate"}
                                                   THEN @ \cup {serial.change} ELSE @]
             /\ UNCHANGED <<endpoint, deliveries, archived, received, tx>>
    BY DEF Save
  <1> DEFINE event == IF secret[s] = "none" THEN "created" ELSE "updated"
             second == Second(op)
             events == {event} \cup second
             g == Begin(serial.change, events, ghost)
  <1>2. event \in {"created", "updated"} /\ second \in SUBSET Events /\ events \in SUBSET Events
    BY DEF Events, Second
  <1>3. op = "delete" => event = "updated"
    BY <1>1 DEF MaySave
  <1>4. /\ thread'[t] = [Idle EXCEPT !.op = op, !.pc = "query",
                           !.secret = s, !.change = serial.change, !.event = event]
        /\ thread[t] = Idle /\ ChangeRoom /\ serial' = [serial EXCEPT !.change = @ + 1]
    BY <1>1 DEF TypeOK, IsIdle
  <1>5. /\ thread'[t].op = op /\ thread'[t].secret = s /\ thread'[t].event = event
        /\ thread'[t].answer = "pending" /\ thread'[t].change = serial.change
        /\ thread'[t].pc = "query"
    BY <1>4 DEF Idle
  <1>6. serial'.change = serial.change + 1 /\ serial'.switch = serial.switch
    BY <1>4, FieldTypes
  <1>7. tx[t] = NoTx
    BY <1>4 DEF Known, InTransaction, Idle
  <1>8. /\ g.due = [ghost.due EXCEPT ![serial.change] = events]
        /\ g.steady = [ghost.steady EXCEPT ![serial.change] = Active]
        /\ g.undone = ghost.undone /\ g.excused = ghost.excused
        /\ g.committed = ghost.committed /\ g.versioned = ghost.versioned
        /\ g \in GhostState
    <2> HIDE DEF second, event, events
    <2>1. QED
      BY <1>2, <1>4, Beginning DEF g
  <1>9. ghost' = [g EXCEPT !.committed = @ \cup {serial.change},
                           !.versioned = IF op \in {"put", "rotate"}
                                           THEN @ \cup {serial.change} ELSE @]
    BY <1>1 DEF Second
  <1>10. serial.change \in Changes
    BY <1>4, NextChange
  <1>11. /\ ghost'.due = g.due /\ ghost'.steady = g.steady /\ ghost'.undone = g.undone
         /\ ghost'.excused = g.excused /\ ghost'.committed = g.committed \cup {serial.change}
         /\ ghost'.versioned = IF op \in {"put", "rotate"} THEN g.versioned \cup {serial.change}
                                                           ELSE g.versioned
         /\ ghost' \in GhostState
    <2> HIDE DEF g
    <2>1. QED
      BY <1>8, <1>9, <1>10 DEF GhostState
  <1>12. Makes(t, events)
    <2>1. UNCHANGED <<endpoint, deliveries, archived, received>>
      BY <1>1
    <2> HIDE DEF g, second, event
    <2>2. event \in events
      OBVIOUS
    <2> HIDE DEF events
    <2>3. QED
      BY <1>2, <1>4, <1>5, <1>6, <1>8, <1>11, <2>1, <2>2 DEF Makes
  <1>13. /\ tx' = tx
         /\ \E state \in {"live", "deleted"} : secret' = [secret EXCEPT ![s] = state]
         /\ thread' = [thread EXCEPT ![t] = [Idle EXCEPT !.op = op, !.pc = "query",
                         !.secret = s, !.change = serial.change, !.event = event]]
    <2>1. After(op, s) \subseteq {"live", "deleted"}
      BY DEF After, TypeOK
    <2>2. QED
      BY <1>1, <2>1
  <1>14. /\ ghost'.committed = ghost.committed \cup {serial.change}
         /\ ghost'.versioned = IF op \in {"put", "rotate"} THEN ghost.versioned \cup {serial.change}
                                                           ELSE ghost.versioned
    BY <1>8, <1>11
  <1> HIDE DEF g, event
  <1> USE <1>2
  <1>15. WITNESS op \in Autocommitted, s \in Secrets,
                 event \in {"created", "updated"}
  <1>16. QED
    BY <1>2, <1>3, <1>4, <1>5, <1>7, <1>11, <1>12, <1>13, <1>14 DEF Saves

LEMMA RekeySaveMoves ==
  ASSUME TypeOK, NEW t \in Threads, SaveInRekey(t)
  PROVE  /\ thread[t].pc = "rekey" /\ secret' = secret
         /\ Makes(t, {"updated"}) /\ thread'[t].op = thread[t].op
         /\ thread'[t].answer = thread[t].answer
         /\ thread' = [thread EXCEPT ![t].secret = First(thread[t].rest), ![t].change = serial.change,
                         ![t].event = "updated", ![t].rest = @ \ {First(@)}, ![t].pc = "query"]
         /\ First(thread[t].rest) \in Secrets
         /\ tx' = [tx EXCEPT ![t].changes = @ \cup {serial.change},
                             ![t].rows = @ \cup {First(thread[t].rest)}]
         /\ tx'[t].changes = tx[t].changes \cup {serial.change}
         /\ tx'[t].deliveries = tx[t].deliveries
         /\ ghost'.committed = ghost.committed /\ ghost'.versioned = ghost.versioned
         /\ ghost' \in GhostState
  <1> DEFINE s == First(thread[t].rest)
             g == Begin(serial.change, {"updated"}, ghost)
  <1>1. /\ thread[t].pc = "rekey" /\ thread[t].rest # {} /\ ChangeRoom
        /\ tx' = [tx EXCEPT ![t].changes = @ \cup {serial.change}, ![t].rows = @ \cup {s}]
        /\ serial' = [serial EXCEPT !.change = @ + 1]
        /\ thread' = [thread EXCEPT ![t].secret = s, ![t].change = serial.change,
                        ![t].event = "updated", ![t].rest = @ \ {s}, ![t].pc = "query"]
        /\ ghost' = g
        /\ UNCHANGED <<secret, endpoint, deliveries, archived, received>>
    BY DEF SaveInRekey
  <1>2. s \in Secrets
    BY <1>1, FieldTypes, FirstOfKeys
  <1>3. /\ thread'[t].op = thread[t].op /\ thread'[t].answer = thread[t].answer
        /\ thread'[t].change = serial.change /\ thread'[t].pc = "query"
        /\ thread'[t].event = "updated" /\ thread'[t].secret = s
    <2>1. /\ thread'[t] = [thread[t] EXCEPT !.secret = s, !.change = serial.change,
                        !.event = "updated", !.rest = @ \ {s}, !.pc = "query"]
          /\ thread[t] \in ThreadState
      BY <1>1, FieldTypes DEF TypeOK
    <2> HIDE DEF s
    <2>2. QED
      BY <2>1 DEF ThreadState
  <1>4. /\ tx'[t].changes = tx[t].changes \cup {serial.change}
        /\ tx'[t].deliveries = tx[t].deliveries
    <2>1. /\ tx'[t] = [tx[t] EXCEPT !.changes = @ \cup {serial.change}, !.rows = @ \cup {s}]
          /\ tx[t] \in Transaction
      BY <1>1, FieldTypes DEF TypeOK
    <2> HIDE DEF s
    <2>2. QED
      BY <2>1 DEF Transaction
  <1>5. serial'.change = serial.change + 1 /\ serial'.switch = serial.switch
    BY <1>1, FieldTypes
  <1>6. /\ g.due = [ghost.due EXCEPT ![serial.change] = {"updated"}]
        /\ g.steady = [ghost.steady EXCEPT ![serial.change] = Active]
        /\ g.undone = ghost.undone /\ g.excused = ghost.excused
        /\ g.committed = ghost.committed /\ g.versioned = ghost.versioned
        /\ g \in GhostState
    BY <1>1, Beginning DEF Events
  <1>7. Makes(t, {"updated"})
    <2> HIDE DEF g, s
    <2>1. QED
      BY <1>1, <1>2, <1>3, <1>5, <1>6 DEF Makes
  <1>8. QED
    BY <1>1, <1>2, <1>3, <1>4, <1>6, <1>7

\* What it begins with: a change of its own, and no delivery yet.
OpensWith(t, op, s, event) ==
  /\ thread[t] = Idle /\ tx[t] = NoTx /\ secret' = secret
  /\ Makes(t, {event}) /\ thread'[t].op = op /\ thread'[t].answer = "pending"
  /\ thread' = [thread EXCEPT ![t] = [Idle EXCEPT !.op = op, !.pc = "query",
                  !.secret = s, !.change = serial.change, !.event = event]]
  /\ tx' \in [Threads -> Transaction]
  /\ tx'[t].changes = {serial.change} /\ tx'[t].deliveries = {}
  /\ ghost'.committed = ghost.committed /\ ghost'.versioned = ghost.versioned
  /\ ghost' \in GhostState

LEMMA OpenMoves ==
  ASSUME TypeOK, NEW t \in Threads, Known(t), Opens(t)
  PROVE  \E op \in {"add", "purge"}, s \in Secrets, event \in {"created", "updated", "deleted"} :
            OpensWith(t, op, s, event)
  <1>1. PICK op \in {"add", "purge"}, s \in Secrets, event \in {"created", "updated", "deleted"} :
          /\ IsIdle(t, op) /\ ChangeRoom
          /\ thread' = [thread EXCEPT ![t] = [Idle EXCEPT !.op = op, !.pc = "query",
                       !.secret = s, !.change = serial.change, !.event = event]]
          /\ \/ tx' = [tx EXCEPT ![t].changes = {serial.change}]
             \/ tx' = [tx EXCEPT ![t].changes = {serial.change}, ![t].rows = {s}]
          /\ serial' = [serial EXCEPT !.change = @ + 1]
          /\ ghost' = Begin(serial.change, {event}, ghost)
          /\ UNCHANGED <<secret, endpoint, deliveries, archived, received>>
    <2>1. CASE StartAdd(t)
      <3>1. PICK s \in Secrets, event \in {"created", "updated"} :
              /\ event = IF secret[s] = "none" THEN "created" ELSE "updated"
              /\ IsIdle(t, "add") /\ ChangeRoom
              /\ thread' = [thread EXCEPT ![t] = [Idle EXCEPT !.op = "add", !.pc = "query",
                           !.secret = s, !.change = serial.change, !.event = event]]
              /\ tx' = [tx EXCEPT ![t].changes = {serial.change}, ![t].rows = {s}]
              /\ serial' = [serial EXCEPT !.change = @ + 1]
              /\ ghost' = Begin(serial.change, {event}, ghost)
              /\ UNCHANGED <<secret, endpoint, deliveries, archived, received>>
        BY <2>1 DEF StartAdd
      <3>2. event \in {"created", "updated", "deleted"}
        BY <3>1
      <3>3. QED
        BY <3>1, <3>2
    <2>2. CASE StartPurge(t)
      BY <2>2 DEF StartPurge
    <2>3. QED
      BY <2>1, <2>2 DEF Opens
  <1> DEFINE g == Begin(serial.change, {event}, ghost)
  <1>2. thread[t] = Idle /\ tx[t] = NoTx
    BY <1>1 DEF IsIdle, Known, InTransaction, Idle
  <1>3. /\ thread'[t].op = op /\ thread'[t].answer = "pending"
        /\ thread'[t].change = serial.change /\ thread'[t].pc = "query"
        /\ thread'[t].event = event /\ thread'[t].secret = s
    <2>1. thread'[t] = [Idle EXCEPT !.op = op, !.pc = "query",
                       !.secret = s, !.change = serial.change, !.event = event]
      BY <1>1 DEF TypeOK
    <2>2. QED
      BY <2>1 DEF Idle
  <1>4. /\ tx'[t].changes = {serial.change} /\ tx'[t].deliveries = {}
        /\ tx' \in [Threads -> Transaction]
    <2>1. PICK row : /\ tx' = [tx EXCEPT ![t] = row]
                     /\ \/ row = [tx[t] EXCEPT !.changes = {serial.change}]
                        \/ row = [tx[t] EXCEPT !.changes = {serial.change}, !.rows = {s}]
      BY <1>1
    <2>2. serial.change \in Changes
      BY <1>1, NextChange
    <2>3. row \in Transaction /\ row.changes = {serial.change} /\ row.deliveries = {}
      <3>1. PICK c \in SUBSET Changes : c = {serial.change}
        BY <2>2
      <3>2. tx[t] \in Transaction
        BY FieldTypes
      <3>3. row \in Transaction /\ row.changes = c /\ row.deliveries = tx[t].deliveries
        BY <2>1, <3>1, <3>2 DEF Transaction
      <3>4. QED
        BY <1>2, <3>1, <3>3 DEF NoTx
    <2>4. QED
      BY <2>1, <2>3 DEF TypeOK
  <1>5. serial'.change = serial.change + 1 /\ serial'.switch = serial.switch
    BY <1>1, FieldTypes
  <1>6. /\ g.due = [ghost.due EXCEPT ![serial.change] = {event}]
        /\ g.steady = [ghost.steady EXCEPT ![serial.change] = Active]
        /\ g.undone = ghost.undone /\ g.excused = ghost.excused
        /\ g.committed = ghost.committed /\ g.versioned = ghost.versioned
        /\ g \in GhostState
    BY <1>1, Beginning DEF Events
  <1>7. ghost' = g
    BY <1>1
  <1> HIDE DEF g
  <1>8. Makes(t, {event})
    BY <1>1, <1>3, <1>5, <1>6, <1>7 DEF Makes
  <1>9. OpensWith(t, op, s, event)
    BY <1>1, <1>2, <1>3, <1>4, <1>6, <1>7, <1>8 DEF OpensWith
  <1>10. QED
    BY <1>9

LEMMA Opening ==
  ASSUME TypeOK, NEW t \in Threads, Known(t), Opens(t)
  PROVE  \E event \in {"created", "updated", "deleted"} :
           /\ thread[t] = Idle /\ tx[t] = NoTx /\ secret' = secret /\ Makes(t, {event})
           /\ thread'[t].op \in {"add", "purge"} /\ thread'[t].answer = "pending"
           /\ tx'[t].changes = {serial.change} /\ tx'[t].deliveries = {}
           /\ ghost'.committed = ghost.committed /\ ghost'.versioned = ghost.versioned
           /\ ghost' \in GhostState
  BY OpenMoves DEF OpensWith

\* The commit of what a transaction has written.
Stands(t) ==
  /\ ~\E d \in tx[t].deliveries : endpoint[d.call.endpoint] = "none"
  /\ thread'[t] = Idle /\ tx'[t] = NoTx
  /\ deliveries' = deliveries \cup tx[t].deliveries
  /\ serial' = serial /\ endpoint' = endpoint /\ archived' = archived /\ received' = received
  /\ ghost'.due = ghost.due /\ ghost'.steady = ghost.steady
  /\ ghost'.versioned = ghost.versioned /\ ghost'.undone = ghost.undone
  /\ ghost'.committed = ghost.committed \cup tx[t].changes
  /\ ghost.excused \subseteq ghost'.excused
  /\ \A s \in Secrets :
       \/ secret'[s] = secret[s]
       \/ secret'[s] # "none"
       \/ \A u \in Threads \ {t} : thread[u].secret = s => Working(u) \subseteq ghost'.excused
  /\ ghost' \in GhostState

\* What a commit makes of the secrets.
LEMMA CommittedSecrets ==
  ASSUME TypeOK, NEW t \in Threads, InTransaction(t)
  PROVE  /\ Committed(t) \in [Secrets -> {"none", "live", "deleted"}]
         /\ \A s \in Secrets :
              \/ Committed(t)[s] = secret[s]
              \/ Committed(t)[s] # "none"
              \/ thread[t].op = "purge" /\ s = thread[t].secret
  <1>1. secret \in [Secrets -> {"none", "live", "deleted"}]
    BY DEF TypeOK
  <1>2. CASE thread[t].op = "purge"
    BY <1>1, <1>2 DEF Committed
  <1>3. CASE thread[t].op = "add"
    BY <1>1, <1>3 DEF Committed
  <1>4. CASE thread[t].op = "rekey"
    BY <1>1, <1>4 DEF Committed
  <1>5. QED
    BY <1>2, <1>3, <1>4 DEF InTransaction

LEMMA CommitMoves ==
  ASSUME TypeOK, NEW t \in Threads, Known(t), Commit(t)
  PROVE  /\ thread[t].pc = "commit"
         /\ \/ Ends(t) /\ archived' = archived
            \/ Stands(t)
  <1>1. thread[t].pc = "commit" /\ serial' = serial /\ endpoint' = endpoint /\ archived' = archived
        /\ received' = received
    BY DEF Commit
  <1>2. CASE Fail(t) /\ secret' = secret /\ deliveries' = deliveries
    BY <1>1, <1>2, Failing DEF Ends, Quiet
  <1>3. CASE ~(Fail(t) /\ secret' = secret /\ deliveries' = deliveries)
    <2> DEFINE more == UNION {Working(u) : u \in {v \in Threads \ {t} : thread[t].op = "purge"
                                          /\ thread[v].secret = thread[t].secret}}
    <2>1. /\ ~\E d \in tx[t].deliveries : endpoint[d.call.endpoint] = "none"
          /\ deliveries' = deliveries \cup tx[t].deliveries
          /\ secret' = Committed(t)
          /\ ghost' = [ghost EXCEPT !.committed = @ \cup tx[t].changes, !.excused = @ \cup more]
          /\ tx' = [tx EXCEPT ![t] = NoTx] /\ thread' = [thread EXCEPT ![t] = Idle]
      BY <1>3 DEF Commit
    <2>2. more \subseteq Changes
      BY WorkTypes
    <2>3. \A s \in Secrets :
            \/ secret'[s] = secret[s]
            \/ secret'[s] # "none"
            \/ \A u \in Threads \ {t} : thread[u].secret = s => Working(u) \subseteq more
      <3>1. InTransaction(t)
        BY <1>1 DEF Known
      <3>2. QED
        BY <2>1, <3>1, CommittedSecrets
    <2>4. thread'[t] = Idle /\ tx'[t] = NoTx
      BY <2>1 DEF TypeOK
    <2> HIDE DEF more
    <2>5. /\ ghost'.due = ghost.due /\ ghost'.steady = ghost.steady
          /\ ghost'.versioned = ghost.versioned /\ ghost'.undone = ghost.undone
          /\ ghost'.committed = ghost.committed \cup tx[t].changes
          /\ ghost'.excused = ghost.excused \cup more
          /\ ghost' \in GhostState
      BY <2>1, <2>2, HistoryTypes, FieldTypes DEF GhostState
    <2>6. Stands(t)
      BY <1>1, <2>1, <2>3, <2>4, <2>5 DEF Stands
    <2>7. QED
      BY <1>1, <2>6
  <1>4. QED
    BY <1>2, <1>3

LEMMA CrashMoves ==
  ASSUME TypeOK, NEW t \in Threads, Crash(t)
  PROVE  /\ Ends(t) /\ archived' = archived /\ Working(t) \subseteq ghost'.excused
         /\ ghost' \in GhostState
  <1>1. /\ thread'[t] = Idle /\ tx'[t] = NoTx
    BY DEF Crash, Finish, TypeOK
  <1>2. /\ ghost'.due = ghost.due /\ ghost'.steady = ghost.steady
        /\ ghost'.versioned = ghost.versioned /\ ghost'.committed = ghost.committed
        /\ ghost'.undone = ghost.undone \cup tx[t].changes
        /\ ghost'.excused = ghost.excused \cup Working(t)
        /\ ghost' \in GhostState
    BY HistoryTypes, WorkTypes, FieldTypes DEF Crash, GhostState
  <1>3. QED
    BY <1>1, <1>2 DEF Crash, Ends, Quiet
-----------------------------------------------------------------------------
\* Ending a request keeps the types.
LEMMA FailTypes ==
  ASSUME TypeOK, NEW t \in Threads, Fail(t)
  PROVE  /\ thread' \in [Threads -> ThreadState] /\ tx' \in [Threads -> Transaction]
         /\ ghost' \in GhostState
  <1>1. thread' \in [Threads -> ThreadState] /\ tx' \in [Threads -> Transaction]
    BY InitialRecords DEF TypeOK, Fail, Finish
  <1>2. ghost' \in GhostState
    BY HistoryTypes, FieldTypes DEF Fail, GhostState
  <1>3. QED
    BY <1>1, <1>2

LEMMA WriteTypes ==
  ASSUME TypeOK, NEW t \in Threads, NEW old, NEW new \in SUBSET Delivery, Write(t, old, new)
  PROVE  deliveries' \subseteq Delivery /\ tx' \in [Threads -> Transaction]
  <1>1. CASE InTransaction(t)
    <2>1. [tx[t] EXCEPT !.deliveries = (@ \ old) \cup new] \in Transaction
      <3>1. (tx[t].deliveries \ old) \cup new \in SUBSET Delivery /\ tx[t] \in Transaction
        BY FieldTypes
      <3>2. QED
        BY <3>1 DEF Transaction
    <2>2. QED
      BY <1>1, <2>1 DEF Write, TypeOK
  <1>2. CASE ~InTransaction(t)
    BY <1>2 DEF Write, TypeOK
  <1>3. QED
    BY <1>1, <1>2

\* Steps of an announcement.
LEMMA AnnouncingKeepsTypes ==
  ASSUME TypeOK, RequestsKnown, NEW t \in Threads,
         Query(t) \/ CreateDelivery(t) \/ Post(t) \/ Settle(t) \/ Announced(t) \/ CreateVersion(t)
  PROVE  Types'
  <1>0. thread[t] \in ThreadState /\ Known(t)
    BY FieldTypes DEF RequestsKnown
  <1>00. \A pc \in Pcs : [thread[t] EXCEPT !.pc = pc] \in ThreadState
    BY <1>0 DEF ThreadState
  <1>1. CASE Query(t)
    <2> DEFINE targets == {e \in Active : thread[t].event \in Subscribed[e]}
    <2>1. targets \subseteq Endpoints
      BY DEF Active
    <2>2. thread' \in [Threads -> ThreadState]
      <3>1. thread' = [thread EXCEPT ![t].pc = "send", ![t].targets = targets]
        BY <1>1 DEF Query
      <3> HIDE DEF targets
      <3>2. [thread[t] EXCEPT !.pc = "send", !.targets = targets] \in ThreadState
        BY <1>0, <2>1 DEF ThreadState, Pcs
      <3>3. QED
        BY <3>1, <3>2 DEF TypeOK
    <2>3. QED
      BY <1>1, <2>2 DEF Query, TypeOK, Types
  <1>2. CASE CreateDelivery(t)
    <2>1. CASE Fail(t) /\ deliveries' = deliveries
      BY <1>2, <2>1, FailTypes DEF CreateDelivery, TypeOK, Types
    <2>2. CASE Write(t, {}, {Pending(t)}) /\ Goto(t, "post") /\ ghost' = ghost
      <3>1. {Pending(t)} \in SUBSET Delivery
        BY <1>2, CallTypes DEF CreateDelivery, Calling
      <3>2. deliveries' \subseteq Delivery /\ tx' \in [Threads -> Transaction]
        BY <2>2, <3>1, WriteTypes
      <3>3. thread' \in [Threads -> ThreadState]
        BY <1>00, <2>2 DEF Goto, Pcs, TypeOK
      <3>4. QED
        BY <1>2, <2>2, <3>2, <3>3 DEF CreateDelivery, TypeOK, Types
    <2>3. QED
      BY <1>2, <2>1, <2>2 DEF CreateDelivery
  <1>3. CASE Post(t)
    <2>1. ThisCall(t) \in Call
      BY <1>0, <1>3, CallTypes DEF Post, Calling, Known
    <2>2. PICK answer \in {"success", "failed"} :
            thread' = [thread EXCEPT ![t].answer = answer, ![t].pc = "settle"]
      BY <1>3 DEF Post
    <2>3. [thread[t] EXCEPT !.answer = answer, !.pc = "settle"] \in ThreadState
      BY <1>0 DEF ThreadState, Pcs
    <2>4. thread' \in [Threads -> ThreadState]
      BY <2>2, <2>3 DEF TypeOK
    <2>5. received' \subseteq Call
      BY <1>3, <2>1 DEF Post, TypeOK
    <2>6. QED
      BY <1>3, <2>4, <2>5 DEF Post, TypeOK, Types
  <1>4. CASE Settle(t)
    <2> DEFINE row == [Pending(t) EXCEPT !.status = thread[t].answer]
    <2>1. CASE Fail(t) /\ deliveries' = deliveries
      BY <1>4, <2>1, FailTypes DEF Settle, TypeOK, Types
    <2>2. CASE /\ Write(t, {Pending(t)}, {row}) /\ ghost' = ghost
               /\ thread' = [thread EXCEPT ![t].pc = "send", ![t].targets = @ \ {First(@)},
                                           ![t].answer = "pending"]
      <3>1. {row} \in SUBSET Delivery
        <4>1. Pending(t) \in Delivery
          BY <1>0, <1>4, CallTypes DEF Settle, Calling, Known
        <4>2. thread[t].answer \in {"pending", "success", "failed"}
          BY FieldTypes
        <4>3. QED
          BY <4>1, <4>2 DEF Delivery
      <3>2. deliveries' \subseteq Delivery /\ tx' \in [Threads -> Transaction]
        <4> HIDE DEF row
        <4>1. QED
          BY <2>2, <3>1, WriteTypes
      <3>3. [thread[t] EXCEPT !.pc = "send", !.targets = @ \ {First(@)}, !.answer = "pending"]
              \in ThreadState
        BY <1>0 DEF ThreadState, Pcs
      <3>4. thread' \in [Threads -> ThreadState]
        BY <2>2, <3>3 DEF TypeOK
      <3>5. QED
        BY <1>4, <2>2, <3>2, <3>4 DEF Settle, TypeOK, Types
    <2>3. QED
      BY <1>4, <2>1, <2>2 DEF Settle
  <1>5. CASE Announced(t)
    <2>1. [thread[t] EXCEPT !.event = "deleted", !.pc = "query"] \in ThreadState
      BY <1>0 DEF ThreadState, Pcs, Events
    <2>2. thread' \in [Threads -> ThreadState]
      BY <1>00, <1>5, <2>1, InitialRecords DEF Announced, Goto, Finish, Pcs, TypeOK
    <2>3. QED
      BY <1>5, <2>2 DEF Announced, TypeOK, Types
  <1>6. CASE CreateVersion(t)
    <2>1. CASE Fail(t) /\ archived' = archived
      BY <1>6, <2>1, FailTypes DEF CreateVersion, TypeOK, Types
    <2>2. CASE ~(Fail(t) /\ archived' = archived)
      <3>1. thread[t].change \in Changes
        BY <1>0, <1>6, FieldTypes DEF CreateVersion, Known
      <3>2. [thread[t] EXCEPT !.event = "rotated", !.pc = "query"] \in ThreadState
        BY <1>0 DEF ThreadState, Pcs, Events
      <3>3. thread' \in [Threads -> ThreadState]
        BY <1>0, <1>6, <2>2, <3>2, InitialRecords DEF CreateVersion, Finish, TypeOK
      <3>4. QED
        BY <1>6, <2>2, <3>1, <3>3 DEF CreateVersion, TypeOK, Types
    <2>3. QED
      BY <2>1, <2>2
  <1>7. QED
    BY <1>1, <1>2, <1>3, <1>4, <1>5, <1>6

\* Steps that make a change, and those of a transaction.
LEMMA ChangingKeepsTypes ==
  ASSUME TypeOK, RequestsKnown, NEW t \in Threads,
         Save(t) \/ StartRekey(t) \/ SaveInRekey(t) \/ RekeyDone(t) \/ Opens(t)
         \/ Commit(t) \/ Crash(t)
  PROVE  Types'
  <1>0. thread[t] \in ThreadState /\ Known(t)
    BY FieldTypes DEF RequestsKnown
  <1>00. \A pc \in Pcs : [thread[t] EXCEPT !.pc = pc] \in ThreadState
    BY <1>0 DEF ThreadState
  <1>1. CASE Save(t)
    <2>1. PICK op \in Autocommitted, s \in Secrets,
               event \in {"created", "updated"} : Saves(t, op, s, event)
      BY <1>0, <1>1, SaveMoves
    <2>2. serial.change \in Changes /\ serial' \in [change: 1..(MaxChanges + 1), switch: 0..MaxSwitches]
      BY <2>1, NextChange DEF Saves, Makes
    <2>3. [Idle EXCEPT !.op = op, !.pc = "query", !.secret = s, !.change = serial.change,
                       !.event = event] \in ThreadState
      BY <2>2 DEF Idle, ThreadState, OpNames, Pcs, Events
    <2>4. QED
      BY <2>1, <2>2, <2>3 DEF Saves, Makes, TypeOK, Types
  <1>2. CASE StartRekey(t)
    <2>1. [Idle EXCEPT !.op = "rekey", !.pc = "rekey", !.rest = {s \in Secrets : secret[s] = "live"}]
            \in ThreadState
      BY DEF Idle, ThreadState, OpNames, Pcs
    <2>2. QED
      BY <1>2, <2>1 DEF StartRekey, TypeOK, Types
  <1>3. CASE SaveInRekey(t)
    <2> DEFINE s == First(thread[t].rest)
    <2>1. /\ Makes(t, {"updated"}) /\ secret' = secret /\ s \in Secrets
          /\ thread' = [thread EXCEPT ![t].secret = s, ![t].change = serial.change,
                          ![t].event = "updated", ![t].rest = @ \ {s}, ![t].pc = "query"]
          /\ tx' = [tx EXCEPT ![t].changes = @ \cup {serial.change}, ![t].rows = @ \cup {s}]
          /\ ghost' \in GhostState
      BY <1>3, RekeySaveMoves
    <2>2. serial.change \in Changes /\ serial' \in [change: 1..(MaxChanges + 1), switch: 0..MaxSwitches]
      BY <2>1, NextChange DEF Makes
    <2> HIDE DEF s
    <2>3. [thread[t] EXCEPT !.secret = s, !.change = serial.change,
                            !.event = "updated", !.rest = @ \ {s}, !.pc = "query"] \in ThreadState
      BY <1>0, <2>1, <2>2 DEF ThreadState, Pcs, Events
    <2>4. [tx[t] EXCEPT !.changes = @ \cup {serial.change}, !.rows = @ \cup {s}] \in Transaction
      <3>1. tx[t] \in Transaction
        BY FieldTypes
      <3>2. QED
        BY <2>1, <2>2, <3>1 DEF Transaction
    <2>5. QED
      BY <2>1, <2>2, <2>3, <2>4 DEF Makes, TypeOK, Types
  <1>4. CASE RekeyDone(t)
    <2>1. CASE Fail(t)
      BY <1>4, <2>1, FailTypes DEF RekeyDone, TypeOK, Types
    <2>2. CASE Goto(t, "commit") /\ tx' = tx /\ ghost' = ghost
      BY <1>00, <1>4, <2>2 DEF RekeyDone, Goto, Pcs, TypeOK, Types
    <2>3. QED
      BY <1>4, <2>1, <2>2 DEF RekeyDone
  <1>5. CASE Opens(t)
    <2>1. PICK op \in {"add", "purge"}, s \in Secrets, event \in {"created", "updated", "deleted"} :
            OpensWith(t, op, s, event)
      BY <1>0, <1>5, OpenMoves
    <2>2. serial.change \in Changes /\ serial' \in [change: 1..(MaxChanges + 1), switch: 0..MaxSwitches]
      BY <2>1, NextChange DEF OpensWith, Makes
    <2>3. [Idle EXCEPT !.op = op, !.pc = "query", !.secret = s, !.change = serial.change,
                       !.event = event] \in ThreadState
      BY <2>2 DEF Idle, ThreadState, OpNames, Pcs, Events
    <2>4. QED
      BY <2>1, <2>2, <2>3 DEF OpensWith, Makes, TypeOK, Types
  <1>6. CASE Commit(t)
    <2>1. CASE Fail(t) /\ secret' = secret /\ deliveries' = deliveries
      BY <1>6, <2>1, FailTypes DEF Commit, TypeOK, Types
    <2>2. CASE ~(Fail(t) /\ secret' = secret /\ deliveries' = deliveries)
      <3>1. InTransaction(t)
        BY <1>0, <1>6 DEF Commit, Known
      <3>2. /\ tx' = [tx EXCEPT ![t] = NoTx] /\ thread' = [thread EXCEPT ![t] = Idle]
            /\ secret' = Committed(t)
            /\ deliveries' = deliveries \cup tx[t].deliveries
        BY <1>6, <2>2 DEF Commit
      <3>3. thread' \in [Threads -> ThreadState] /\ tx' \in [Threads -> Transaction]
        BY <3>2, InitialRecords DEF TypeOK
      <3>4. secret' \in [Secrets -> {"none", "live", "deleted"}]
        BY <3>1, <3>2, CommittedSecrets
      <3>5. deliveries' \subseteq Delivery
        BY <3>2, FieldTypes DEF TypeOK
      <3>6. ghost' \in GhostState
        <4> DEFINE more == UNION {Working(u) : u \in {v \in Threads \ {t} : thread[t].op = "purge"
                                          /\ thread[v].secret = thread[t].secret}}
        <4>1. ghost' = [ghost EXCEPT !.committed = @ \cup tx[t].changes, !.excused = @ \cup more]
          BY <1>6, <2>2 DEF Commit
        <4>2. more \subseteq Changes /\ tx[t].changes \subseteq Changes
          BY WorkTypes, FieldTypes
        <4> HIDE DEF more
        <4>3. QED
          BY <4>1, <4>2, HistoryTypes DEF GhostState
      <3>7. QED
        BY <1>6, <3>3, <3>4, <3>5, <3>6 DEF Commit, TypeOK, Types
    <2>3. QED
      BY <2>1, <2>2
  <1>7. CASE Crash(t)
    BY <1>7, CrashMoves, InitialRecords DEF Crash, Finish, TypeOK, Types
  <1>8. QED
    BY <1>1, <1>2, <1>3, <1>4, <1>5, <1>6, <1>7
-----------------------------------------------------------------------------
\* Every step keeps the changes that stand, and what a thread may know of them.
LEMMA CommittedStay ==
  ASSUME TypeOK, RequestsKnown, NEW t \in Threads, Step(t)
  PROVE  ghost.committed \subseteq ghost'.committed
  <1> Known(t)
    BY DEF RequestsKnown
  <1>1. CASE Query(t) \/ CreateDelivery(t) \/ Post(t) \/ Settle(t)
    BY <1>1, QueryMoves, CreateMoves, PostMoves, SettleMoves DEF Moves, Ends, Quiet
  <1>2. CASE Announced(t) \/ CreateVersion(t) \/ StartRekey(t) \/ RekeyDone(t) \/ Crash(t)
    BY <1>2, AnnouncedMoves, VersionMoves, RekeyMoves, CrashMoves DEF Moves, Ends, Quiet
  <1>3. CASE Save(t)
    BY <1>3, SaveMoves DEF Saves
  <1>4. CASE SaveInRekey(t)
    BY <1>4, RekeySaveMoves
  <1>5. CASE Opens(t)
    BY <1>5, Opening
  <1>6. CASE Commit(t)
    BY <1>6, CommitMoves DEF Stands, Ends, Quiet
  <1>7. QED
    BY <1>1, <1>2, <1>3, <1>4, <1>5, <1>6 DEF Step, Opens

LEMMA OthersKnown ==
  ASSUME TypeOK, RequestsKnown, NEW t \in Threads, Step(t), NEW u \in Threads, u # t
  PROVE  Known(u)' /\ Working(u)' = Working(u)
  <1>1. thread'[u] = thread[u] /\ tx'[u] = tx[u]
    BY OtherThreads
  <1>2. Known(u) /\ ghost.committed \subseteq ghost'.committed
    BY CommittedStay DEF RequestsKnown
  <1>3. InTransaction(u)' = InTransaction(u)
    BY <1>1 DEF InTransaction
  <1>4. Working(u)' = Working(u)
    BY <1>1 DEF Working
  <1>5. QED
    BY <1>1, <1>2, <1>3, <1>4 DEF Known

LEMMA EndedKnown ==
  ASSUME NEW t \in Threads, thread'[t] = Idle, tx'[t] = NoTx
  PROVE  Known(t)' /\ Working(t)' = {}
  <1>1. /\ thread'[t].pc = "idle" /\ thread'[t].op = "idle" /\ thread'[t].change = 0
        /\ thread'[t].event = "none" /\ tx'[t].changes = {} /\ tx'[t].deliveries = {}
    BY DEF Idle, NoTx
  <1>2. QED
    BY <1>1 DEF Known, Working, InTransaction, Announcing

\* A request that goes on in the same change.
LEMMA SameKnown ==
  ASSUME TypeOK, NEW t \in Threads, Known(t), SameRequest(t), ghost'.committed = ghost.committed,
         thread[t].pc # "idle", thread[t].op # "idle",
         thread'[t].pc \in Pcs \ {"idle"},
         tx'[t] = NoTx \/ InTransaction(t),
         \A d \in tx'[t].deliveries : d.call.change \in tx'[t].changes,
         thread'[t].pc \in Announcing \cup {"version"} =>
           thread'[t].change # 0 /\ thread'[t].event # "none",
         thread'[t].pc = "version" =>
           thread'[t].op \in {"put", "rotate"} /\ thread'[t].event # "rotated",
         thread'[t].pc \in {"post", "settle"} => thread'[t].targets # {},
         thread'[t].pc = "settle" => thread'[t].answer # "pending",
         thread'[t].pc = "rekey" => thread'[t].op = "rekey",
         thread'[t].pc = "commit" => InTransaction(t),
         thread'[t].op = "delete" => thread'[t].event \in {"updated", "deleted"},
         thread'[t].event = "rotated" => thread'[t].op = "rotate"
  PROVE  Known(t)' /\ Working(t)' = Working(t)
  <1>1. InTransaction(t)' = InTransaction(t)
    BY DEF InTransaction, SameRequest
  <1>2. Working(t)' = Working(t)
    BY DEF Working, SameRequest
  <1>3. QED
    BY <1>1, <1>2 DEF Known, SameRequest

\* The changes that the rows of an open transaction are about.
LEMMA WrittenRows ==
  ASSUME TypeOK, NEW t \in Threads, Known(t), NEW old, NEW new, Writes(t, old, new),
         tx'[t].changes = tx[t].changes, thread[t].change # 0,
         \A d \in new : d.call.change = thread[t].change
  PROVE  /\ tx'[t] = NoTx \/ InTransaction(t)
         /\ \A d \in tx'[t].deliveries : d.call.change \in tx'[t].changes
  BY DEF Writes, Known

LEMMA AnnouncingKnown ==
  ASSUME TypeOK, RequestsKnown, NEW t \in Threads,
         Query(t) \/ CreateDelivery(t) \/ Post(t) \/ Settle(t)
  PROVE  /\ Known(t)' /\ Working(t)' \in {Working(t), {}}
         /\ ghost'.committed = ghost.committed /\ serial' = serial
         /\ tx'[t].changes \subseteq tx[t].changes
  <1>0. /\ Known(t) /\ thread[t].pc \in Announcing
        /\ thread[t].pc # "idle" /\ thread[t].op # "idle" /\ thread[t].change # 0
        /\ thread[t].event # "none"
    <2>1. Known(t) /\ thread[t].pc \in Announcing
      BY DEF RequestsKnown, Query, CreateDelivery, Post, Settle, Announcing
    <2>2. QED
      BY <2>1 DEF Known, Announcing
  <1> USE <1>0
  <1>1. CASE Ends(t)
    BY <1>1, EndedKnown DEF Ends, Quiet, NoTx
  <1>2. CASE ~Ends(t)
    <2>1. SameRequest(t) /\ ghost'.committed = ghost.committed /\ serial' = serial
      BY <1>2, QueryMoves, CreateMoves, PostMoves, SettleMoves DEF Moves, SameCall, Quiet
    <2>2. /\ thread'[t].event = thread[t].event
          /\ thread'[t].pc \in {"send", "post", "settle"}
          /\ thread'[t].pc \in {"post", "settle"} => thread'[t].targets # {}
          /\ thread'[t].pc = "settle" => thread'[t].answer # "pending"
      <3>1. CASE Query(t)
        BY <3>1, QueryMoves DEF Moves
      <3>2. CASE CreateDelivery(t)
        BY <1>2, <3>2, CreateMoves DEF SameCall
      <3>3. CASE Post(t)
        BY <3>3, PostMoves DEF SameCall, Known
      <3>4. CASE Settle(t)
        BY <1>2, <3>4, SettleMoves
      <3>5. QED
        BY <3>1, <3>2, <3>3, <3>4
    <2>3. /\ tx'[t] = NoTx \/ InTransaction(t)
          /\ \A d \in tx'[t].deliveries : d.call.change \in tx'[t].changes
      <3>1. CASE Query(t) \/ Post(t)
        BY <3>1, QueryMoves, PostMoves DEF Moves, Known
      <3>2. CASE CreateDelivery(t)
        <4>1. Writes(t, {}, {Pending(t)}) /\ Pending(t).call.change = thread[t].change
          BY <1>2, <3>2, CreateMoves DEF Pending, ThisCall
        <4>2. QED
          BY <2>1, <4>1, WrittenRows DEF SameRequest
      <3>3. CASE Settle(t)
        <4>1. /\ Writes(t, {Pending(t)}, {[call |-> ThisCall(t), status |-> thread[t].answer]})
              /\ [call |-> ThisCall(t), status |-> thread[t].answer].call.change = thread[t].change
          BY <1>2, <3>3, SettleMoves DEF ThisCall
        <4>2. QED
          BY <2>1, <4>1, WrittenRows DEF SameRequest
      <3>4. QED
        BY <3>1, <3>2, <3>3
    <2>4. thread'[t].op = thread[t].op /\ thread'[t].change = thread[t].change
      BY <2>1 DEF SameRequest
    <2>5. Known(t)' /\ Working(t)' = Working(t)
      <3>1. thread'[t].pc \in Pcs \ {"idle"}
        BY <2>2 DEF Pcs
      <3>2. /\ thread[t].event = "rotated" => thread[t].op = "rotate"
            /\ thread[t].op = "delete" => thread[t].event \in {"updated", "deleted"}
        BY DEF Known
      <3>3. QED
        BY <2>1, <2>2, <2>3, <2>4, <3>1, <3>2, SameKnown
    <2>6. QED
      BY <2>1, <2>5 DEF SameRequest
  <1>3. QED
    BY <1>1, <1>2
-----------------------------------------------------------------------------
LEMMA RequestsKnownOn ==
  ASSUME TypeOK, RequestsKnown, NEW t \in Threads,
         Announced(t) \/ CreateVersion(t) \/ StartRekey(t) \/ RekeyDone(t) \/ Crash(t)
  PROVE  /\ Known(t)' /\ Working(t)' \in {Working(t), {}}
         /\ ghost'.committed = ghost.committed /\ serial' = serial
         /\ tx'[t].changes \subseteq tx[t].changes
  <1>0. Known(t)
    BY DEF RequestsKnown
  <1>1. CASE Ends(t)
    BY <1>1, EndedKnown DEF Ends, Quiet, NoTx
  <1>2. CASE StartRekey(t)
    <2>1. /\ Quiet /\ tx' = tx /\ tx[t] = NoTx
          /\ thread'[t].op = "rekey" /\ thread'[t].pc = "rekey" /\ thread'[t].change = 0
          /\ thread'[t].event = "none" /\ thread'[t].answer = "pending"
      <3>1. thread[t].pc # "rekey"
        BY <1>2 DEF StartRekey, IsIdle, Idle
      <3>2. QED
        BY <1>0, <1>2, <3>1, RekeyMoves
    <2>2. tx'[t].changes = {} /\ tx'[t].deliveries = {}
      BY <2>1 DEF NoTx
    <2>3. QED
      BY <2>1, <2>2 DEF Known, Working, InTransaction, Announcing, Quiet
  <1>3. CASE ~Ends(t) /\ ~StartRekey(t)
    <2>1. /\ SameRequest(t) /\ ghost'.committed = ghost.committed /\ serial' = serial /\ tx' = tx
          /\ thread[t].pc \in {"send", "version", "rekey"}
      BY <1>0, <1>3, AnnouncedMoves, VersionMoves, RekeyMoves, CrashMoves DEF Moves, Quiet, Idle,
         RekeyDone
    <2>2. /\ thread[t].pc # "idle" /\ thread[t].op # "idle"
          /\ thread[t].pc \in {"send", "version"} => thread[t].change # 0 /\ thread[t].event # "none"
          /\ thread[t].op = "delete" => thread[t].event \in {"updated", "deleted"}
          /\ thread[t].event = "rotated" => thread[t].op = "rotate"
      BY <1>0, <2>1 DEF Known, Announcing
    <2>3. /\ tx'[t] = NoTx \/ InTransaction(t)
          /\ \A d \in tx'[t].deliveries : d.call.change \in tx'[t].changes
      BY <1>0, <2>1 DEF Known
    <2>4. thread'[t].op = thread[t].op /\ thread'[t].change = thread[t].change
      BY <2>1 DEF SameRequest
    <2>5. /\ thread'[t].pc \in {"query", "version", "rekey", "commit"}
          /\ thread'[t].pc \in {"query", "version"} =>
               thread[t].pc \in {"send", "version"} /\ thread'[t].event # "none"
          /\ thread'[t].pc = "version" =>
               thread'[t].op \in {"put", "rotate"} /\ thread'[t].event # "rotated"
          /\ thread'[t].pc = "rekey" => thread'[t].op = "rekey"
          /\ thread'[t].pc = "commit" => InTransaction(t)
          /\ thread'[t].op = "delete" => thread'[t].event \in {"updated", "deleted"}
          /\ thread'[t].event = "rotated" => thread'[t].op = "rotate"
      <3>1. CASE Announced(t)
        BY <1>0, <1>3, <2>2, <2>4, <3>1, AnnouncedMoves DEF SameCall
      <3>2. CASE CreateVersion(t)
        BY <1>0, <1>3, <2>2, <2>4, <3>2, VersionMoves
      <3>3. CASE RekeyDone(t)
        <4>1. thread[t].pc = "rekey" /\ thread'[t].pc = "commit" /\ SameCall(t)
          BY <1>0, <1>3, <3>3, RekeyMoves DEF RekeyDone, Idle
        <4>2. thread[t].op = "rekey"
          BY <1>0, <4>1 DEF Known
        <4>3. QED
          BY <2>2, <2>4, <4>1, <4>2 DEF SameCall, InTransaction
      <3>4. CASE Crash(t)
        BY <1>3, <3>4, CrashMoves
      <3>5. QED
        BY <1>3, <3>1, <3>2, <3>3, <3>4
    <2>6. Known(t)' /\ Working(t)' = Working(t)
      <3>1. /\ thread'[t].pc \in Pcs \ {"idle"} /\ thread'[t].pc \notin {"post", "settle"}
            /\ thread'[t].pc \in Announcing \cup {"version"} =>
                 thread'[t].change # 0 /\ thread'[t].event # "none"
        BY <2>2, <2>4, <2>5 DEF Pcs, Announcing
      <3>2. QED
        BY <1>0, <2>1, <2>2, <2>3, <2>5, <3>1, SameKnown
    <2>7. QED
      BY <2>1, <2>6
  <1>4. QED
    BY <1>1, <1>2, <1>3

LEMMA MakersKnown ==
  ASSUME TypeOK, RequestsKnown, NEW t \in Threads, Save(t) \/ SaveInRekey(t) \/ Opens(t)
  PROVE  /\ Known(t)' /\ Working(t)' \subseteq Working(t) \cup {serial.change}
         /\ serial'.change = serial.change + 1 /\ serial.change \in Changes
         /\ \/ ghost'.committed = ghost.committed \cup {serial.change} /\ tx'[t].changes = {}
            \/ /\ ghost'.committed = ghost.committed
               /\ tx'[t].changes \subseteq tx[t].changes \cup {serial.change}
  <1>0. Known(t)
    BY DEF RequestsKnown
  <1>1. CASE Save(t)
    <2>1. PICK op \in Autocommitted, s \in Secrets,
               event \in {"created", "updated"} : Saves(t, op, s, event)
      BY <1>0, <1>1, SaveMoves
    <2>2. /\ serial.change \in Changes /\ serial'.change = serial.change + 1
          /\ thread'[t].op = op /\ thread'[t].pc = "query" /\ thread'[t].secret = s
          /\ thread'[t].change = serial.change /\ thread'[t].event = event /\ tx'[t] = NoTx
          /\ ghost'.committed = ghost.committed \cup {serial.change}
          /\ op = "delete" => event = "updated"
      BY <2>1, NextChange DEF Saves, Makes
    <2>3. tx'[t].changes = {} /\ tx'[t].deliveries = {}
      BY <2>2 DEF NoTx
    <2>4. QED
      BY <2>2, <2>3, ChangesNumbered DEF Known, Working, InTransaction, Announcing
  <1>2. CASE SaveInRekey(t)
    <2>1. /\ thread[t].pc = "rekey" /\ Makes(t, {"updated"}) /\ thread'[t].op = thread[t].op
          /\ tx'[t].changes = tx[t].changes \cup {serial.change}
          /\ tx'[t].deliveries = tx[t].deliveries
          /\ ghost'.committed = ghost.committed
      BY <1>2, RekeySaveMoves
    <2>2. /\ serial.change \in Changes /\ serial'.change = serial.change + 1
          /\ thread'[t].pc = "query" /\ thread'[t].secret \in Secrets
          /\ thread'[t].change = serial.change /\ thread'[t].event = "updated"
      BY <2>1, NextChange DEF Makes
    <2>3. thread'[t].op = "rekey" /\ \A d \in tx[t].deliveries : d.call.change \in tx[t].changes
      BY <1>0, <2>1 DEF Known
    <2>4. QED
      BY <2>1, <2>2, <2>3, ChangesNumbered DEF Known, Working, InTransaction, Announcing
  <1>3. CASE Opens(t)
    <2>1. PICK event \in {"created", "updated", "deleted"} :
            /\ Makes(t, {event}) /\ thread'[t].op \in {"add", "purge"}
            /\ tx'[t].changes = {serial.change} /\ tx'[t].deliveries = {}
            /\ ghost'.committed = ghost.committed
      BY <1>0, <1>3, Opening
    <2>2. /\ serial.change \in Changes /\ serial'.change = serial.change + 1
          /\ thread'[t].pc = "query" /\ thread'[t].secret \in Secrets
          /\ thread'[t].change = serial.change /\ thread'[t].event = event
      BY <2>1, NextChange DEF Makes
    <2>4. QED
      BY <2>1, <2>2, ChangesNumbered DEF Known, Working, InTransaction, Announcing
  <1>4. QED
    BY <1>1, <1>2, <1>3

LEMMA CommitKnown ==
  ASSUME TypeOK, RequestsKnown, NEW t \in Threads, Commit(t)
  PROVE  /\ Known(t)' /\ Working(t)' = {} /\ tx'[t].changes = {} /\ serial' = serial
         /\ ghost'.committed \subseteq ghost.committed \cup tx[t].changes
  <1>1. Known(t)
    BY DEF RequestsKnown
  <1>2. Ends(t) \/ Stands(t)
    BY <1>1, CommitMoves
  <1>3. QED
    BY <1>2, EndedKnown DEF Stands, Ends, Quiet, NoTx

LEMMA StepKnown ==
  ASSUME TypeInvariant, NEW t \in Threads, Step(t)
  PROVE  RequestsKnown' /\ ChangesOwned'
  <1>0. TypeOK /\ RequestsKnown /\ ChangesOwned
    BY DEF TypeInvariant
  <1>1. \A u \in Threads : u # t => Known(u)' /\ Working(u)' = Working(u) /\ tx'[u] = tx[u]
    BY <1>0, OthersKnown, OtherThreads
  <1>2. /\ \A u \in Threads : Working(u) \subseteq Changes /\ tx[u].changes \subseteq Working(u)
        /\ serial.change \in Nat /\ Changes \subseteq Nat
    BY <1>0, WorkTypes, FieldTypes, ChangesNumbered
  <1>3. ghost.committed \subseteq Changes
    BY <1>0, HistoryTypes
  <1>4. CASE /\ Known(t)' /\ Working(t)' \in {Working(t), {}}
             /\ ghost'.committed = ghost.committed /\ serial' = serial
             /\ tx'[t].changes \subseteq tx[t].changes
    BY <1>0, <1>1, <1>4 DEF RequestsKnown, ChangesOwned
  <1>5. CASE Save(t) \/ SaveInRekey(t) \/ Opens(t)
    <2>1. /\ Known(t)' /\ Working(t)' \subseteq Working(t) \cup {serial.change}
          /\ serial'.change = serial.change + 1 /\ serial.change \in Changes
          /\ \/ ghost'.committed = ghost.committed \cup {serial.change} /\ tx'[t].changes = {}
             \/ /\ ghost'.committed = ghost.committed
                /\ tx'[t].changes \subseteq tx[t].changes \cup {serial.change}
      BY <1>0, <1>5, MakersKnown
    <2>2. RequestsKnown'
      BY <1>1, <2>1 DEF RequestsKnown
    <2>3. \A u \in Threads : \A c \in Working(u) : c \in Nat /\ c < serial.change
      BY <1>0, <1>2 DEF ChangesOwned
    <2>4. \A u \in Threads : \A c \in Working(u)' : c < serial'.change
      BY <1>1, <1>2, <2>1, <2>3
    <2>5. \A u, v \in Threads : u # v => Working(u)' \cap Working(v)' = {}
      <3>1. \A u \in Threads : serial.change \notin Working(u)
        BY <1>2, <2>3
      <3>2. \A u, v \in Threads : u # v => Working(u) \cap Working(v) = {}
        BY <1>0 DEF ChangesOwned
      <3>3. QED
        BY <1>1, <2>1, <3>1, <3>2
    <2>6. \A c \in ghost'.committed : c < serial'.change /\ \A u \in Threads : c \notin tx'[u].changes
      <3>1. \A c \in ghost.committed :
              c \in Nat /\ c < serial.change /\ \A u \in Threads : c \notin tx[u].changes
        BY <1>0, <1>2, <1>3 DEF ChangesOwned
      <3>2. \A u \in Threads : serial.change \notin tx[u].changes
        BY <1>2, <2>3
      <3>3. QED
        BY <1>1, <1>2, <2>1, <3>1, <3>2
    <2>7. QED
      BY <2>2, <2>4, <2>5, <2>6 DEF ChangesOwned
  <1>6. CASE Commit(t)
    <2>1. /\ Known(t)' /\ Working(t)' = {} /\ tx'[t].changes = {} /\ serial' = serial
          /\ ghost'.committed \subseteq ghost.committed \cup tx[t].changes
      BY <1>0, <1>6, CommitKnown
    <2>2. RequestsKnown'
      BY <1>1, <2>1 DEF RequestsKnown
    <2>3. \A u \in Threads : u # t => Working(u) \cap Working(t) = {}
      BY <1>0 DEF ChangesOwned
    <2>4. \A c \in ghost'.committed : c < serial'.change /\ \A u \in Threads : c \notin tx'[u].changes
      <3>1. ASSUME NEW c \in ghost'.committed, c \notin ghost.committed
            PROVE  c < serial.change /\ \A u \in Threads : c \notin tx'[u].changes
        BY <1>0, <1>1, <1>2, <2>1, <2>3, <3>1 DEF ChangesOwned
      <3>2. QED
        BY <1>0, <1>1, <2>1, <3>1 DEF ChangesOwned
    <2>5. QED
      BY <1>0, <1>1, <2>1, <2>2, <2>4 DEF ChangesOwned
  <1>7. QED
    <2>1. CASE Query(t) \/ CreateDelivery(t) \/ Post(t) \/ Settle(t)
      BY <1>0, <1>4, <2>1, AnnouncingKnown
    <2>2. CASE Announced(t) \/ CreateVersion(t) \/ StartRekey(t) \/ RekeyDone(t) \/ Crash(t)
      BY <1>0, <1>4, <2>2, RequestsKnownOn
    <2>3. QED
      BY <1>5, <1>6, <2>1, <2>2 DEF Step, Opens
-----------------------------------------------------------------------------
\* Rows of another request's changes are none of this one's.
LEMMA OthersRows ==
  ASSUME TypeInvariant, NEW t \in Threads, Step(t), NEW u \in Threads, u # t, NEW d \in Delivery,
         d \in deliveries \cup tx[u].deliveries \/ d.call.change \in Working(t)
  PROVE  RowNew(u, d)'
  <1>1. thread'[u] = thread[u]
    BY OtherThreads DEF TypeInvariant
  <1>2. RowNew(u, d)' = RowNew(u, d)
    BY <1>1 DEF RowNew, Later, Pending, ThisCall
  <1>3. CASE d \in deliveries \cup tx[u].deliveries
    BY <1>2, <1>3 DEF TypeInvariant, RowsNew
  <1>4. CASE d.call.change \in Working(t)
    <2>1. Working(t) \cap Working(u) = {} /\ d.call.change \in Changes
      BY <1>4, WorkTypes DEF TypeInvariant, ChangesOwned
    <2>2. d.call.change # thread[u].change
      BY <1>4, <2>1, ChangesNumbered DEF Working
    <2>3. QED
      BY <1>2, <2>2 DEF RowNew
  <1>5. QED
    BY <1>3, <1>4

\* What is left to show of a step is about its own thread and the rows it adds.
LEMMA RowsCombine ==
  ASSUME TypeInvariant, NEW t \in Threads, Step(t), Types',
         \A d \in deliveries' : d \in deliveries \/ d.call.change \in Working(t),
         \A d \in deliveries' : d.call.change \in ghost'.committed,
         OneRow(deliveries'), OneRow(tx'[t].deliveries),
         \A d \in deliveries' \cup tx'[t].deliveries : RowNew(t, d)'
  PROVE  RowsNew'
  <1>1. ASSUME NEW u \in Threads, u # t
        PROVE  OneRow(tx'[u].deliveries) /\ \A d \in deliveries' \cup tx'[u].deliveries : RowNew(u, d)'
    <2>1. tx'[u] = tx[u]
      BY <1>1, OtherThreads DEF TypeInvariant
    <2>2. tx[u].deliveries \subseteq Delivery /\ deliveries' \subseteq Delivery
      BY FieldTypes DEF TypeInvariant, Types
    <2>3. OneRow(tx[u].deliveries)
      BY DEF TypeInvariant, RowsNew
    <2>4. QED
      BY <1>1, <2>1, <2>2, <2>3, OthersRows
  <1>2. QED
    BY <1>1 DEF RowsNew

\* Nothing is announced by a thread that is idle.
LEMMA EndedRows ==
  ASSUME TypeOK, NEW t \in Threads, thread'[t] = Idle, tx'[t] = NoTx
  PROVE  OneRow(tx'[t].deliveries) /\ \A d \in Delivery : RowNew(t, d)'
  <1>1. thread'[t].change = 0 /\ tx'[t].deliveries = {}
    BY DEF Idle, NoTx
  <1>2. \A d \in Delivery : d.call.change # 0
    BY FieldTypes, ChangesNumbered
  <1>3. QED
    BY <1>1, <1>2 DEF OneRow, RowNew

\* The rows that are there when a request is about to make or to settle a call.
LEMMA CallsRows ==
  ASSUME TypeInvariant, NEW t \in Threads, thread[t].pc \in {"send", "settle"},
         thread[t].targets # {}, NEW d \in deliveries \cup tx[t].deliveries, d.call = ThisCall(t)
  PROVE  thread[t].pc = "settle" /\ d = Pending(t)
  <1>1. First(thread[t].targets) \in thread[t].targets
    BY CallTypes DEF TypeInvariant, Calling
  <1>2. /\ d.call.change = thread[t].change /\ d.call.event = thread[t].event
        /\ d.call.endpoint \in thread[t].targets
    BY <1>1 DEF ThisCall
  <1>3. RowNew(t, d)
    BY DEF TypeInvariant, RowsNew
  <1>4. QED
    BY <1>2, <1>3 DEF RowNew

\* Steps that write no row.
LEMMA MovesKeepRows ==
  ASSUME TypeInvariant, NEW t \in Threads, Types', deliveries' = deliveries,
         tx'[t].deliveries = tx[t].deliveries,
         Query(t) \/ Post(t) \/ Announced(t) \/ CreateVersion(t) \/ StartRekey(t) \/ RekeyDone(t),
         ~Ends(t)
  PROVE  \A d \in deliveries' \cup tx'[t].deliveries : RowNew(t, d)'
  <1>0. TypeOK /\ Known(t)
    BY DEF TypeInvariant, RequestsKnown
  <1> SUFFICES ASSUME NEW d \in deliveries \cup tx[t].deliveries
               PROVE  RowNew(t, d)'
    OBVIOUS
  <1>1. RowNew(t, d) /\ d \in Delivery
    BY <1>0, FieldTypes DEF TypeInvariant, RowsNew, TypeOK
  <1>2. CASE Query(t)
    BY <1>0, <1>1, <1>2, QueryMoves DEF RowNew, Later, Moves, SameRequest
  <1>3. CASE Post(t)
    <2>1. Pending(t)' = Pending(t)
      BY <1>0, <1>3, PostMoves DEF Pending, ThisCall, SameCall, SameRequest
    <2>2. QED
      BY <1>0, <1>1, <1>3, <2>1, PostMoves DEF RowNew, Later, SameCall, SameRequest
  <1>4. CASE Announced(t)
    <2>1. CASE thread[t].op = "delete" /\ thread[t].event = "updated"
      <3>1. /\ thread'[t].event = "deleted" /\ thread'[t].op = "delete"
            /\ thread'[t].change = thread[t].change
        BY <1>0, <1>4, <2>1, AnnouncedMoves DEF Moves, SameRequest, InTransaction
      <3>2. Later(t) = {"deleted"} /\ Later(t)' = {}
        BY <2>1, <3>1 DEF Later
      <3>3. QED
        BY <1>1, <3>1, <3>2 DEF RowNew
    <2>2. CASE ~(thread[t].op = "delete" /\ thread[t].event = "updated")
      <3>1. /\ SameCall(t) /\ thread[t].pc = "send"
            /\ thread'[t].pc \in {"version", "rekey", "commit"}
        BY <1>0, <1>4, <2>2, AnnouncedMoves
      <3>2. QED
        BY <1>1, <3>1 DEF RowNew, Later, SameCall, SameRequest
    <2>3. QED
      BY <2>1, <2>2
  <1>5. CASE CreateVersion(t)
    <2>1. /\ thread[t].op = "rotate" /\ thread[t].event # "rotated"
          /\ thread'[t].event = "rotated" /\ thread'[t].op = "rotate"
          /\ thread'[t].change = thread[t].change
      BY <1>0, <1>5, VersionMoves DEF Moves, SameRequest
    <2>2. Later(t) = {"rotated"} /\ Later(t)' = {}
      BY <2>1 DEF Later
    <2>3. QED
      BY <1>1, <2>1, <2>2 DEF RowNew
  <1>6. CASE StartRekey(t) \/ RekeyDone(t)
    <2>1. CASE thread'[t].change = 0
      BY <1>0, <1>1, <2>1, FieldTypes, ChangesNumbered DEF RowNew
    <2>2. CASE thread'[t].change # 0
      <3>1. SameCall(t) /\ thread'[t].pc = "commit"
        BY <1>0, <1>6, <2>2, RekeyMoves
      <3>2. QED
        BY <1>1, <3>1 DEF RowNew, Later, SameCall, SameRequest
    <2>3. QED
      BY <2>1, <2>2
  <1>7. QED
    BY <1>2, <1>3, <1>4, <1>5, <1>6
-----------------------------------------------------------------------------
\* Replacing the rows of one call by one row of it.
LEMMA RowReplaced ==
  ASSUME NEW rows, NEW row, NEW old, OneRow(rows),
         \A d \in rows \ old : d.call # row.call
  PROVE  OneRow((rows \ old) \cup {row})
  BY DEF OneRow

\* Writing the row of a call.
LEMMA WritesRows ==
  ASSUME TypeInvariant, NEW t \in Threads, Step(t), Types', NEW row \in Delivery,
         NEW old, Writes(t, old, {row}), SameRequest(t),
         thread[t].pc \in {"send", "settle"}, thread[t].targets # {},
         row.call = ThisCall(t), thread[t].pc = "settle" => Pending(t) \in old,
         ghost'.committed = ghost.committed,
         \A d \in (deliveries \cup tx[t].deliveries) \ old : RowNew(t, d)',
         RowNew(t, row)'
  PROVE  RowsNew'
  <1>0. TypeOK /\ Known(t) /\ RowsNew /\ ChangesOwned
    BY DEF TypeInvariant, RequestsKnown
  <1>1. thread[t].change \in Working(t) /\ row.call.change = thread[t].change
    <2>1. thread[t].change # 0
      BY <1>0 DEF Known, Announcing
    <2>2. QED
      BY <2>1 DEF Working, ThisCall
  <1>2. \A d \in (deliveries \cup tx[t].deliveries) \ old : d.call # row.call
    BY CallsRows
  <1>3. OneRow(deliveries) /\ OneRow(tx[t].deliveries)
    BY <1>0 DEF RowsNew
  <1>4. CASE InTransaction(t)
    <2>1. /\ tx'[t].deliveries = (tx[t].deliveries \ old) \cup {row} /\ deliveries' = deliveries
      BY <1>4 DEF Writes
    <2>2. OneRow(tx'[t].deliveries)
      <3>1. OneRow((tx[t].deliveries \ old) \cup {row})
        BY <1>2, <1>3, RowReplaced
      <3>2. QED
        BY <2>1, <3>1
    <2>3. \A d \in deliveries : d.call.change # thread[t].change
      <3>1. thread[t].change \in tx[t].changes
        BY <1>0, <1>1, <1>4 DEF Known, Working
      <3>2. QED
        BY <1>0, <3>1 DEF RowsNew, ChangesOwned
    <2>5. \A d \in deliveries : RowNew(t, d)'
      BY <2>3 DEF RowNew, SameRequest
    <2>7. \A d \in deliveries' \cup tx'[t].deliveries : RowNew(t, d)'
      BY <2>1, <2>5
    <2>8. QED
      BY <1>0, <1>3, <2>1, <2>2, <2>7, RowsCombine DEF RowsNew
  <1>5. CASE ~InTransaction(t)
    <2>1. deliveries' = (deliveries \ old) \cup {row} /\ tx'[t] = tx[t] /\ tx[t] = NoTx
      BY <1>0, <1>5 DEF Writes, Known
    <2>2. OneRow(deliveries') /\ tx'[t].deliveries = {}
      <3>1. OneRow((deliveries \ old) \cup {row})
        BY <1>2, <1>3, RowReplaced
      <3>2. QED
        BY <2>1, <3>1 DEF NoTx
    <2>3. row.call.change \in ghost.committed
      BY <1>0, <1>1, <1>5 DEF Known
    <2>4. \A d \in deliveries' \cup tx'[t].deliveries : RowNew(t, d)'
      BY <2>1, <2>2
    <2>5. OneRow(tx'[t].deliveries)
      BY <2>2 DEF OneRow
    <2>6. \A d \in deliveries' : /\ d \in deliveries \/ d.call.change \in Working(t)
                                 /\ d.call.change \in ghost'.committed
      BY <1>0, <1>1, <2>1, <2>3 DEF RowsNew
    <2>7. QED
      BY <2>2, <2>4, <2>5, <2>6, RowsCombine
  <1>6. QED
    BY <1>4, <1>5

LEMMA StepRowsNew ==
  ASSUME TypeInvariant, NEW t \in Threads, Step(t), Types'
  PROVE  RowsNew'
  <1>0. TypeOK /\ RequestsKnown /\ Known(t) /\ RowsNew /\ ChangesOwned
    BY DEF TypeInvariant, RequestsKnown
  <1>1. /\ tx[t].deliveries \subseteq Delivery /\ deliveries' \subseteq Delivery
        /\ tx'[t].deliveries \subseteq Delivery
    BY <1>0, FieldTypes DEF Types, Transaction
  <1>2. /\ OneRow(deliveries) /\ OneRow(tx[t].deliveries)
        /\ \A d \in deliveries : d.call.change \in ghost.committed
        /\ \A d \in deliveries \cup tx[t].deliveries : RowNew(t, d)
    BY <1>0 DEF RowsNew
  <1>3. ghost.committed \subseteq ghost'.committed
    BY <1>0, CommittedStay
  <1>4. CASE Ends(t)
    BY <1>0, <1>1, <1>2, <1>3, <1>4, EndedRows, RowsCombine DEF Ends
  <1>5. CASE /\ ~Ends(t)
             /\ \/ Query(t) \/ Post(t) \/ Announced(t) \/ CreateVersion(t)
                \/ StartRekey(t) \/ RekeyDone(t)
    <2>1. deliveries' = deliveries /\ tx'[t].deliveries = tx[t].deliveries
      BY <1>0, <1>5, QueryMoves, PostMoves, AnnouncedMoves, VersionMoves, RekeyMoves DEF Moves
    <2>2. \A d \in deliveries' \cup tx'[t].deliveries : RowNew(t, d)'
      BY <1>5, <2>1, MovesKeepRows
    <2>3. QED
      BY <1>2, <1>3, <2>1, <2>2, RowsCombine
  <1>6. CASE CreateDelivery(t) /\ ~Ends(t)
    <2>1. /\ thread[t].pc = "send" /\ thread[t].targets # {}
          /\ ghost' = ghost /\ SameCall(t) /\ Writes(t, {}, {Pending(t)})
          /\ thread'[t].pc = "post"
      BY <1>0, <1>6, CreateMoves
    <2>2. Pending(t) \in Delivery /\ Pending(t).call = ThisCall(t)
      BY <1>0, <2>1, CallTypes DEF Calling, Pending
    <2>3. SameRequest(t) /\ Pending(t)' = Pending(t)
      BY <2>1 DEF SameCall, SameRequest, Pending, ThisCall
    <2>4. \A d \in (deliveries \cup tx[t].deliveries) \ {} : RowNew(t, d)'
      BY <1>2, <2>1, <2>3 DEF RowNew, Later, SameCall, SameRequest
    <2>5. PICK row : row = Pending(t)
      OBVIOUS
    <2>6. RowNew(t, row)'
      <3>1. row.call.event = thread'[t].event /\ row = Pending(t)'
        BY <2>1, <2>3, <2>5 DEF Pending, ThisCall, SameCall
      <3>2. thread'[t].event \notin Later(t)'
        BY DEF Later
      <3>3. QED
        BY <2>1, <3>1, <3>2 DEF RowNew
    <2>7. Writes(t, {}, {row}) /\ row \in Delivery /\ row.call = ThisCall(t)
      BY <2>1, <2>2, <2>5
    <2>8. QED
      BY <2>1, <2>3, <2>4, <2>6, <2>7, WritesRows
  <1>7. CASE Settle(t) /\ ~Ends(t)
    <2>0. PICK row : row = [call |-> ThisCall(t), status |-> thread[t].answer]
      OBVIOUS
    <2>1. /\ thread[t].pc = "settle" /\ ghost' = ghost /\ SameRequest(t)
          /\ thread'[t].event = thread[t].event
          /\ Writes(t, {Pending(t)}, {row})
          /\ thread'[t].pc = "send"
          /\ thread'[t].targets = thread[t].targets \ {First(thread[t].targets)}
      BY <1>0, <1>7, <2>0, SettleMoves
    <2>2. thread[t].targets # {} /\ thread[t].answer \in {"pending", "success", "failed"}
      BY <1>0, <2>1, FieldTypes DEF Known
    <2>3. row \in Delivery /\ row.call = ThisCall(t)
      BY <1>0, <2>0, <2>1, <2>2, CallTypes DEF Calling, Delivery
    <2>4. Later(t)' = Later(t)
      BY <2>1 DEF Later, SameRequest
    <2>5. \A d \in (deliveries \cup tx[t].deliveries) \ {Pending(t)} : RowNew(t, d)'
      BY <1>2, <2>1, <2>4 DEF RowNew, SameRequest
    <2>6. RowNew(t, row)'
      <3>1. /\ row.call.event = thread'[t].event
            /\ row.call.endpoint = First(thread[t].targets)
        BY <2>0, <2>1 DEF ThisCall
      <3>2. thread'[t].event \notin Later(t)'
        BY DEF Later
      <3>3. QED
        BY <2>1, <3>1, <3>2 DEF RowNew
    <2>7. QED
      BY <2>1, <2>2, <2>3, <2>5, <2>6, WritesRows
  <1>8. CASE Save(t) \/ SaveInRekey(t) \/ Opens(t)
    <2>1. /\ deliveries' = deliveries /\ thread'[t].change = serial.change
          /\ tx'[t].deliveries \subseteq tx[t].deliveries
      <3>1. CASE Save(t)
        BY <1>0, <3>1, SaveMoves, ZenonT(40) DEF Saves, Makes
      <3>2. CASE SaveInRekey(t)
        BY <1>0, <3>2, RekeySaveMoves DEF Makes
      <3>3. CASE Opens(t)
        BY <1>0, <3>3, Opening DEF Makes
      <3>4. QED
        BY <1>8, <3>1, <3>2, <3>3
    <2>2. \A d \in deliveries \cup tx[t].deliveries : d.call.change < serial.change
      <3>1. \A d \in tx[t].deliveries : d.call.change \in Working(t)
        BY <1>0, WorkTypes DEF Known
      <3>2. QED
        BY <1>0, <1>2, <3>1 DEF ChangesOwned
    <2>3. \A d \in deliveries' \cup tx'[t].deliveries : RowNew(t, d)'
      <3>1. serial.change \in Nat
        BY <1>0, FieldTypes
      <3>2. QED
        BY <2>1, <2>2, <3>1 DEF RowNew
    <2>4. OneRow(tx'[t].deliveries)
      BY <1>2, <2>1 DEF OneRow
    <2>5. QED
      BY <1>2, <1>3, <2>1, <2>3, <2>4, RowsCombine
  <1>9. CASE Commit(t) /\ ~Ends(t)
    <2>1. Stands(t)
      BY <1>0, <1>9, CommitMoves
    <2>2. \A d \in tx[t].deliveries : d.call.change \in tx[t].changes
      BY <1>0 DEF Known
    <2>3. \A d \in deliveries' : /\ d \in deliveries \/ d.call.change \in Working(t)
                                 /\ d.call.change \in ghost'.committed
      BY <1>0, <1>2, <2>1, <2>2, WorkTypes DEF Stands
    <2>4. \A d \in deliveries, e \in tx[t].deliveries : d.call # e.call
      BY <1>0, <1>2, <2>2 DEF ChangesOwned
    <2>5. OneRow(deliveries')
      BY <1>2, <2>1, <2>4 DEF Stands, OneRow
    <2>6. OneRow(tx'[t].deliveries) /\ \A d \in Delivery : RowNew(t, d)'
      BY <1>0, <2>1, EndedRows DEF Stands
    <2>7. QED
      BY <1>1, <2>3, <2>5, <2>6, RowsCombine
  <1>10. CASE Crash(t)
    BY <1>0, <1>4, <1>10, CrashMoves
  <1>11. QED
    BY <1>4, <1>5, <1>6, <1>7, <1>8, <1>9, <1>10 DEF Step, Opens
-----------------------------------------------------------------------------
\* What an operator does to an endpoint: nothing that a thread has in hand.
LEMMA SwitchMoves ==
  ASSUME TypeOK, SwitchEndpoint
  PROVE  \E e \in Endpoints, state \in {"active", "inactive", "none"} :
           /\ endpoint' = [endpoint EXCEPT ![e] = state] /\ endpoint[e] # "none"
           /\ deliveries' = IF state = "none" THEN {d \in deliveries : d.call.endpoint # e}
                                              ELSE deliveries
           /\ serial'.change = serial.change /\ thread' = thread /\ tx' = tx
           /\ secret' = secret /\ archived' = archived /\ received' = received
           /\ ghost'.steady = [c \in Changes |-> ghost.steady[c] \ {e}]
           /\ ghost'.due = ghost.due /\ ghost'.versioned = ghost.versioned
           /\ ghost'.committed = ghost.committed /\ ghost'.undone = ghost.undone
           /\ ghost.excused \subseteq ghost'.excused
           /\ state = "none" => \A t \in Threads : Working(t) \subseteq ghost'.excused
           /\ Types'
  <1>1. PICK e \in Endpoints, state \in {"active", "inactive", "none"} :
          /\ endpoint[e] \notin {"none", state}
          /\ endpoint' = [endpoint EXCEPT ![e] = state]
          /\ deliveries' = IF state = "none" THEN {d \in deliveries : d.call.endpoint # e}
                                             ELSE deliveries
          /\ ghost' = [ghost EXCEPT
            !.steady = [c \in Changes |-> @[c] \ {e}],
            !.excused = IF state = "none" THEN @ \cup UNION {Working(t) : t \in Threads} ELSE @]
    BY DEF SwitchEndpoint
  <1>2. /\ serial' = [serial EXCEPT !.switch = @ + 1] /\ serial.switch < MaxSwitches
        /\ thread' = thread /\ tx' = tx /\ secret' = secret /\ archived' = archived
        /\ received' = received
    BY DEF SwitchEndpoint
  <1>3. /\ serial' \in [change: 1..(MaxChanges + 1), switch: 0..MaxSwitches]
        /\ serial'.change = serial.change
    <2>1. serial.switch + 1 \in 0..MaxSwitches
      BY <1>2, FieldTypes, BoundsAssumption
    <2>2. QED
      BY <1>2, <2>1, FieldTypes
  <1> DEFINE steady == [c \in Changes |-> ghost.steady[c] \ {e}]
             excused == IF state = "none" THEN ghost.excused \cup UNION {Working(t) : t \in Threads}
                                          ELSE ghost.excused
  <1>4. ghost' = [ghost EXCEPT !.steady = steady, !.excused = excused]
    BY <1>1
  <1>5. steady \in [Changes -> SUBSET Endpoints] /\ excused \subseteq Changes
    BY HistoryTypes, WorkTypes
  <1>6. /\ ghost.excused \subseteq excused
        /\ state = "none" => \A t \in Threads : Working(t) \subseteq excused
    OBVIOUS
  <1> HIDE DEF steady, excused
  <1>7. /\ ghost'.steady = steady /\ ghost'.excused = excused /\ ghost'.due = ghost.due
        /\ ghost'.versioned = ghost.versioned /\ ghost'.committed = ghost.committed
        /\ ghost'.undone = ghost.undone /\ ghost' \in GhostState
    BY <1>4, <1>5, HistoryTypes DEF GhostState
  <1>8. Types'
    BY <1>1, <1>2, <1>3, <1>7 DEF Types, TypeOK
  <1>9. QED
    BY <1>1, <1>2, <1>3, <1>6, <1>7, <1>8 DEF steady

LEMMA SwitchKeepsTypes ==
  ASSUME TypeInvariant, SwitchEndpoint
  PROVE  TypeInvariant'
  <1>0. TypeOK /\ RequestsKnown /\ RowsNew /\ ChangesOwned
    BY DEF TypeInvariant
  <1>1. /\ deliveries' \subseteq deliveries /\ serial'.change = serial.change /\ thread' = thread
        /\ tx' = tx /\ ghost'.committed = ghost.committed /\ Types'
    BY <1>0, SwitchMoves
  <1>2. \A t \in Threads : /\ Known(t)' /\ Working(t)' = Working(t)
                           /\ \A d : RowNew(t, d)' = RowNew(t, d)
    BY <1>0, <1>1 DEF RequestsKnown, Known, Working, InTransaction, RowNew, Later, Pending, ThisCall
  <1>3. RequestsKnown' /\ ChangesOwned'
    BY <1>0, <1>1, <1>2 DEF RequestsKnown, ChangesOwned
  <1>4. RowsNew'
    BY <1>0, <1>1, <1>2 DEF RowsNew, OneRow
  <1>5. TypeOK'
    BY <1>1, <1>4 DEF Types, TypeOK, RowsNew, OneRow
  <1>6. QED
    BY <1>3, <1>4, <1>5 DEF TypeInvariant

LEMMA StepKeepsTypes ==
  ASSUME TypeInvariant, NEW t \in Threads, Step(t)
  PROVE  TypeInvariant'
  <1>1. Types'
    BY AnnouncingKeepsTypes, ChangingKeepsTypes DEF TypeInvariant, Step, Opens
  <1>2. RequestsKnown' /\ ChangesOwned'
    BY StepKnown
  <1>3. RowsNew'
    BY <1>1, StepRowsNew
  <1>4. TypeOK'
    BY <1>1, <1>3 DEF Types, TypeOK, RowsNew, OneRow
  <1>5. QED
    BY <1>2, <1>3, <1>4 DEF TypeInvariant

LEMMA RestKeepsTypes ==
  ASSUME TypeInvariant, UNCHANGED vars
  PROVE  TypeInvariant'
  <1>1. TypeOK'
    BY DEF TypeInvariant, TypeOK, vars
  <1>2. RequestsKnown'
    BY DEF TypeInvariant, RequestsKnown, Known, InTransaction, vars
  <1>3. ChangesOwned'
    BY DEF TypeInvariant, ChangesOwned, Working, vars
  <1>4. RowsNew'
    BY DEF TypeInvariant, RowsNew, RowNew, OneRow, Later, Pending, ThisCall, vars
  <1>5. QED
    BY <1>1, <1>2, <1>3, <1>4 DEF TypeInvariant

LEMMA InitTypes ==
  ASSUME Init
  PROVE  TypeInvariant
  <1>1. /\ \A t \in Threads : thread[t] = Idle /\ tx[t] = NoTx
        /\ deliveries = {} /\ ghost.committed = {}
    BY DEF Init
  <1>2. TypeOK
    <2>1. serial \in [change: 1..(MaxChanges + 1), switch: 0..MaxSwitches]
      BY BoundsAssumption DEF Init
    <2>2. ghost \in GhostState
      BY DEF Init, GhostState
    <2>3. QED
      BY <2>1, <2>2, InitialRecords DEF Init, TypeOK
  <1>3. \A t \in Threads : /\ thread[t].pc = "idle" /\ thread[t].op = "idle"
                           /\ thread[t].change = 0 /\ thread[t].event = "none"
                           /\ tx[t].changes = {} /\ tx[t].deliveries = {}
    BY <1>1 DEF Idle, NoTx
  <1>4. RequestsKnown
    BY <1>1, <1>3 DEF RequestsKnown, Known, InTransaction, Announcing
  <1>5. ChangesOwned
    BY <1>1, <1>3 DEF ChangesOwned, Working
  <1>6. RowsNew
    BY <1>1, <1>3 DEF RowsNew, OneRow
  <1>7. QED
    BY <1>2, <1>4, <1>5, <1>6 DEF TypeInvariant

\* No step takes the types, or what requests may be assumed to know, away.
LEMMA TypesStay ==
  Spec => []TypeInvariant
  <1>1. Init => TypeInvariant
    BY InitTypes
  <1>2. TypeInvariant /\ [Next]_vars => TypeInvariant'
    BY StepKeepsTypes, SwitchKeepsTypes, RestKeepsTypes DEF Next
  <1>3. QED
    BY <1>1, <1>2, PTL DEF Spec

(***************************************************************************)
(* The types of all the variables, and a call of a receiver never has two  *)
(* rows: emit_webhook visits each endpoint once for each event, whatever   *)
(* the receiver answers.                                                   *)
(***************************************************************************)
THEOREM WebhooksTypeCorrect == Spec => []TypeOK
  <1>1. TypeInvariant => TypeOK
    BY DEF TypeInvariant
  <1>2. QED
    BY <1>1, TypesStay, PTL
-----------------------------------------------------------------------------
\* What has been received or archived remains so, and what a transaction has
\* changed stands or is undone when it is over.
LEMMA RecordGrows ==
  ASSUME TypeInvariant, NEW t \in Threads, Step(t)
  PROVE  /\ received \subseteq received' /\ archived \subseteq archived'
         /\ ghost.undone \subseteq ghost'.undone /\ ghost.committed \subseteq ghost'.committed
         /\ tx[t].changes \subseteq tx'[t].changes \cup ghost'.undone \cup ghost'.committed
         /\ \A u \in Threads : u # t => tx'[u] = tx[u] /\ thread'[u] = thread[u]
  <1>0. TypeOK /\ RequestsKnown /\ Known(t)
    BY DEF TypeInvariant, RequestsKnown
  <1>1. /\ ghost.committed \subseteq ghost'.committed
        /\ \A u \in Threads : u # t => tx'[u] = tx[u] /\ thread'[u] = thread[u]
    BY <1>0, CommittedStay, OtherThreads
  <1>2. CASE Ends(t)
    BY <1>1, <1>2 DEF Ends, Quiet
  <1>3. CASE ~Ends(t) /\ (Query(t) \/ CreateDelivery(t) \/ Post(t) \/ Settle(t))
    BY <1>0, <1>1, <1>3, QueryMoves, CreateMoves, PostMoves, SettleMoves
    DEF Moves, Quiet, SameCall, SameRequest
  <1>4. CASE /\ ~Ends(t)
             /\ Announced(t) \/ CreateVersion(t) \/ StartRekey(t) \/ RekeyDone(t) \/ Crash(t)
    BY <1>0, <1>1, <1>4, AnnouncedMoves, VersionMoves, RekeyMoves, CrashMoves
    DEF Moves, Quiet, SameCall, SameRequest
  <1>5. CASE Save(t)
    BY <1>0, <1>1, <1>5, SaveMoves, ZenonT(40) DEF Saves, Makes
  <1>6. CASE SaveInRekey(t)
    BY <1>0, <1>1, <1>6, RekeySaveMoves DEF Makes
  <1>7. CASE Opens(t)
    <2>1. tx[t].changes = {} /\ \E event : Makes(t, {event})
      <3>1. tx[t] = NoTx /\ \E event : Makes(t, {event})
        BY <1>0, <1>7, Opening
      <3>2. QED
        BY <3>1 DEF NoTx
    <2>2. ghost'.undone = ghost.undone /\ received' = received /\ archived' = archived
      BY <2>1 DEF Makes
    <2>3. QED
      BY <1>1, <2>1, <2>2
  <1>8. CASE Commit(t)
    BY <1>0, <1>1, <1>2, <1>8, CommitMoves DEF Stands
  <1>9. QED
    BY <1>2, <1>3, <1>4, <1>5, <1>6, <1>7, <1>8 DEF Step, Opens

LEMMA CallStaysTrue ==
  ASSUME TypeInvariant, RecordInvariant, NEW t \in Threads, Step(t)
  PROVE  CallTrue(t)'
  <1>0. TypeOK /\ RequestsKnown /\ Known(t) /\ CallTrue(t)
    BY DEF TypeInvariant, RequestsKnown, RecordInvariant
  <1>1. received \subseteq received' /\ archived \subseteq archived'
    BY RecordGrows
  <1>2. CASE thread'[t] = Idle /\ tx'[t] = NoTx
    <2>1. /\ thread'[t].pc = "idle" /\ thread'[t].event = "none" /\ tx'[t].deliveries = {}
      BY <1>2 DEF Idle, NoTx
    <2>2. QED
      BY <2>1 DEF CallTrue
  <1>3. CASE Query(t)
    BY <1>0, <1>1, <1>3, QueryMoves DEF CallTrue, Asking, Moves, SameRequest
  <1>4. CASE CreateDelivery(t) /\ ~Ends(t)
    <2>1. /\ thread[t].pc = "send" /\ SameCall(t) /\ Writes(t, {}, {Pending(t)})
          /\ thread'[t].pc = "post"
      BY <1>0, <1>4, CreateMoves
    <2>2. Pending(t)' = Pending(t)
      BY <2>1 DEF SameCall, SameRequest, Pending, ThisCall
    <2>3. tx'[t].deliveries \subseteq tx[t].deliveries \cup {Pending(t)}
      BY <2>1 DEF Writes
    <2>4. Pending(t).status = "pending"
      BY DEF Pending
    <2>5. QED
      BY <1>0, <1>1, <2>1, <2>2, <2>3, <2>4 DEF CallTrue, Asking, SameCall, SameRequest
  <1>5. CASE Post(t)
    <2>1. Pending(t)' = Pending(t) /\ ThisCall(t)' = ThisCall(t)
      BY <1>0, <1>5, PostMoves DEF Pending, ThisCall, SameCall, SameRequest
    <2>2. QED
      BY <1>0, <1>1, <1>5, <2>1, PostMoves DEF CallTrue, Asking, SameCall, SameRequest
  <1>6. CASE Settle(t) /\ ~Ends(t)
    <2>0. PICK row : row = [call |-> ThisCall(t), status |-> thread[t].answer]
      OBVIOUS
    <2>1. /\ thread[t].pc = "settle" /\ SameRequest(t) /\ thread'[t].event = thread[t].event
          /\ Writes(t, {Pending(t)}, {row}) /\ thread'[t].pc = "send"
      BY <1>0, <1>6, <2>0, SettleMoves
    <2>2. \A d \in tx'[t].deliveries : d \in tx[t].deliveries \ {Pending(t)} \/ d = row
      <3>1. ~InTransaction(t) => tx'[t].deliveries = {}
        BY <1>0, <2>1 DEF Writes, Known, NoTx
      <3>2. QED
        BY <2>1, <3>1 DEF Writes
    <2>3. row.status # "pending" /\ (row.status = "success" => row.call \in received)
      BY <1>0, <2>0, <2>1 DEF CallTrue, Known
    <2>4. QED
      BY <1>0, <1>1, <2>1, <2>2, <2>3 DEF CallTrue, SameRequest
  <1>7. CASE Announced(t) /\ ~Ends(t)
    BY <1>0, <1>1, <1>7, AnnouncedMoves DEF CallTrue, Asking, Moves, SameCall, SameRequest
  <1>8. CASE CreateVersion(t) /\ ~Ends(t)
    BY <1>0, <1>1, <1>8, VersionMoves DEF CallTrue, Asking, Moves, SameRequest
  <1>9. CASE StartRekey(t) \/ RekeyDone(t)
    <2>1. CASE Ends(t)
      BY <1>2, <2>1 DEF Ends
    <2>2. CASE thread'[t].pc = "rekey" /\ thread'[t].event = "none" /\ tx' = tx /\ tx[t] = NoTx
      BY <2>2 DEF CallTrue, NoTx
    <2>3. CASE thread[t].pc = "rekey" /\ Moves(t) /\ SameCall(t) /\ thread'[t].pc = "commit"
      BY <1>0, <1>1, <2>3 DEF CallTrue, Asking, Moves, SameCall, SameRequest
    <2>4. QED
      <3>1. \/ thread'[t].pc = "rekey" /\ thread'[t].event = "none" /\ tx' = tx /\ tx[t] = NoTx
            \/ thread[t].pc = "rekey" /\ Moves(t) /\ SameCall(t) /\ thread'[t].pc = "commit"
            \/ Ends(t)
        BY <1>0, <1>9, RekeyMoves
      <3>2. QED
        BY <2>1, <2>2, <2>3, <3>1
  <1>10. CASE Save(t)
    <2>1. PICK op \in Autocommitted, s \in Secrets,
               event \in {"created", "updated"} : Saves(t, op, s, event)
      BY <1>0, <1>10, SaveMoves
    <2>2. /\ thread'[t].pc = "query" /\ thread'[t].event # "rotated" /\ tx'[t] = NoTx
      BY <2>1 DEF Saves, Makes
    <2>3. tx'[t].deliveries = {}
      BY <2>2 DEF NoTx
    <2>4. QED
      BY <2>2, <2>3 DEF CallTrue
  <1>11. CASE SaveInRekey(t)
    BY <1>0, <1>11, RekeySaveMoves DEF CallTrue, Asking, Makes
  <1>12. CASE Opens(t)
    BY <1>0, <1>12, Opening DEF CallTrue, Makes
  <1>13. CASE Commit(t) \/ Crash(t)
    BY <1>0, <1>2, <1>13, CommitMoves, CrashMoves DEF Stands, Ends
  <1>14. QED
    BY <1>2, <1>3, <1>4, <1>5, <1>6, <1>7, <1>8, <1>9, <1>10, <1>11, <1>12, <1>13
    DEF Step, Opens, Ends

LEMMA ReceiptsStayTrue ==
  ASSUME TypeInvariant, RecordInvariant, NEW t \in Threads, Step(t)
  PROVE  ReceiptsTrue'
  <1>0. TypeOK /\ RequestsKnown /\ Known(t) /\ CallTrue(t) /\ ReceiptsTrue
    BY DEF TypeInvariant, RequestsKnown, RecordInvariant
  <1>1. ASSUME NEW r \in received'
        PROVE  \/ r.change \in ghost.committed \cup ghost.undone
               \/ \E u \in Threads : r.change \in tx[u].changes
    <2>1. CASE r \in received
      BY <1>0, <2>1 DEF ReceiptsTrue
    <2>2. CASE r \notin received
      <3>1. Post(t)
        BY <1>0, <2>2, QueryMoves, CreateMoves, PostMoves, SettleMoves, AnnouncedMoves,
           VersionMoves, RekeyMoves, CrashMoves, SaveMoves, RekeySaveMoves, Opening, CommitMoves
        DEF Step, Opens, Moves, Ends, Saves, Makes, Stands
      <3>2. r.change = thread[t].change /\ thread[t].pc = "post"
        BY <1>0, <2>2, <3>1, PostMoves DEF ThisCall
      <3>3. thread[t].change # 0
        BY <1>0, <3>2 DEF Known, Announcing
      <3>4. QED
        BY <1>0, <3>2, <3>3 DEF Known
    <2>3. QED
      BY <2>1, <2>2
  <1>2. ASSUME NEW r \in received', r.event = "rotated"
        PROVE  r.change \in archived
    <2>1. CASE r \in received
      BY <1>0, <1>2, <2>1 DEF ReceiptsTrue
    <2>2. CASE r \notin received
      <3>1. Post(t)
        BY <1>0, <2>2, QueryMoves, CreateMoves, PostMoves, SettleMoves, AnnouncedMoves,
           VersionMoves, RekeyMoves, CrashMoves, SaveMoves, RekeySaveMoves, Opening, CommitMoves
        DEF Step, Opens, Moves, Ends, Saves, Makes, Stands
      <3>2. r.change = thread[t].change /\ r.event = thread[t].event
        BY <1>0, <2>2, <3>1, PostMoves DEF ThisCall
      <3>3. QED
        BY <1>0, <1>2, <3>2 DEF CallTrue
    <2>3. QED
      BY <2>1, <2>2
  <1>3. QED
    BY <1>1, <1>2, RecordGrows DEF ReceiptsTrue

LEMMA DeliveriesStayTrue ==
  ASSUME TypeInvariant, RecordInvariant, NEW t \in Threads, Step(t)
  PROVE  DeliveriesTrue'
  <1>0. /\ TypeOK /\ RequestsKnown /\ Known(t) /\ CallTrue(t) /\ DeliveriesTrue
        /\ received \subseteq received'
    BY RecordGrows DEF TypeInvariant, RequestsKnown, RecordInvariant
  <1>1. \A d \in deliveries' : d.call.change \in ghost'.committed
    BY StepKeepsTypes DEF TypeInvariant, RowsNew
  <1>2. SUFFICES /\ endpoint' = endpoint
                 /\ \A d \in deliveries' :
                      d \in deliveries \/ /\ endpoint[d.call.endpoint] # "none"
                                          /\ d.status = "success" => d.call \in received
    BY <1>0, <1>1 DEF DeliveriesTrue
  <1>3. CASE CreateDelivery(t) /\ ~Ends(t)
    <2>1. /\ endpoint[First(thread[t].targets)] # "none" \/ InTransaction(t)
          /\ Writes(t, {}, {Pending(t)}) /\ endpoint' = endpoint
      BY <1>0, <1>3, CreateMoves DEF Quiet
    <2>2. Pending(t).status = "pending" /\ Pending(t).call.endpoint = First(thread[t].targets)
      BY DEF Pending, ThisCall
    <2>3. QED
      BY <2>1, <2>2 DEF Writes
  <1>4. CASE Settle(t) /\ ~Ends(t)
    <2>0. PICK row : row = [call |-> ThisCall(t), status |-> thread[t].answer]
      OBVIOUS
    <2>1. /\ thread[t].pc = "settle" /\ Pending(t) \in deliveries \cup tx[t].deliveries
          /\ Writes(t, {Pending(t)}, {row}) /\ endpoint' = endpoint
      BY <1>0, <1>4, <2>0, SettleMoves DEF Quiet
    <2>2. CASE InTransaction(t)
      BY <2>1, <2>2 DEF Writes
    <2>3. CASE ~InTransaction(t)
      <3>1. Pending(t) \in deliveries
        BY <1>0, <2>1, <2>3 DEF Known, NoTx
      <3>2. endpoint[row.call.endpoint] # "none"
        BY <1>0, <2>0, <3>1 DEF DeliveriesTrue, Pending
      <3>3. row.status = "success" => row.call \in received
        BY <1>0, <2>0, <2>1 DEF CallTrue
      <3>4. QED
        BY <2>1, <2>3, <3>2, <3>3 DEF Writes
    <2>4. QED
      BY <2>2, <2>3
  <1>5. CASE Commit(t) /\ ~Ends(t)
    <2>1. Stands(t) /\ thread[t].pc = "commit"
      BY <1>0, <1>5, CommitMoves
    <2>2. \A d \in tx[t].deliveries : d.status = "success" => d.call \in received
      BY <1>0 DEF CallTrue
    <2>3. QED
      BY <2>1, <2>2 DEF Stands
  <1>6. CASE Save(t) \/ SaveInRekey(t) \/ Opens(t)
    <2>1. CASE Save(t)
      BY <1>0, <2>1, SaveMoves DEF Saves, Makes
    <2>2. CASE SaveInRekey(t)
      BY <1>0, <2>2, RekeySaveMoves DEF Makes
    <2>3. CASE Opens(t)
      BY <1>0, <2>3, Opening DEF Makes
    <2>4. QED
      BY <1>6, <2>1, <2>2, <2>3
  <1>7. CASE Ends(t)
    BY <1>7 DEF Ends, Quiet
  <1>8. QED
    BY <1>0, <1>3, <1>4, <1>5, <1>6, <1>7, QueryMoves, PostMoves, AnnouncedMoves, VersionMoves,
       RekeyMoves, CrashMoves DEF Step, Opens, Moves, Quiet

LEMMA SwitchKeepsRecord ==
  ASSUME TypeInvariant, RecordInvariant, SwitchEndpoint
  PROVE  RecordInvariant'
  <1>0. TypeOK /\ deliveries \subseteq Delivery
    BY DEF TypeInvariant, TypeOK
  <1>1. PICK e \in Endpoints, state \in {"active", "inactive", "none"} :
           /\ endpoint' = [endpoint EXCEPT ![e] = state] /\ endpoint[e] # "none"
           /\ deliveries' = IF state = "none" THEN {d \in deliveries : d.call.endpoint # e}
                                              ELSE deliveries
           /\ thread' = thread /\ tx' = tx /\ archived' = archived /\ received' = received
           /\ ghost'.committed = ghost.committed /\ ghost'.undone = ghost.undone
    BY <1>0, SwitchMoves
  <1>2. \A t \in Threads : CallTrue(t)'
    BY <1>1 DEF RecordInvariant, CallTrue, ThisCall, Pending, Asking
  <1>3. ReceiptsTrue'
    BY <1>1 DEF RecordInvariant, ReceiptsTrue
  <1>4. DeliveriesTrue'
    <2>1. endpoint \in [Endpoints -> {"active", "inactive", "none"}]
      BY <1>0 DEF TypeOK
    <2>2. QED
      BY <1>0, <1>1, <2>1, FieldTypes DEF RecordInvariant, DeliveriesTrue
  <1>5. QED
    BY <1>2, <1>3, <1>4 DEF RecordInvariant

LEMMA RecordStays ==
  Spec => []RecordInvariant
  <1>1. Init => RecordInvariant
    <2>1. ASSUME Init PROVE \A t \in Threads : CallTrue(t)
      <3>1. \A t \in Threads : thread[t].pc = "idle" /\ thread[t].event = "none"
                               /\ tx[t].deliveries = {}
        BY <2>1 DEF Init, Idle, NoTx
      <3>2. QED
        BY <3>1 DEF CallTrue
    <2>2. QED
      BY <2>1 DEF Init, RecordInvariant, DeliveriesTrue, ReceiptsTrue
  <1>2. TypeInvariant /\ RecordInvariant /\ [Next]_vars => RecordInvariant'
    <2> SUFFICES ASSUME TypeInvariant, RecordInvariant, [Next]_vars
                 PROVE  RecordInvariant'
      OBVIOUS
    <2>1. ASSUME NEW t \in Threads, Step(t)
          PROVE  RecordInvariant'
      <3>1. ASSUME NEW u \in Threads PROVE CallTrue(u)'
        <4>1. CASE u = t
          BY <2>1, <4>1, CallStaysTrue
        <4>2. CASE u # t
          <5>1. /\ thread'[u] = thread[u] /\ tx'[u] = tx[u]
                /\ received \subseteq received' /\ archived \subseteq archived'
            BY <2>1, <4>2, RecordGrows
          <5>2. CallTrue(u)
            BY DEF RecordInvariant
          <5>3. QED
            BY <5>1, <5>2 DEF CallTrue, ThisCall, Pending, Asking
        <4>3. QED
          BY <4>1, <4>2
      <3>2. QED
        BY <2>1, <3>1, DeliveriesStayTrue, ReceiptsStayTrue DEF RecordInvariant
    <2>2. CASE UNCHANGED vars
      <3>1. \A t \in Threads : CallTrue(t)'
        BY <2>2 DEF vars, RecordInvariant, CallTrue, ThisCall, Pending, Asking
      <3>2. QED
        BY <2>2, <3>1 DEF vars, RecordInvariant, DeliveriesTrue, ReceiptsTrue
    <2>3. QED
      BY <2>1, <2>2, SwitchKeepsRecord DEF Next
  <1>3. QED
    BY <1>1, <1>2, TypesStay, PTL DEF Spec

(***************************************************************************)
(* A row of the record is about a change that stands and an endpoint that  *)
(* exists, and one that says success is about a call that was received:    *)
(* rows written in a transaction, which a crash or an orphan takes back    *)
(* with its changes, included.                                             *)
(***************************************************************************)
THEOREM RecordsAreTrue == Spec => []DeliveriesTrue
  <1>1. RecordInvariant => DeliveriesTrue
    BY DEF RecordInvariant
  <1>2. QED
    BY <1>1, RecordStays, PTL

(***************************************************************************)
(* What a receiver is told is true, or a transaction takes it back; and it *)
(* is told of a rotation only after the version.                           *)
(***************************************************************************)
THEOREM ReceiptsAreTrue == Spec => []ReceiptsTrue
  <1>1. RecordInvariant => ReceiptsTrue
    BY DEF RecordInvariant
  <1>2. QED
    BY <1>1, RecordStays, PTL
-----------------------------------------------------------------------------
\* What no step of a thread takes from the others, nor from what is due.
LEMMA StepsSpare ==
  ASSUME TypeInvariant, NEW t \in Threads, Step(t)
  PROVE  /\ ghost.excused \subseteq ghost'.excused /\ endpoint' = endpoint
         /\ \A d \in deliveries : d \in deliveries' \/ (d = Pending(t) /\ thread[t].pc = "settle")
         /\ \A s \in Secrets :
              \/ secret'[s] = secret[s] \/ secret'[s] # "none"
              \/ \A u \in Threads \ {t} : thread[u].secret = s => Working(u) \subseteq ghost'.excused
         /\ \A c \in Changes : c < serial.change =>
              ghost'.due[c] = ghost.due[c] /\ ghost'.steady[c] = ghost.steady[c]
         /\ SteadyActive => SteadyActive'
  <1>0. /\ TypeOK /\ RequestsKnown /\ Known(t) /\ serial.change \in Nat /\ Changes \subseteq Nat
        /\ secret \in [Secrets -> {"none", "live", "deleted"}]
    BY FieldTypes, ChangesNumbered DEF TypeInvariant, RequestsKnown, TypeOK
  <1>1. CASE Quiet /\ (deliveries' = deliveries \/ CreateDelivery(t) \/ Settle(t))
    <2>1. \A d \in deliveries : d \in deliveries' \/ (d = Pending(t) /\ thread[t].pc = "settle")
      BY <1>0, <1>1, CreateMoves, SettleMoves DEF Writes, Ends
    <2>2. SteadyActive => SteadyActive'
      BY <1>1 DEF SteadyActive, Quiet
    <2>3. QED
      BY <1>1, <2>1, <2>2 DEF Quiet
  <1>2. CASE /\ \E events : Makes(t, events)
             /\ \/ secret' = secret
                \/ \E s \in Secrets, v \in {"live", "deleted"} : secret' = [secret EXCEPT ![s] = v]
    <2>1. PICK events : Makes(t, events)
      BY <1>2
    <2>2. /\ ghost'.due = [ghost.due EXCEPT ![serial.change] = events]
          /\ ghost'.steady = [ghost.steady EXCEPT ![serial.change] = Active]
          /\ ghost'.excused = ghost.excused /\ endpoint' = endpoint /\ deliveries' = deliveries
      BY <2>1 DEF Makes
    <2>3. SteadyActive => SteadyActive'
      BY <1>0, <2>2, HistoryTypes DEF SteadyActive, Active
    <2>4. \A c \in Changes : c < serial.change =>
            ghost'.due[c] = ghost.due[c] /\ ghost'.steady[c] = ghost.steady[c]
      BY <1>0, <2>2, HistoryTypes
    <2>5. \A s \in Secrets : secret'[s] = secret[s] \/ secret'[s] # "none"
      BY <1>0, <1>2
    <2>6. QED
      BY <2>2, <2>3, <2>4, <2>5
  <1>3. CASE Stands(t)
    BY <1>3 DEF Stands, SteadyActive
  <1>4. CASE Query(t) \/ Post(t) \/ Announced(t) \/ CreateVersion(t) \/ CreateDelivery(t) \/ Settle(t)
    BY <1>0, <1>1, <1>4, QueryMoves, CreateMoves, PostMoves, SettleMoves, AnnouncedMoves,
       VersionMoves DEF Moves, Ends
  <1>5. CASE StartRekey(t) \/ RekeyDone(t) \/ Commit(t) \/ Crash(t)
    BY <1>0, <1>1, <1>3, <1>5, RekeyMoves, CommitMoves, CrashMoves DEF Moves, Ends
  <1>6. CASE Save(t)
    <2>1. PICK op \in Autocommitted, s \in Secrets,
               event \in {"created", "updated"} : Saves(t, op, s, event)
      BY <1>0, <1>6, SaveMoves
    <2>2. QED
      BY <1>2, <2>1 DEF Saves
  <1>7. CASE SaveInRekey(t)
    BY <1>0, <1>2, <1>7, RekeySaveMoves
  <1>8. CASE Opens(t)
    <2>1. (\E event : Makes(t, {event})) /\ secret' = secret
      BY <1>0, <1>8, Opening
    <2>2. QED
      BY <1>2, <2>1
  <1>9. QED
    BY <1>4, <1>5, <1>6, <1>7, <1>8 DEF Step, Opens

\* A request outside a transaction works on a change that stands.
LEMMA OwnChange ==
  ASSUME TypeInvariant, NEW t \in Threads, thread[t].pc # "idle", ~InTransaction(t)
  PROVE  /\ thread[t].change \in ghost.committed /\ thread[t].change \in Changes
         /\ thread[t].change \in Working(t) /\ thread[t].secret \in Secrets /\ tx[t] = NoTx
  <1>1. /\ thread[t].change \in ghost.committed /\ thread[t].secret \in Secrets /\ tx[t] = NoTx
    BY DEF TypeInvariant, RequestsKnown, Known
  <1>2. thread[t].change \in Changes
    BY <1>1, HistoryTypes DEF TypeInvariant
  <1>3. QED
    BY <1>1, <1>2, ChangesNumbered DEF Working

LEMMA OthersServed ==
  ASSUME TypeInvariant, NEW t \in Threads, Step(t), NEW u \in Threads, u # t, Served(u)
  PROVE  Served(u)'
  <1>1. thread'[u] = thread[u] /\ tx'[u] = tx[u]
    BY RecordGrows
  <1>2. /\ InTransaction(u)' = InTransaction(u) /\ Pending(u)' = Pending(u)
        /\ Asking(u)' = Asking(u)
    BY <1>1 DEF InTransaction, Pending, ThisCall, Asking
  <1>3. CASE thread[u].pc = "idle" \/ InTransaction(u)
    BY <1>1, <1>2, <1>3 DEF Served
  <1>4. CASE thread[u].pc # "idle" /\ ~InTransaction(u)
    <2>1. /\ thread[u].change \in Working(u) /\ thread[u].secret \in Secrets
      BY <1>4, OwnChange
    <2>2. CASE thread[u].change \in ghost'.excused
      BY <1>1, <1>2, <1>4, <2>2 DEF Served
    <2>3. CASE thread[u].change \notin ghost'.excused
      <3>1. /\ Asking(u) => Pending(u) \in deliveries
            /\ thread[u].pc \in Calling => \A e \in thread[u].targets : endpoint[e] # "none"
            /\ secret[thread[u].secret] # "none"
        BY <1>4, <2>3, StepsSpare DEF Served
      <3>2. secret'[thread[u].secret] # "none"
        BY <2>1, <2>3, <3>1, StepsSpare
      <3>3. thread[t].pc = "settle" => Pending(u) # Pending(t)
        <4>1. SUFFICES ASSUME thread[t].pc = "settle"
                       PROVE  Pending(u) # Pending(t)
          OBVIOUS
        <4>2. thread[t].change \in Working(t)
          BY <4>1 DEF TypeInvariant, RequestsKnown, Known, Announcing, Working
        <4>3. thread[t].change # thread[u].change
          BY <2>1, <4>2 DEF TypeInvariant, ChangesOwned
        <4>4. Pending(t).call.change # Pending(u).call.change
          BY <4>3 DEF Pending, ThisCall
        <4>5. QED
          BY <4>4
      <3>4. Asking(u) => Pending(u) \in deliveries'
        BY <3>1, <3>3, StepsSpare
      <3>5. endpoint' = endpoint
        BY StepsSpare
      <3>6. QED
        BY <1>1, <1>2, <1>4, <3>1, <3>2, <3>4, <3>5 DEF Served
    <2>4. QED
      BY <2>2, <2>3
  <1>5. QED
    BY <1>3, <1>4
-----------------------------------------------------------------------------
\* A request that fails outside a transaction is excused; one that finishes has
\* nothing left to announce or to archive.
LEMMA EndsExcused ==
  ASSUME TypeInvariant, NEW t \in Threads, Step(t), Ends(t), Served(t), ~InTransaction(t)
  PROVE  \/ thread[t].change \in ghost'.excused
         \/ /\ thread[t].pc = "send" /\ thread[t].targets = {} /\ Later(t) = {}
            /\ thread[t].op # "put" /\ (thread[t].op = "rotate" => thread[t].event = "rotated")
         \/ thread[t].pc = "version" /\ Later(t) = {} /\ thread[t].change \in archived'
  <1>0. /\ TypeOK /\ RequestsKnown /\ Known(t) /\ thread'[t] = Idle /\ Idle.pc = "idle"
        /\ ghost.excused \subseteq ghost'.excused
    BY DEF TypeInvariant, RequestsKnown, Ends, Idle, Quiet
  <1>1. thread[t].pc # "idle"
    <2>1. ~(Save(t) \/ StartRekey(t) \/ Opens(t))
      <3>1. ~Save(t)
        <4>1. ASSUME NEW op, NEW s, NEW event, Saves(t, op, s, event) PROVE FALSE
          BY <1>0, <4>1 DEF Saves, Makes
        <4>2. QED
          BY <1>0, <4>1, SaveMoves
      <3>2. ~Opens(t)
        BY <1>0, Opening DEF Makes
      <3>3. ~StartRekey(t)
        <4>1. SUFFICES ASSUME StartRekey(t) PROVE FALSE
          OBVIOUS
        <4>2. thread'[t] = [Idle EXCEPT !.op = "rekey", !.pc = "rekey",
                  !.rest = {s \in Secrets : secret[s] = "live"}]
          BY <1>0, <4>1 DEF StartRekey, TypeOK
        <4>3. thread'[t].pc = "rekey"
          BY <4>2 DEF Idle
        <4>4. QED
          BY <1>0, <4>3
      <3>4. QED
        BY <3>1, <3>2, <3>3
    <2>2. SUFFICES ASSUME thread[t].pc = "idle" PROVE FALSE
      OBVIOUS
    <2>3. Crash(t)
      BY <2>1, <2>2 DEF Step, Opens, Query, CreateDelivery, Post, Settle, Announced, CreateVersion,
         SaveInRekey, RekeyDone, Commit
    <2>4. QED
      BY <1>0, <2>2, <2>3 DEF Crash, Known
  <1>2. thread[t].change \in Working(t)
    BY <1>1, OwnChange
  <1>3. CASE Query(t) \/ Post(t) \/ Save(t) \/ SaveInRekey(t) \/ Opens(t) \/ StartRekey(t)
    <2>1. thread'[t].pc # "idle"
      <3>1. CASE Query(t) \/ Post(t)
        BY <1>0, <3>1, QueryMoves, PostMoves
      <3>2. CASE SaveInRekey(t)
        BY <1>0, <3>2, RekeySaveMoves DEF Makes
      <3>3. CASE Save(t) \/ Opens(t) \/ StartRekey(t)
        <4>1. thread[t] = Idle
          BY <3>3 DEF Save, Opens, StartAdd, StartPurge, StartRekey, IsIdle
        <4>2. QED
          BY <1>0, <1>1, <4>1
      <3>4. QED
        BY <1>3, <3>1, <3>2, <3>3
    <2>2. QED
      BY <1>0, <2>1
  <1>4. CASE CreateDelivery(t)
    <2>1. /\ thread[t].pc = "send" /\ thread[t].targets # {}
          /\ endpoint[First(thread[t].targets)] = "none"
      BY <1>0, <1>4, CreateMoves
    <2>2. First(thread[t].targets) \in thread[t].targets
      BY <1>0, <2>1, CallTypes DEF Calling
    <2>3. QED
      BY <1>0, <2>1, <2>2 DEF Served, Calling
  <1>5. CASE Settle(t)
    <2>1. thread[t].pc = "settle" /\ Pending(t) \notin deliveries
      BY <1>0, <1>5, SettleMoves
    <2>2. QED
      BY <1>0, <2>1 DEF Served, Asking
  <1>6. CASE Announced(t)
    BY <1>0, <1>6, AnnouncedMoves DEF Later
  <1>7. CASE CreateVersion(t)
    <2>1. CASE secret[thread[t].secret] = "none"
      BY <1>0, <1>1, <2>1 DEF Served
    <2>2. CASE secret[thread[t].secret] # "none"
      BY <1>0, <1>7, <2>2, VersionMoves DEF Later
    <2>3. QED
      BY <2>1, <2>2
  <1>8. CASE RekeyDone(t) \/ Commit(t)
    BY <1>0, <1>8 DEF RekeyDone, Commit, Known, InTransaction
  <1>9. CASE Crash(t)
    BY <1>0, <1>2, <1>9, CrashMoves
  <1>10. QED
    BY <1>3, <1>4, <1>5, <1>6, <1>7, <1>8, <1>9 DEF Step, Opens

LEMMA ServedOn ==
  ASSUME TypeInvariant, NEW t \in Threads, Step(t), Served(t), SteadyActive
  PROVE  Served(t)'
  <1>0. TypeOK /\ RequestsKnown /\ Known(t) /\ ghost.excused \subseteq ghost'.excused
    BY StepsSpare DEF TypeInvariant, RequestsKnown
  <1>1. CASE thread'[t] = Idle
    BY <1>1 DEF Served, Idle
  <1>2. CASE Query(t)
    <2>1. /\ thread[t].pc = "query" /\ Moves(t) /\ thread'[t].pc = "send"
          /\ thread'[t].targets = {e \in Active : thread[t].event \in Subscribed[e]}
      BY <1>0, <1>2, QueryMoves
    <2>2. \A e \in thread'[t].targets : endpoint[e] # "none"
      BY <2>1 DEF Active
    <2>3. QED
      BY <2>1, <2>2 DEF Served, Moves, Quiet, SameRequest, InTransaction, Asking
  <1>3. CASE CreateDelivery(t) /\ ~Ends(t)
    <2>1. /\ thread[t].pc = "send" /\ Quiet /\ ghost' = ghost /\ SameCall(t)
          /\ Writes(t, {}, {Pending(t)}) /\ thread'[t].pc = "post"
      BY <1>0, <1>3, CreateMoves
    <2>2. Pending(t)' = Pending(t) /\ InTransaction(t)' = InTransaction(t)
      BY <2>1 DEF SameCall, SameRequest, Pending, ThisCall, InTransaction
    <2>3. QED
      BY <2>1, <2>2 DEF Served, Quiet, SameCall, SameRequest, Asking, Calling, Writes
  <1>4. CASE Post(t)
    <2>1. /\ thread[t].pc = "post" /\ Quiet /\ ghost' = ghost /\ SameCall(t)
          /\ tx' = tx /\ deliveries' = deliveries /\ thread'[t].pc = "settle"
      BY <1>0, <1>4, PostMoves
    <2>2. Pending(t)' = Pending(t) /\ InTransaction(t)' = InTransaction(t)
      BY <2>1 DEF SameCall, SameRequest, Pending, ThisCall, InTransaction
    <2>3. QED
      BY <2>1, <2>2 DEF Served, Quiet, SameCall, SameRequest, Asking, Calling
  <1>5. CASE Settle(t) /\ ~Ends(t)
    <2>1. /\ thread[t].pc = "settle" /\ Quiet /\ ghost' = ghost /\ SameRequest(t)
          /\ thread'[t].pc = "send"
          /\ thread'[t].targets = thread[t].targets \ {First(thread[t].targets)}
      BY <1>0, <1>5, SettleMoves
    <2>2. InTransaction(t)' = InTransaction(t)
      BY <2>1 DEF SameRequest, InTransaction
    <2>3. QED
      BY <2>1, <2>2 DEF Served, Quiet, SameRequest, Asking, Calling
  <1>6. CASE Announced(t) /\ ~Ends(t)
    <2>1. /\ thread[t].pc = "send" /\ Moves(t)
          /\ thread'[t].pc \in {"version", "query", "rekey", "commit"}
      BY <1>0, <1>6, AnnouncedMoves
    <2>2. InTransaction(t)' = InTransaction(t)
      BY <2>1 DEF Moves, SameRequest, InTransaction
    <2>3. QED
      BY <2>1, <2>2 DEF Served, Moves, Quiet, SameRequest, Asking, Calling
  <1>7. CASE CreateVersion(t) /\ ~Ends(t)
    <2>1. /\ thread[t].pc = "version" /\ Moves(t) /\ thread'[t].pc = "query"
      BY <1>0, <1>7, VersionMoves
    <2>2. InTransaction(t)' = InTransaction(t)
      BY <2>1 DEF Moves, SameRequest, InTransaction
    <2>3. QED
      BY <2>1, <2>2 DEF Served, Moves, Quiet, SameRequest, Asking, Calling
  <1>8. CASE (StartRekey(t) \/ RekeyDone(t)) /\ ~Ends(t)
    <2>1. thread'[t].op = "rekey" /\ thread'[t].pc \in {"rekey", "commit"}
      <3>1. thread[t].pc = "rekey" => thread[t].op = "rekey"
        BY <1>0 DEF Known
      <3>2. QED
        BY <1>0, <1>8, <3>1, RekeyMoves DEF SameCall, SameRequest
    <2>2. QED
      BY <2>1 DEF Served, InTransaction, Asking
  <1>9. CASE Save(t)
    <2>1. PICK op \in Autocommitted, s \in Secrets,
               event \in {"created", "updated"} : Saves(t, op, s, event)
      BY <1>0, <1>9, SaveMoves
    <2>2. /\ thread'[t].pc = "query" /\ thread'[t].secret = s
          /\ ~InTransaction(t)'
      BY <2>1 DEF Saves, Makes, InTransaction
    <2>3. secret'[s] # "none"
      BY <1>0, <2>1 DEF Saves, TypeOK
    <2>4. QED
      BY <2>2, <2>3 DEF Served, Asking, Calling
  <1>10. CASE SaveInRekey(t) \/ Opens(t)
    <2>1. thread'[t].op \in Transactional /\ thread'[t].pc = "query"
      <3>1. CASE SaveInRekey(t)
        BY <1>0, <3>1, RekeySaveMoves DEF Makes, Known
      <3>2. CASE Opens(t)
        BY <1>0, <3>2, Opening DEF Makes
      <3>3. QED
        BY <1>10, <3>1, <3>2
    <2>2. QED
      BY <2>1 DEF Served, InTransaction, Asking
  <1>11. CASE Commit(t) \/ Crash(t)
    BY <1>0, <1>1, <1>11, CommitMoves, CrashMoves DEF Stands, Ends
  <1>12. QED
    BY <1>1, <1>2, <1>3, <1>4, <1>5, <1>6, <1>7, <1>8, <1>9, <1>10, <1>11 DEF Step, Opens, Ends
-----------------------------------------------------------------------------
\* Where the pending rows and the versions that are due go in a step.
LEMMA PendingRowsStay ==
  ASSUME TypeInvariant, RecordInvariant, NEW t \in Threads, Step(t), Served(t), PendingRows
  PROVE  PendingRows'
  <1>0. /\ TypeOK /\ RequestsKnown /\ Known(t) /\ ghost.excused \subseteq ghost'.excused
    BY StepsSpare DEF TypeInvariant, RequestsKnown
  <1> SUFFICES ASSUME NEW d \in deliveries', d.status = "pending", d.call.change \notin ghost'.excused
               PROVE  \E u \in Threads : (~InTransaction(u) /\ Asking(u) /\ d = Pending(u))'
    BY DEF PendingRows
  <1>1. CASE d \in deliveries
    <2>1. PICK u \in Threads : ~InTransaction(u) /\ Asking(u) /\ d = Pending(u)
      BY <1>0, <1>1 DEF PendingRows
    <2>2. CASE u # t
      <3>1. thread'[u] = thread[u]
        BY <2>2, RecordGrows
      <3>2. QED
        BY <2>1, <3>1 DEF InTransaction, Asking, Pending, ThisCall
    <2>3. CASE u = t
      <3>1. Post(t)
        <4>1. thread[t].pc \in {"post", "settle"}
          BY <2>1, <2>3 DEF Asking
        <4>2. thread[t].change \in Working(t) /\ d.call.change = thread[t].change
          BY <2>1, <2>3, <4>1, OwnChange DEF Pending, ThisCall
        <4>3. ~Crash(t)
          BY <1>0, <4>2, CrashMoves
        <4>4. ~Settle(t)
          <5>1. SUFFICES ASSUME Settle(t) PROVE FALSE
            OBVIOUS
          <5>2. PICK row : row = [call |-> ThisCall(t), status |-> thread[t].answer]
            OBVIOUS
          <5>3. /\ thread[t].pc = "settle" /\ Writes(t, {Pending(t)}, {row})
            BY <1>0, <1>1, <2>1, <2>3, <5>1, <5>2, SettleMoves
          <5>4. row.status # "pending"
            BY <1>0, <5>2, <5>3 DEF Known
          <5>5. QED
            BY <2>1, <2>3, <5>3, <5>4 DEF Writes
        <4>5. ~Save(t) /\ ~StartRekey(t) /\ ~Opens(t)
          <5>1. Idle.pc = "idle"
            BY DEF Idle
          <5>2. QED
            BY <4>1, <5>1 DEF Save, StartRekey, Opens, StartAdd, StartPurge, IsIdle
        <4>6. QED
          BY <4>1, <4>3, <4>4, <4>5
          DEF Step, Opens, Query, CreateDelivery, Announced, CreateVersion,
             SaveInRekey, RekeyDone, Commit
      <3>2. thread'[t].pc = "settle" /\ SameCall(t)
        BY <1>0, <3>1, PostMoves
      <3>3. QED
        BY <2>1, <2>3, <3>2 DEF InTransaction, Asking, Pending, ThisCall, SameCall, SameRequest
    <2>4. QED
      BY <2>2, <2>3
  <1>2. CASE d \notin deliveries
    <2>1. CASE CreateDelivery(t) /\ ~Ends(t)
      <3>1. /\ SameCall(t) /\ Writes(t, {}, {Pending(t)}) /\ thread'[t].pc = "post"
        BY <1>0, <2>1, CreateMoves
      <3>2. Pending(t)' = Pending(t) /\ InTransaction(t)' = InTransaction(t)
        BY <3>1 DEF SameCall, SameRequest, Pending, ThisCall, InTransaction
      <3>3. d = Pending(t) /\ ~InTransaction(t)
        BY <1>2, <3>1 DEF Writes
      <3>4. QED
        BY <3>1, <3>2, <3>3 DEF Asking
    <2>2. CASE Settle(t) /\ ~Ends(t)
      <3>1. PICK row : row = [call |-> ThisCall(t), status |-> thread[t].answer]
        OBVIOUS
      <3>2. /\ thread[t].pc = "settle" /\ Writes(t, {Pending(t)}, {row})
        BY <1>0, <2>2, <3>1, SettleMoves
      <3>3. row.status # "pending"
        BY <1>0, <3>1, <3>2 DEF Known
      <3>4. QED
        BY <1>2, <3>2, <3>3 DEF Writes
    <2>3. CASE Commit(t) /\ ~Ends(t)
      <3>1. thread[t].pc = "commit" /\ Stands(t)
        BY <1>0, <2>3, CommitMoves
      <3>2. d \in tx[t].deliveries
        BY <1>2, <3>1 DEF Stands
      <3>3. Asking(t)
        BY <3>2 DEF RecordInvariant, CallTrue
      <3>4. QED
        BY <3>1, <3>3 DEF Asking
    <2>4. CASE Save(t) \/ SaveInRekey(t) \/ Opens(t)
      <3>1. deliveries' = deliveries
        BY <2>4 DEF Save, SaveInRekey, Opens, StartAdd, StartPurge
      <3>2. QED
        BY <1>2, <3>1
    <2>5. QED
      BY <1>0, <1>2, <2>1, <2>2, <2>3, <2>4, QueryMoves, PostMoves, AnnouncedMoves, VersionMoves,
         RekeyMoves, CrashMoves DEF Step, Opens, Moves, Ends
  <1>3. QED
    BY <1>1, <1>2

LEMMA VersionsStayDue ==
  ASSUME TypeInvariant, NEW t \in Threads, Step(t), Served(t), VersionsDue
  PROVE  VersionsDue'
  <1>0. /\ TypeOK /\ RequestsKnown /\ Known(t) /\ ghost.excused \subseteq ghost'.excused
        /\ archived \subseteq archived'
    BY StepsSpare, RecordGrows DEF TypeInvariant, RequestsKnown
  <1> SUFFICES ASSUME NEW c \in ghost'.versioned, c \notin archived' \cup ghost'.excused
               PROVE  \E u \in Threads : (/\ thread[u].change = c /\ thread[u].op \in {"put", "rotate"}
                                          /\ thread[u].event # "rotated")'
    BY DEF VersionsDue
  <1>1. CASE Save(t)
    <2>1. PICK op \in Autocommitted, s \in Secrets,
               event \in {"created", "updated"} : Saves(t, op, s, event)
      BY <1>0, <1>1, SaveMoves
    <2>2. CASE c \in ghost.versioned
      <3>1. PICK u \in Threads : /\ thread[u].change = c /\ thread[u].op \in {"put", "rotate"}
                                 /\ thread[u].event # "rotated"
        BY <1>0, <2>2 DEF VersionsDue
      <3>2. thread[t].op = "idle"
        BY <2>1 DEF Saves, Idle
      <3>3. thread'[u] = thread[u]
        BY <3>1, <3>2, RecordGrows
      <3>4. QED
        BY <3>1, <3>3
    <2>3. CASE c \notin ghost.versioned
      BY <2>1, <2>3 DEF Saves, Makes
    <2>4. QED
      BY <2>2, <2>3
  <1>2. CASE ~Save(t)
    <2>1. c \in ghost.versioned
      <3>1. CASE SaveInRekey(t)
        BY <1>0, <3>1, RekeySaveMoves
      <3>2. CASE Opens(t)
        BY <1>0, <3>2, Opening
      <3>3. CASE Query(t) \/ CreateDelivery(t) \/ Post(t) \/ Settle(t)
        BY <1>0, <3>3, QueryMoves, CreateMoves, PostMoves, SettleMoves DEF Moves, Ends, Quiet
      <3>4. CASE Announced(t) \/ CreateVersion(t) \/ StartRekey(t) \/ RekeyDone(t) \/ Commit(t)
                 \/ Crash(t)
        BY <1>0, <3>4, AnnouncedMoves, VersionMoves, RekeyMoves, CommitMoves, CrashMoves
        DEF Moves, Ends, Quiet, Stands
      <3>5. QED
        BY <1>2, <3>1, <3>2, <3>3, <3>4 DEF Step, Opens
    <2>2. PICK u \in Threads : /\ thread[u].change = c /\ thread[u].op \in {"put", "rotate"}
                               /\ thread[u].event # "rotated"
      BY <1>0, <2>1 DEF VersionsDue
    <2>3. CASE u # t
      BY <2>2, <2>3, RecordGrows
    <2>4. CASE u = t
      <3>1. /\ ~InTransaction(t) /\ thread[t].pc # "idle" /\ thread[t].op # "idle"
            /\ thread[t].pc \notin {"rekey", "commit"}
        <4>1. ~InTransaction(t) /\ thread[t].op # "idle" /\ Idle.op = "idle"
          BY <2>2, <2>4 DEF InTransaction, Idle
        <4>2. QED
          BY <1>0, <2>2, <2>4, <4>1 DEF Known
      <3>2. ~Ends(t)
        BY <2>2, <2>4, <3>1, EndsExcused
      <3>3. CASE Query(t) \/ CreateDelivery(t) \/ Post(t) \/ Settle(t)
        BY <1>0, <2>2, <2>4, <3>2, <3>3, QueryMoves, CreateMoves, PostMoves, SettleMoves, ZenonT(40)
        DEF Moves, SameCall, SameRequest
      <3>4. CASE Announced(t)
        BY <1>0, <2>2, <2>4, <3>1, <3>2, <3>4, AnnouncedMoves DEF Moves, SameCall, SameRequest
      <3>5. CASE CreateVersion(t)
        BY <1>0, <2>2, <2>4, <3>2, <3>5, VersionMoves
      <3>6. ~SaveInRekey(t) /\ ~RekeyDone(t) /\ ~Commit(t)
        BY <3>1 DEF SaveInRekey, RekeyDone, Commit
      <3>7. ~StartRekey(t) /\ ~Opens(t)
        <4>1. Idle.pc = "idle"
          BY DEF Idle
        <4>2. QED
          BY <3>1, <4>1 DEF StartRekey, Opens, StartAdd, StartPurge, IsIdle
      <3>8. ~Crash(t)
        BY <1>0, <3>2, CrashMoves
      <3>9. QED
        BY <1>2, <3>3, <3>4, <3>5, <3>6, <3>7, <3>8 DEF Step, Opens
    <2>5. QED
      BY <2>3, <2>4
  <1>3. QED
    BY <1>1, <1>2
-----------------------------------------------------------------------------
\* Where a request's rows are while it is making them.
RowsOf(t) == IF InTransaction(t) THEN tx[t].deliveries ELSE deliveries

\* A settled row stays; a call that was to come is settled, or is still to come.
LEMMA SettledStay ==
  ASSUME TypeInvariant, NEW t \in Threads, Step(t), NEW c, NEW e, NEW event
  PROVE  /\ SettledIn(deliveries, c, e, event) => SettledIn(deliveries', c, e, event)
         /\ SettledIn(tx[t].deliveries, c, e, event) /\ tx'[t] # NoTx
            => SettledIn(tx'[t].deliveries, c, e, event)
  <1>0. TypeOK /\ RequestsKnown /\ Known(t) /\ Pending(t).status = "pending"
    BY DEF TypeInvariant, RequestsKnown, Pending
  <1>1. SettledIn(deliveries, c, e, event) => SettledIn(deliveries', c, e, event)
    BY <1>0, StepsSpare DEF SettledIn
  <1>2. ASSUME tx'[t] # NoTx
        PROVE  \A d \in tx[t].deliveries : d \in tx'[t].deliveries \/ d.status = "pending"
    <2>1. CASE CreateDelivery(t) \/ Settle(t)
      BY <1>0, <1>2, <2>1, CreateMoves, SettleMoves DEF Ends, Writes
    <2>2. CASE Query(t) \/ Post(t) \/ Announced(t) \/ CreateVersion(t)
      BY <1>0, <1>2, <2>2, QueryMoves, PostMoves, AnnouncedMoves, VersionMoves DEF Ends, Moves
    <2>3. CASE StartRekey(t) \/ RekeyDone(t) \/ Commit(t) \/ Crash(t)
      BY <1>0, <1>2, <2>3, RekeyMoves, CommitMoves, CrashMoves DEF Ends, Moves, Stands
    <2>4. CASE Save(t)
      BY <2>4 DEF Save
    <2>5. CASE SaveInRekey(t)
      BY <1>0, <2>5, RekeySaveMoves
    <2>6. CASE Opens(t)
      <3>1. tx[t] = NoTx
        BY <1>0, <2>6, Opening
      <3>2. QED
        BY <3>1 DEF NoTx
    <2>7. QED
      BY <2>1, <2>2, <2>3, <2>4, <2>5, <2>6 DEF Step, Opens
  <1>3. QED
    BY <1>1, <1>2 DEF SettledIn

LEMMA CallsCome ==
  ASSUME TypeInvariant, NEW t \in Threads, Step(t), Served(t), SteadyActive,
         NEW c \in Changes, thread[t].change = c,
         NEW e \in ghost.steady[c], NEW event, event \in Subscribed[e], ToCome(t, e, event),
         IF InTransaction(t) THEN ~Ends(t) ELSE c \notin ghost'.excused
  PROVE  \/ thread'[t].change = c /\ ToCome(t, e, event)'
         \/ SettledIn(RowsOf(t)', c, e, event)
  <1>0. /\ TypeOK /\ RequestsKnown /\ Known(t) /\ c # 0
        /\ endpoint[e] = "active" /\ e \in Endpoints
    <2>1. TypeOK /\ RequestsKnown /\ Known(t) /\ c # 0
      BY ChangesNumbered DEF TypeInvariant, RequestsKnown
    <2>2. endpoint[e] = "active" /\ e \in Endpoints
      BY <2>1, HistoryTypes DEF SteadyActive
    <2>3. QED
      BY <2>1, <2>2
  <1>1. ~Ends(t)
    <2>1. SUFFICES ASSUME Ends(t) PROVE FALSE
      OBVIOUS
    <2>2. \/ thread[t].pc = "send" /\ thread[t].targets = {} /\ Later(t) = {}
          \/ thread[t].pc = "version" /\ Later(t) = {}
      BY <2>1, EndsExcused
    <2>3. QED
      BY <2>2 DEF ToCome, Calling
  <1>2. thread[t] # Idle /\ thread[t].pc \notin {"rekey", "commit"}
    <2>1. thread[t] # Idle
      BY <1>0 DEF Idle
    <2>2. ASSUME thread[t].pc \in {"rekey", "commit"} PROVE FALSE
      <3>1. Later(t) = {}
        BY <1>0, <2>2 DEF Known, InTransaction, Later
      <3>2. QED
        BY <2>2, <3>1 DEF ToCome, Calling
    <2>3. QED
      BY <2>1, <2>2
  <1>3. CASE Query(t)
    <2>1. /\ thread[t].pc = "query" /\ Moves(t) /\ thread'[t].event = thread[t].event
          /\ thread'[t].pc = "send"
          /\ thread'[t].targets = {f \in Active : thread[t].event \in Subscribed[f]}
      BY <1>0, <1>3, QueryMoves
    <2>2. event = thread[t].event => e \in thread'[t].targets
      BY <1>0, <2>1 DEF Active
    <2>3. QED
      BY <2>1, <2>2 DEF ToCome, Later, Moves, SameRequest, Calling
  <1>4. CASE CreateDelivery(t)
    <2>1. thread[t].pc = "send" /\ SameCall(t) /\ thread'[t].pc = "post"
      BY <1>0, <1>1, <1>4, CreateMoves
    <2>2. QED
      BY <2>1 DEF ToCome, Later, SameCall, SameRequest, Calling
  <1>5. CASE Post(t)
    <2>1. thread[t].pc = "post" /\ SameCall(t) /\ thread'[t].pc = "settle"
      BY <1>0, <1>5, PostMoves
    <2>2. QED
      BY <2>1 DEF ToCome, Later, SameCall, SameRequest, Calling
  <1>6. CASE Settle(t)
    <2>0. PICK row : row = [call |-> ThisCall(t), status |-> thread[t].answer]
      OBVIOUS
    <2>1. /\ thread[t].pc = "settle" /\ SameRequest(t) /\ thread'[t].event = thread[t].event
          /\ Writes(t, {Pending(t)}, {row}) /\ thread'[t].pc = "send"
          /\ thread'[t].targets = thread[t].targets \ {First(thread[t].targets)}
      BY <1>0, <1>1, <1>6, <2>0, SettleMoves
    <2>2. CASE event = thread[t].event /\ e = First(thread[t].targets)
      <3>1. row.call = [endpoint |-> e, change |-> c, event |-> event] /\ row.status # "pending"
        BY <1>0, <2>0, <2>1, <2>2 DEF ThisCall, Known
      <3>2. row \in RowsOf(t)'
        BY <2>1 DEF Writes, RowsOf, InTransaction, SameRequest
      <3>3. QED
        BY <3>1, <3>2 DEF SettledIn
    <2>3. CASE ~(event = thread[t].event /\ e = First(thread[t].targets))
      BY <2>1, <2>3 DEF ToCome, Later, SameRequest, Calling
    <2>4. QED
      BY <2>2, <2>3
  <1>7. CASE Announced(t)
    <2>1. event \in Later(t) /\ thread[t].pc = "send"
      BY <1>7 DEF Announced, ToCome
    <2>2. CASE thread[t].op = "delete"
      <3>1. thread[t].event = "updated" /\ event = "deleted"
        BY <2>1, <2>2 DEF Later
      <3>2. Moves(t) /\ thread'[t].event = "deleted" /\ thread'[t].pc = "query"
        BY <1>0, <1>1, <1>7, <2>2, <3>1, AnnouncedMoves DEF InTransaction
      <3>3. QED
        BY <3>1, <3>2 DEF ToCome, Moves, SameRequest
    <2>3. CASE thread[t].op = "rotate"
      <3>1. thread[t].event # "rotated"
        BY <2>1, <2>3 DEF Later
      <3>2. Moves(t) /\ SameCall(t)
        BY <1>0, <1>1, <1>7, <2>3, <3>1, AnnouncedMoves DEF InTransaction
      <3>3. QED
        BY <2>1, <3>2 DEF ToCome, Later, SameCall, SameRequest
    <2>4. QED
      BY <2>1, <2>2, <2>3 DEF Later
  <1>8. CASE CreateVersion(t)
    <2>1. /\ thread[t].pc = "version" /\ thread[t].op = "rotate" /\ thread[t].event # "rotated"
          /\ Moves(t) /\ thread'[t].event = "rotated" /\ thread'[t].pc = "query"
      BY <1>0, <1>1, <1>8, VersionMoves
    <2>2. event = "rotated"
      BY <2>1 DEF ToCome, Later, Calling
    <2>3. QED
      BY <2>1, <2>2 DEF ToCome, Moves, SameRequest
  <1>9. ~(Save(t) \/ StartRekey(t) \/ Opens(t) \/ SaveInRekey(t) \/ RekeyDone(t) \/ Commit(t))
    BY <1>2
    DEF Save, StartRekey, Opens, StartAdd, StartPurge, IsIdle, SaveInRekey, RekeyDone, Commit
  <1>10. ~Crash(t)
    BY <1>0, <1>1, CrashMoves
  <1>11. QED
    BY <1>3, <1>4, <1>5, <1>6, <1>7, <1>8, <1>9, <1>10 DEF Step, Opens
-----------------------------------------------------------------------------
\* What is due of a change that is only now made: a request begins to announce it.
LEMMA NewChangeDue ==
  ASSUME TypeInvariant, NEW t \in Threads, Save(t) \/ SaveInRekey(t) \/ Opens(t),
         NEW event \in ghost'.due[serial.change], NEW e
  PROVE  thread'[t].change = serial.change /\ ToCome(t, e, event)'
  <1>0. TypeOK /\ RequestsKnown /\ Known(t)
    BY DEF TypeInvariant, RequestsKnown
  <1>1. ASSUME NEW events, Makes(t, events)
        PROVE  /\ serial.change \in Changes /\ ghost'.due[serial.change] = events
               /\ thread'[t].change = serial.change /\ thread'[t].pc = "query"
               /\ thread'[t].event \in events
    BY <1>0, <1>1, NextChange, HistoryTypes DEF Makes
  <1>2. CASE Save(t)
    <2>1. PICK op \in Autocommitted, s \in Secrets,
               ev \in {"created", "updated"} : Saves(t, op, s, ev)
      BY <1>0, <1>2, SaveMoves
    <2>2. /\ event \in {ev} \cup Second(op) /\ thread'[t].change = serial.change
          /\ thread'[t].pc = "query" /\ thread'[t].event = ev /\ thread'[t].op = op
          /\ op = "delete" => ev = "updated"
      BY <1>1, <2>1 DEF Saves
    <2>3. QED
      BY <2>2 DEF ToCome, Later, Second
  <1>3. CASE SaveInRekey(t)
    <2>1. Makes(t, {"updated"})
      BY <1>0, <1>3, RekeySaveMoves
    <2>2. QED
      BY <1>1, <2>1 DEF ToCome
  <1>4. CASE Opens(t)
    <2>1. \E ev : Makes(t, {ev})
      BY <1>0, <1>4, Opening
    <2>2. QED
      BY <1>1, <2>1 DEF ToCome
  <1>5. QED
    BY <1>2, <1>3, <1>4

\* The changes that come to stand, or are written in a transaction, in a step.
LEMMA NewChanges ==
  ASSUME TypeInvariant, NEW t \in Threads, Step(t), NEW c
  PROVE  /\ c \in ghost'.committed \ ghost.committed =>
              (Save(t) /\ c = serial.change) \/ (Commit(t) /\ Stands(t) /\ c \in tx[t].changes)
         /\ c \in tx'[t].changes \ tx[t].changes =>
              (SaveInRekey(t) \/ Opens(t)) /\ c = serial.change
  <1>0. TypeOK /\ RequestsKnown /\ Known(t)
    BY DEF TypeInvariant, RequestsKnown
  <1>1. CASE Query(t) \/ CreateDelivery(t) \/ Post(t) \/ Settle(t)
    BY <1>0, <1>1, AnnouncingKnown
  <1>2. CASE Announced(t) \/ CreateVersion(t) \/ StartRekey(t) \/ RekeyDone(t) \/ Crash(t)
    BY <1>0, <1>2, RequestsKnownOn
  <1>3. CASE Save(t)
    <2>1. PICK op \in Autocommitted, s \in Secrets,
               event \in {"created", "updated"} : Saves(t, op, s, event)
      BY <1>0, <1>3, SaveMoves
    <2>2. QED
      BY <1>3, <2>1 DEF Saves
  <1>4. CASE SaveInRekey(t)
    BY <1>0, <1>4, RekeySaveMoves
  <1>5. CASE Opens(t)
    BY <1>0, <1>5, Opening
  <1>6. CASE Commit(t)
    BY <1>0, <1>6, CommitKnown, CommitMoves DEF Stands, Ends, Quiet
  <1>7. QED
    BY <1>1, <1>2, <1>3, <1>4, <1>5, <1>6 DEF Step, Opens

LEMMA AnnouncementsStayDue ==
  ASSUME TypeInvariant, DueInvariant, NEW t \in Threads, Step(t)
  PROVE  AnnouncementsDue'
  <1>0. /\ TypeOK /\ RequestsKnown /\ Known(t) /\ AnnouncementsDue /\ SteadyActive /\ Served(t)
        /\ ghost.excused \subseteq ghost'.excused
    BY StepsSpare DEF TypeInvariant, RequestsKnown, DueInvariant, ServedAll
  <1>1. \A c \in Changes : c < serial.change =>
          ghost'.due[c] = ghost.due[c] /\ ghost'.steady[c] = ghost.steady[c]
    BY StepsSpare
  <1>2. /\ \A c \in ghost.committed : c \in Changes /\ c < serial.change
        /\ \A u \in Threads : \A c \in tx[u].changes : c \in Changes /\ c < serial.change
    BY <1>0, HistoryTypes, WorkTypes DEF TypeInvariant, ChangesOwned
  <1>3. ASSUME NEW c \in ghost'.committed, c \notin ghost'.excused,
               NEW e \in ghost'.steady[c], NEW event \in ghost'.due[c] \cap Subscribed[e]
        PROVE  \/ SettledIn(deliveries', c, e, event)
               \/ \E u \in Threads : thread'[u].change = c /\ ToCome(u, e, event)'
    <2>1. CASE c \in ghost.committed
      <3>1. /\ c \in Changes /\ e \in ghost.steady[c] /\ event \in ghost.due[c] \cap Subscribed[e]
            /\ c \notin ghost.excused
        BY <1>0, <1>1, <1>2, <1>3, <2>1
      <3>2. CASE SettledIn(deliveries, c, e, event)
        BY <3>2, SettledStay
      <3>3. ASSUME NEW u \in Threads, thread[u].change = c, ToCome(u, e, event)
            PROVE  \/ SettledIn(deliveries', c, e, event)
                   \/ \E v \in Threads : thread'[v].change = c /\ ToCome(v, e, event)'
        <4>1. CASE u # t
          <5>1. thread'[u] = thread[u]
            BY <4>1, RecordGrows
          <5>2. QED
            BY <3>3, <5>1 DEF ToCome, Later
        <4>2. CASE u = t
          <5>1. ~InTransaction(t)
            BY <1>0, <2>1, <3>1, <3>3, <4>2, ChangesNumbered DEF Known, TypeInvariant, ChangesOwned
          <5>2. \/ thread'[t].change = c /\ ToCome(t, e, event)'
                \/ SettledIn(RowsOf(t)', c, e, event)
            BY <1>0, <1>3, <3>1, <3>3, <4>2, <5>1, CallsCome
          <5>3. CASE SettledIn(RowsOf(t)', c, e, event) /\ RowsOf(t)' = deliveries'
            BY <5>3
          <5>4. CASE RowsOf(t)' # deliveries'
            <6>1. InTransaction(t)'
              BY <5>4 DEF RowsOf
            <6>2. thread[t] = Idle
              <7>1. \/ StartRekey(t) \/ Opens(t) \/ thread'[t].op = "idle"
                    \/ thread'[t].op = thread[t].op \/ Save(t)
                <8>0. Ends(t) \/ Stands(t) => thread'[t].op = "idle"
                  BY DEF Ends, Stands, Idle
                <8>1. CASE Query(t) \/ CreateDelivery(t) \/ Post(t) \/ Settle(t)
                  BY <1>0, <8>0, <8>1, QueryMoves, CreateMoves, PostMoves, SettleMoves
                  DEF Moves, SameCall, SameRequest
                <8>2. CASE Announced(t) \/ CreateVersion(t)
                  BY <1>0, <8>0, <8>2, AnnouncedMoves, VersionMoves DEF Moves, SameRequest
                <8>3. CASE RekeyDone(t) /\ ~StartRekey(t)
                  <9>1. thread[t].pc = "rekey" /\ Idle.pc = "idle"
                    BY <8>3 DEF RekeyDone, Idle
                  <9>2. QED
                    BY <1>0, <8>0, <8>3, <9>1, RekeyMoves DEF Moves, SameRequest
                <8>4. CASE Commit(t) \/ Crash(t) \/ SaveInRekey(t)
                  BY <1>0, <8>0, <8>4, CommitMoves, CrashMoves, RekeySaveMoves
                <8>5. QED
                  BY <8>1, <8>2, <8>3, <8>4 DEF Step, Opens
              <7>2. QED
                BY <5>1, <6>1, <7>1
                DEF InTransaction, StartRekey, Opens, StartAdd, StartPurge, Save, IsIdle
            <6>3. QED
              BY <3>1, <3>3, <4>2, <6>2, ChangesNumbered DEF Idle
          <5>5. QED
            BY <5>2, <5>3, <5>4
        <4>3. QED
          BY <4>1, <4>2
      <3>4. QED
        BY <1>0, <2>1, <3>1, <3>2, <3>3 DEF AnnouncementsDue
    <2>2. CASE c \notin ghost.committed /\ Save(t) /\ c = serial.change
      BY <1>3, <2>2, NewChangeDue
    <2>3. CASE c \notin ghost.committed /\ Commit(t) /\ Stands(t) /\ c \in tx[t].changes
      <3>1. e \in ghost.steady[c] /\ event \in ghost.due[c] \cap Subscribed[e]
        BY <1>1, <1>2, <1>3, <2>3
      <3>2. ~ToCome(t, e, event)
        BY <1>0, <2>3 DEF Commit, Known, ToCome, Later, Calling, InTransaction
      <3>3. SettledIn(tx[t].deliveries, c, e, event)
        BY <1>0, <2>3, <3>1, <3>2 DEF AnnouncementsDue
      <3>4. QED
        BY <2>3, <3>3 DEF SettledIn, Stands
    <2>4. QED
      BY <1>3, <2>1, <2>2, <2>3, NewChanges
  <1>4. ASSUME NEW u \in Threads, NEW c \in tx'[u].changes,
               NEW e \in ghost'.steady[c], NEW event \in ghost'.due[c] \cap Subscribed[e]
        PROVE  \/ SettledIn(tx'[u].deliveries, c, e, event)
               \/ thread'[u].change = c /\ ToCome(u, e, event)'
    <2>1. CASE u # t
      <3>1. thread'[u] = thread[u] /\ tx'[u] = tx[u]
        BY <2>1, RecordGrows
      <3>2. e \in ghost.steady[c] /\ event \in ghost.due[c] \cap Subscribed[e] /\ c \in tx[u].changes
        BY <1>1, <1>2, <1>4, <3>1
      <3>3. QED
        BY <1>0, <3>1, <3>2 DEF AnnouncementsDue, ToCome, Later
    <2>2. CASE u = t /\ c \in tx[t].changes
      <3>1. e \in ghost.steady[c] /\ event \in ghost.due[c] \cap Subscribed[e] /\ c \in Changes
        BY <1>1, <1>2, <1>4, <2>2
      <3>2. tx'[t] # NoTx /\ tx[t] # NoTx
        BY <1>4, <2>2 DEF NoTx
      <3>3. InTransaction(t) /\ ~Ends(t)
        BY <1>0, <3>2 DEF Known, Ends
      <3>4. CASE SettledIn(tx[t].deliveries, c, e, event)
        BY <2>2, <3>2, <3>4, SettledStay
      <3>5. CASE thread[t].change = c /\ ToCome(t, e, event)
        <4>1. \/ thread'[t].change = c /\ ToCome(t, e, event)'
              \/ SettledIn(RowsOf(t)', c, e, event)
          BY <1>0, <1>4, <3>1, <3>3, <3>5, CallsCome
        <4>2. InTransaction(t)'
          BY <1>4, <2>2, StepKnown, <3>2 DEF RequestsKnown, Known
        <4>3. RowsOf(t)' = tx'[t].deliveries
          BY <4>2 DEF RowsOf
        <4>4. QED
          BY <2>2, <4>1, <4>3
      <3>6. QED
        BY <1>0, <2>2, <3>1, <3>4, <3>5 DEF AnnouncementsDue
    <2>3. CASE u = t /\ c \notin tx[t].changes
      <3>1. (SaveInRekey(t) \/ Opens(t)) /\ c = serial.change
        BY <1>4, <2>3, NewChanges
      <3>2. QED
        BY <1>4, <2>3, <3>1, NewChangeDue
    <2>4. QED
      BY <2>1, <2>2, <2>3
  <1>5. QED
    BY <1>3, <1>4 DEF AnnouncementsDue
-----------------------------------------------------------------------------
\* An operator makes no request fail that is not excused for it.
LEMMA SwitchKeepsServed ==
  ASSUME TypeInvariant, ServedAll, SwitchEndpoint
  PROVE  ServedAll'
  <1>0. TypeOK /\ endpoint \in [Endpoints -> {"active", "inactive", "none"}]
    BY DEF TypeInvariant, TypeOK
  <1>1. PICK e \in Endpoints, state \in {"active", "inactive", "none"} :
          /\ endpoint' = [endpoint EXCEPT ![e] = state]
          /\ deliveries' = IF state = "none" THEN {d \in deliveries : d.call.endpoint # e}
                                             ELSE deliveries
          /\ thread' = thread /\ tx' = tx /\ secret' = secret
          /\ ghost.excused \subseteq ghost'.excused
          /\ state = "none" => \A t \in Threads : Working(t) \subseteq ghost'.excused
    BY <1>0, SwitchMoves
  <1>2. ASSUME NEW t \in Threads PROVE Served(t)'
    <2>0. /\ InTransaction(t)' = InTransaction(t) /\ Asking(t)' = Asking(t)
          /\ Pending(t)' = Pending(t) /\ Served(t)
      BY <1>1 DEF ServedAll, InTransaction, Asking, Pending, ThisCall
    <2>1. CASE thread[t].pc = "idle" \/ InTransaction(t)
      BY <1>1, <2>0, <2>1 DEF Served
    <2>2. CASE thread[t].pc # "idle" /\ ~InTransaction(t) /\ state = "none"
      <3>1. thread[t].change \in ghost'.excused
        BY <1>1, <2>2, OwnChange
      <3>2. QED
        BY <1>1, <2>0, <2>2, <3>1 DEF Served
    <2>3. CASE thread[t].pc # "idle" /\ ~InTransaction(t) /\ state # "none"
      <3>1. \A f \in Endpoints : endpoint[f] # "none" => endpoint'[f] # "none"
        BY <1>0, <1>1, <2>3
      <3>2. thread[t].targets \subseteq Endpoints
        BY <1>0, FieldTypes
      <3>3. QED
        BY <1>1, <2>0, <2>3, <3>1, <3>2 DEF Served
    <2>4. QED
      BY <2>1, <2>2, <2>3
  <1>3. QED
    BY <1>2 DEF ServedAll

\* An operator ends what is steady with the rows it takes away.
LEMMA SwitchKeepsDue ==
  ASSUME TypeInvariant, DueInvariant, SwitchEndpoint
  PROVE  DueInvariant'
  <1>0. TypeOK /\ endpoint \in [Endpoints -> {"active", "inactive", "none"}]
    BY DEF TypeInvariant, TypeOK
  <1>1. PICK e \in Endpoints, state \in {"active", "inactive", "none"} :
          /\ endpoint' = [endpoint EXCEPT ![e] = state]
          /\ deliveries' = IF state = "none" THEN {d \in deliveries : d.call.endpoint # e}
                                             ELSE deliveries
          /\ thread' = thread /\ tx' = tx /\ archived' = archived
          /\ ghost'.steady = [c \in Changes |-> ghost.steady[c] \ {e}]
          /\ ghost'.due = ghost.due /\ ghost'.versioned = ghost.versioned
          /\ ghost'.committed = ghost.committed
          /\ ghost.excused \subseteq ghost'.excused
    BY <1>0, SwitchMoves
  <1>2. ServedAll'
    BY SwitchKeepsServed DEF DueInvariant
  <1>3. PendingRows'
    BY <1>1 DEF DueInvariant, PendingRows, InTransaction, Asking, Pending, ThisCall
  <1>4. VersionsDue'
    BY <1>1 DEF DueInvariant, VersionsDue
  <1>5. SteadyActive'
    <2>1. SUFFICES ASSUME NEW c \in Changes, NEW f \in ghost'.steady[c]
                   PROVE  endpoint'[f] = "active"
      BY DEF SteadyActive
    <2>2. f \in ghost.steady[c] /\ f # e /\ f \in Endpoints
      BY <1>0, <1>1, <2>1, HistoryTypes
    <2>3. endpoint[f] = "active"
      BY <2>2 DEF DueInvariant, SteadyActive
    <2>4. QED
      BY <1>0, <1>1, <2>2, <2>3
  <1>6. \A t \in Threads, f \in Endpoints, event \in Events : ToCome(t, f, event)' = ToCome(t, f, event)
    BY <1>1 DEF ToCome, Later
  <1>7. ASSUME NEW c \in ghost'.committed \ ghost'.excused, NEW f \in ghost'.steady[c],
               NEW event \in ghost'.due[c] \cap Subscribed[f]
        PROVE  \/ SettledIn(deliveries', c, f, event)
               \/ \E t \in Threads : thread'[t].change = c /\ ToCome(t, f, event)'
    <2>1. /\ c \in ghost.committed \ ghost.excused /\ c \in Changes
          /\ f \in ghost.steady[c] /\ f # e /\ event \in ghost.due[c] \cap Subscribed[f]
          /\ f \in Endpoints /\ event \in Events
      BY <1>0, <1>1, <1>7, HistoryTypes
    <2>2. CASE SettledIn(deliveries, c, f, event)
      <3>1. PICK d \in deliveries : /\ d.call = [endpoint |-> f, change |-> c, event |-> event]
                                    /\ d.status # "pending"
        BY <2>2 DEF SettledIn
      <3>2. d.call.endpoint # e
        BY <2>1, <3>1
      <3>3. d \in deliveries'
        BY <1>1, <3>2
      <3>4. QED
        BY <3>1, <3>3 DEF SettledIn
    <2>3. ASSUME NEW t \in Threads, thread[t].change = c, ToCome(t, f, event)
          PROVE  thread'[t].change = c /\ ToCome(t, f, event)'
      BY <1>1, <1>6, <2>1, <2>3
    <2>4. QED
      BY <2>1, <2>2, <2>3 DEF DueInvariant, AnnouncementsDue
  <1>8. ASSUME NEW t \in Threads, NEW c \in tx'[t].changes, NEW f \in ghost'.steady[c],
               NEW event \in ghost'.due[c] \cap Subscribed[f]
        PROVE  \/ SettledIn(tx'[t].deliveries, c, f, event)
               \/ thread'[t].change = c /\ ToCome(t, f, event)'
    <2>1. /\ c \in tx[t].changes /\ c \in Changes
          /\ f \in ghost.steady[c] /\ event \in ghost.due[c] \cap Subscribed[f]
          /\ f \in Endpoints /\ event \in Events
      BY <1>0, <1>1, <1>8, HistoryTypes, WorkTypes
    <2>2. SettledIn(tx[t].deliveries, c, f, event) \/ (thread[t].change = c /\ ToCome(t, f, event))
      BY <2>1 DEF DueInvariant, AnnouncementsDue
    <2>3. QED
      BY <1>1, <1>6, <2>1, <2>2
  <1>9. AnnouncementsDue'
    BY <1>7, <1>8 DEF AnnouncementsDue
  <1>10. QED
    BY <1>2, <1>3, <1>4, <1>5, <1>9 DEF DueInvariant

LEMMA DueStays ==
  Spec => []DueInvariant
  <1>1. Init => DueInvariant
    <2> SUFFICES ASSUME Init PROVE DueInvariant
      OBVIOUS
    <2>1. /\ \A t \in Threads : thread[t].pc = "idle" /\ tx[t].changes = {}
          /\ deliveries = {} /\ ghost.committed = {} /\ ghost.versioned = {}
          /\ \A c \in Changes : ghost.steady[c] = {}
      BY DEF Init, Idle, NoTx
    <2>2. QED
      BY <2>1 DEF DueInvariant, ServedAll, Served, PendingRows, VersionsDue, SteadyActive,
                  AnnouncementsDue
  <1>2. TypeInvariant /\ RecordInvariant /\ DueInvariant /\ [Next]_vars => DueInvariant'
    <2> SUFFICES ASSUME TypeInvariant, RecordInvariant, DueInvariant, [Next]_vars
                 PROVE  DueInvariant'
      OBVIOUS
    <2>1. ASSUME NEW t \in Threads, Step(t)
          PROVE  DueInvariant'
      <3>0. ServedAll /\ Served(t) /\ PendingRows /\ VersionsDue /\ SteadyActive
        BY DEF DueInvariant, ServedAll
      <3>1. ServedAll'
        <4>1. \A u \in Threads : Served(u)'
          BY <2>1, <3>0, ServedOn, OthersServed DEF ServedAll
        <4>2. QED
          BY <4>1 DEF ServedAll
      <3>2. PendingRows' /\ VersionsDue' /\ SteadyActive' /\ AnnouncementsDue'
        BY <2>1, <3>0, PendingRowsStay, VersionsStayDue, StepsSpare, AnnouncementsStayDue
      <3>3. QED
        BY <3>1, <3>2 DEF DueInvariant
    <2>2. CASE UNCHANGED vars
      <3>1. ServedAll' /\ PendingRows' /\ VersionsDue' /\ SteadyActive'
        BY <2>2 DEF vars, DueInvariant, ServedAll, Served, InTransaction, Asking, Pending, ThisCall,
                    PendingRows, VersionsDue, SteadyActive
      <3>2. AnnouncementsDue'
        BY <2>2 DEF vars, DueInvariant, AnnouncementsDue, ToCome, Later
      <3>3. QED
        BY <3>1, <3>2 DEF DueInvariant
    <2>3. QED
      BY <2>1, <2>2, SwitchKeepsDue DEF Next
  <1>3. QED
    BY <1>1, <1>2, TypesStay, RecordStays, PTL DEF Spec

(***************************************************************************)
(* Each event of a change that stands has been announced to each endpoint  *)
(* that was active and untouched since it, and the outcome is recorded,    *)
(* once the request is over and neither died nor was excused: the          *)
(* transactions of rekeys and purges, and their rollbacks, included.       *)
(***************************************************************************)
THEOREM ChangesStayAnnounced == Spec => []ChangesAnnounced
  <1>1. TypeInvariant /\ DueInvariant => ChangesAnnounced
    <2> SUFFICES ASSUME TypeInvariant, DueInvariant, NEW c \in ghost.committed, Over(c),
                        NEW e \in ghost.steady[c], NEW event \in ghost.due[c] \cap Subscribed[e]
                 PROVE  SettledIn(deliveries, c, e, event)
      BY DEF ChangesAnnounced, SettledIn
    <2>1. c # 0
      BY HistoryTypes, ChangesNumbered DEF TypeInvariant
    <2>2. \A t \in Threads : thread[t].change # c
      BY <2>1 DEF Over, Working
    <2>3. QED
      BY <2>2 DEF DueInvariant, AnnouncementsDue, Over
  <1>2. QED
    BY <1>1, TypesStay, DueStays, PTL

(***************************************************************************)
(* A row says pending only while its call is made, or when its request     *)
(* died, had its secret purged or an endpoint deleted under it: an error   *)
(* of the receiver never leaves one behind.                                *)
(***************************************************************************)
THEOREM PendingStaysAccounted == Spec => []PendingAccounted
  <1>1. TypeInvariant /\ DueInvariant => PendingAccounted
    <2> SUFFICES ASSUME TypeInvariant, DueInvariant, NEW d \in deliveries, d.status = "pending",
                        d.call.change \notin ghost.excused
                 PROVE  \E t \in Threads : d.call.change \in Working(t)
      BY DEF PendingAccounted, Over
    <2>1. PICK t \in Threads : ~InTransaction(t) /\ Asking(t) /\ d = Pending(t)
      BY DEF DueInvariant, PendingRows
    <2>2. d.call.change = thread[t].change
      BY <2>1 DEF Pending, ThisCall
    <2>3. QED
      BY <2>1, <2>2, OwnChange DEF Asking
  <1>2. QED
    BY <1>1, TypesStay, DueStays, PTL

(***************************************************************************)
(* The version of a value is created after all the calls, and still no     *)
(* answer of a receiver, nor an endpoint switched off, costs it.           *)
(***************************************************************************)
THEOREM ChangesStayArchived == Spec => []ChangesArchived
  <1>1. TypeInvariant /\ DueInvariant => ChangesArchived
    <2> SUFFICES ASSUME TypeInvariant, DueInvariant, NEW c \in ghost.versioned, Over(c),
                        c \notin archived
                 PROVE  FALSE
      BY DEF ChangesArchived
    <2>1. PICK t \in Threads : thread[t].change = c
      BY DEF DueInvariant, VersionsDue, Over
    <2>2. c # 0
      BY HistoryTypes, ChangesNumbered DEF TypeInvariant
    <2>3. QED
      BY <2>1, <2>2 DEF Over, Working
  <1>2. QED
    BY <1>1, TypesStay, DueStays, PTL
=============================================================================
