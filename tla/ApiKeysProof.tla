----------------------------- MODULE ApiKeysProof -----------------------------
(***************************************************************************)
(* Proofs about ApiKeys, for any number of keys, processes and threads,    *)
(* any interval and any bound on time.                                     *)
(***************************************************************************)
EXTENDS ApiKeys, TLAPS

\* The records requests and keys start from have their types.
LEMMA InitialRecords == Idle \in ThreadState /\ Unminted \in ApiKey
  <1>1. (CHOOSE k \in Keys : TRUE) \in Keys
    BY KeysAssumption
  <1>2. 0 \in Time /\ 0 \in 0..(MaxTime + 1)
    BY TimeAssumption DEF Time
  <1>3. Unminted \in ApiKey
    BY <1>2 DEF Unminted, ApiKey
  <1>4. QED
    BY <1>1, <1>2, <1>3 DEF Idle, ThreadState, OpNames, Pcs

\* Fields read from well-typed records.
LEMMA FieldTypes ==
  ASSUME TypeOK
  PROVE  /\ \A k \in Keys : keys[k] \in ApiKey
         /\ \A t \in Threads : /\ thread[t] \in ThreadState /\ thread[t].key \in Keys
                               /\ thread[t].now \in Time /\ thread[t].owed \in SUBSET Keys
                               /\ thread[t].targets \in SUBSET Keys
         /\ clock \in Nat /\ clock \in 0..(MaxTime + 1)
  BY TimeAssumption DEF TypeOK, ThreadState, Time

\* Ending a request, moving on and starting one keep the threads' types.
LEMMA ThreadMoves ==
  ASSUME TypeOK, NEW t \in Threads
  PROVE  /\ Finish(t) => thread' \in [Threads -> ThreadState]
         /\ \A pc \in Pcs : Goto(t, pc) => thread' \in [Threads -> ThreadState]
         /\ \A op \in OpNames, pc \in Pcs, k \in Keys :
              Begin(t, op, pc, k) => thread' \in [Threads -> ThreadState]
  <1>1. ASSUME NEW op \in OpNames, NEW pc \in Pcs, NEW k \in Keys
        PROVE  [Idle EXCEPT !.op = op, !.pc = pc, !.key = k, !.arrived = clock,
                            !.late = k \in dead] \in ThreadState
    <2>1. (k \in dead) \in BOOLEAN /\ clock \in Time
      BY DEF TypeOK
    <2>2. QED
      BY <2>1, InitialRecords DEF Idle, ThreadState
  <1>2. \A op \in OpNames, pc \in Pcs, k \in Keys :
           Begin(t, op, pc, k) => thread' \in [Threads -> ThreadState]
    <2> SUFFICES ASSUME NEW op \in OpNames, NEW pc \in Pcs, NEW k \in Keys, Begin(t, op, pc, k)
                 PROVE  thread' \in [Threads -> ThreadState]
      OBVIOUS
    <2> DEFINE r == [Idle EXCEPT !.op = op, !.pc = pc, !.key = k, !.arrived = clock,
                                 !.late = k \in dead]
    <2>1. r \in ThreadState /\ thread' = [thread EXCEPT ![t] = r]
      BY <1>1 DEF Begin
    <2> HIDE DEF r
    <2>2. QED
      BY <2>1 DEF TypeOK
  <1>3. \A pc \in Pcs : [thread[t] EXCEPT !.pc = pc] \in ThreadState
    BY FieldTypes DEF ThreadState
  <1>4. QED
    BY <1>2, <1>3, InitialRecords DEF TypeOK, Finish, Goto
-----------------------------------------------------------------------------
\* The browser's and the operator's requests.
LEMMA RevocationsKeepTypes ==
  ASSUME TypeOK,
         \/ Mint
         \/ \E t \in Threads : \/ FindKey(t) \/ Revoke(t) \/ SaveRevoked(t)
                               \/ CallKillSwitch(t) \/ SelectActive(t) \/ RevokeAll(t)
  PROVE  TypeOK'
  <1> USE FieldTypes
  <1>1. CASE Mint
    <2>1. PICK k \in Keys : keys' = [keys EXCEPT ![k].minted = TRUE, ![k].created = clock]
      BY <1>1 DEF Mint
    <2>2. [keys[k] EXCEPT !.minted = TRUE, !.created = clock] \in ApiKey
      BY DEF ApiKey, TypeOK
    <2>3. QED
      BY <1>1, <2>1, <2>2 DEF Mint, TypeOK
  <1>2. ASSUME NEW t \in Threads, FindKey(t) PROVE TypeOK'
    <2>1. thread' \in [Threads -> ThreadState]
      BY <1>2, ThreadMoves DEF FindKey, OpNames, Pcs
    <2>2. QED
      BY <1>2, <2>1 DEF FindKey, TypeOK
  <1>3. ASSUME NEW t \in Threads, Revoke(t) PROVE TypeOK'
    <2>1. thread' \in [Threads -> ThreadState]
      BY <1>3, ThreadMoves DEF Revoke, Pcs
    <2>2. QED
      BY <1>3, <2>1 DEF Revoke, TypeOK
  <1>4. ASSUME NEW t \in Threads, SaveRevoked(t) PROVE TypeOK'
    BY <1>4, ThreadMoves DEF SaveRevoked, TypeOK, ApiKey
  <1>5. ASSUME NEW t \in Threads, CallKillSwitch(t) PROVE TypeOK'
    <2>1. PICK before \in {clock, MaxTime + 1} :
             thread' = [thread EXCEPT ![t] =
                          [Idle EXCEPT !.op = "kill", !.pc = "select", !.arrived = clock,
                                       !.before = before,
                                       !.owed = {k \in OrgKeys : CreatedBefore(k, before)}]]
      BY <1>5 DEF CallKillSwitch
    <2>2. before \in 0..(MaxTime + 1) /\ clock \in Time
          /\ {k \in OrgKeys : CreatedBefore(k, before)} \in SUBSET Keys
      BY TimeAssumption, KeysAssumption DEF TypeOK, Time
    <2>3. [Idle EXCEPT !.op = "kill", !.pc = "select", !.arrived = clock, !.before = before,
                       !.owed = {k \in OrgKeys : CreatedBefore(k, before)}] \in ThreadState
      BY <2>2, InitialRecords DEF Idle, ThreadState, OpNames, Pcs
    <2>4. thread' \in [Threads -> ThreadState]
      BY <2>1, <2>3 DEF TypeOK
    <2>5. QED
      BY <1>5, <2>4 DEF CallKillSwitch, TypeOK
  <1>6. ASSUME NEW t \in Threads, SelectActive(t) PROVE TypeOK'
    <2> DEFINE targets == {k \in OrgKeys : /\ CreatedBefore(k, thread[t].before)
                                           /\ ~keys[k].revoked}
    <2>1. [thread[t] EXCEPT !.pc = "update", !.targets = targets] \in ThreadState
      BY KeysAssumption DEF ThreadState, Pcs
    <2>2. thread' = [thread EXCEPT ![t] = [@ EXCEPT !.pc = "update", !.targets = targets]]
      BY <1>6 DEF SelectActive, TypeOK
    <2> HIDE DEF targets
    <2>3. thread' \in [Threads -> ThreadState]
      BY <2>1, <2>2 DEF TypeOK
    <2>4. QED
      BY <1>6, <2>3 DEF SelectActive, TypeOK
  <1>7. ASSUME NEW t \in Threads, RevokeAll(t) PROVE TypeOK'
    BY <1>7, ThreadMoves, ZenonT(40) DEF RevokeAll, TypeOK, ApiKey
  <1>8. QED
    BY <1>1, <1>2, <1>3, <1>4, <1>5, <1>6, <1>7

\* The requests of a machine.
LEMMA UsesKeepTypes ==
  ASSUME TypeOK, NEW t \in Threads,
         \/ UseKey(t) \/ Authenticate(t) \/ CheckLastUsed(t) \/ SaveLastUsed(t) \/ Remember(t)
         \/ Serve(t)
  PROVE  TypeOK'
  <1> USE FieldTypes
  <1>1. SetCache(t) => cached' \in [Processes -> [Keys -> Nat]]
    BY ProcessAssumption, TimeAssumption DEF SetCache, TypeOK
  <1>2. CASE UseKey(t)
    <2>1. thread' \in [Threads -> ThreadState]
      BY <1>2, ThreadMoves DEF UseKey, OpNames, Pcs
    <2>2. QED
      BY <1>2, <2>1 DEF UseKey, TypeOK
  <1>3. CASE Authenticate(t)
    <2> DEFINE row == keys[thread[t].key]
    <2>1. [thread[t] EXCEPT !.row = row, !.pc = "check_cache"] \in ThreadState
      BY DEF ThreadState, Pcs
    <2>2. thread' \in [Threads -> ThreadState]
      <3>1. CASE Finish(t)
        BY <3>1, ThreadMoves
      <3>2. CASE thread' = [thread EXCEPT ![t].row = row, ![t].pc = "check_cache"]
        BY <2>1, <3>2 DEF TypeOK
      <3>3. QED
        BY <1>3, <3>1, <3>2 DEF Authenticate
    <2>3. QED
      BY <1>3, <2>2 DEF Authenticate, TypeOK
  <1>4. CASE CheckLastUsed(t)
    <2>1. [thread[t] EXCEPT !.now = clock, !.pc = "save"] \in ThreadState
      BY DEF ThreadState, Pcs, TypeOK
    <2>2. thread' \in [Threads -> ThreadState]
      <3>1. CASE Goto(t, "serve")
        BY <3>1, ThreadMoves DEF Pcs
      <3>2. CASE thread' = [thread EXCEPT ![t].now = clock, ![t].pc = "save"]
        BY <2>1, <3>2 DEF TypeOK
      <3>3. QED
        BY <1>4, <3>1, <3>2 DEF CheckLastUsed
    <2>3. cached' \in [Processes -> [Keys -> Nat]]
      BY <1>1, <1>4 DEF CheckLastUsed, TypeOK
    <2>4. QED
      BY <1>4, <2>2, <2>3 DEF CheckLastUsed, TypeOK
  <1>5. CASE SaveLastUsed(t)
    <2>1. thread' \in [Threads -> ThreadState]
      BY <1>5, ThreadMoves DEF SaveLastUsed, Pcs
    <2>2. QED
      BY <1>5, <2>1 DEF SaveLastUsed, TypeOK, ApiKey
  <1>6. CASE Remember(t)
    <2>1. thread' \in [Threads -> ThreadState]
      BY <1>6, ThreadMoves DEF Remember, Pcs
    <2>2. QED
      BY <1>1, <1>6, <2>1 DEF Remember, TypeOK
  <1>7. CASE Serve(t)
    BY <1>7, ThreadMoves DEF Serve, TypeOK
  <1>8. QED
    BY <1>2, <1>3, <1>4, <1>5, <1>6, <1>7

LEMMA TypesInductive == TypeOK /\ [Next]_vars => TypeOK'
  <1> SUFFICES ASSUME TypeOK, [Next]_vars PROVE TypeOK'
    OBVIOUS
  <1>1. CASE UNCHANGED vars
    BY <1>1 DEF vars, TypeOK
  <1>2. CASE Tick
    <2>1. clock' \in Time
      BY <1>2, TimeAssumption DEF Tick, TypeOK, Time
    <2>2. cached' \in [Processes -> [Keys -> Nat]]
      BY <1>2 DEF Tick, TypeOK
    <2>3. QED
      BY <1>2, <2>1, <2>2 DEF Tick, TypeOK
  <1>3. ASSUME NEW p \in Processes, Crash(p) PROVE TypeOK'
    BY <1>3, InitialRecords DEF Crash, TypeOK
  <1>4. ASSUME NEW p \in Processes, Cull(p) PROVE TypeOK'
    BY <1>4 DEF Cull, TypeOK
  <1>5. QED
    BY <1>1, <1>2, <1>3, <1>4, RevocationsKeepTypes, UsesKeepTypes DEF Next, Step

LEMMA TypesInitially == Init => TypeOK
  BY InitialRecords, TimeAssumption DEF Init, TypeOK, Time

(***************************************************************************)
(* API keys, the caches of their use and requests keep their types.        *)
(***************************************************************************)
THEOREM ApiKeysTypeCorrect == Spec => []TypeOK
  BY TypesInitially, TypesInductive, PTL DEF Spec
-----------------------------------------------------------------------------
(***************************************************************************)
(* No write to a row takes back its revocation, or changes when it was     *)
(* created.                                                                *)
(***************************************************************************)
Stands(k) ==
  /\ keys[k].revoked => keys'[k].revoked
  /\ keys[k].minted => keys'[k].minted /\ keys'[k].created = keys[k].created

LEMMA RowsStand ==
  ASSUME TypeOK, [Next]_vars
  PROVE  \A k \in Keys : Stands(k)
  <1> USE FieldTypes
  <1>1. CASE keys' = keys
    BY <1>1 DEF Stands
  <1>2. ASSUME NEW k \in Keys, NEW row, keys' = [keys EXCEPT ![k] = row],
               keys[k].revoked => row.revoked,
               keys[k].minted => row.minted /\ row.created = keys[k].created
        PROVE  \A j \in Keys : Stands(j)
    BY <1>2 DEF Stands, TypeOK
  <1>3. CASE Mint
    <2>1. PICK k \in Keys : ~keys[k].minted
                            /\ keys' = [keys EXCEPT ![k].minted = TRUE, ![k].created = clock]
      BY <1>3 DEF Mint
    <2> DEFINE row == [keys[k] EXCEPT !.minted = TRUE, !.created = clock]
    <2>2. keys' = [keys EXCEPT ![k] = row]
      BY <2>1 DEF TypeOK
    <2>3. row.revoked = keys[k].revoked
      BY DEF ApiKey
    <2> HIDE DEF row
    <2>4. QED
      BY <1>2, <2>1, <2>2, <2>3
  <1>4. ASSUME NEW t \in Threads, SaveRevoked(t) PROVE \A k \in Keys : Stands(k)
    <2> DEFINE k == thread[t].key
               row == [keys[k] EXCEPT !.revoked = TRUE]
    <2>1. keys' = [keys EXCEPT ![k] = row]
      BY <1>4 DEF SaveRevoked
    <2>2. row.revoked /\ row.minted = keys[k].minted /\ row.created = keys[k].created
      BY DEF ApiKey
    <2>3. k \in Keys
      OBVIOUS
    <2> HIDE DEF row, k
    <2>4. QED
      BY <1>2, <2>1, <2>2, <2>3
  <1>5. ASSUME NEW t \in Threads, SaveLastUsed(t) PROVE \A k \in Keys : Stands(k)
    <2> DEFINE k == thread[t].key
               row == [keys[k] EXCEPT !.used = thread[t].now]
    <2>1. keys' = [keys EXCEPT ![k] = row]
      BY <1>5 DEF SaveLastUsed
    <2>2. row.revoked = keys[k].revoked /\ row.minted = keys[k].minted
          /\ row.created = keys[k].created
      BY DEF ApiKey
    <2>3. k \in Keys
      OBVIOUS
    <2> HIDE DEF row, k
    <2>4. QED
      BY <1>2, <2>1, <2>2, <2>3
  <1>6. ASSUME NEW t \in Threads, RevokeAll(t) PROVE \A k \in Keys : Stands(k)
    <2>1. \A k \in Keys : keys'[k] = keys[k] \/ keys'[k] = [keys[k] EXCEPT !.revoked = TRUE]
      BY <1>6 DEF RevokeAll
    <2>2. \A k \in Keys : LET row == [keys[k] EXCEPT !.revoked = TRUE]
                          IN  row.revoked /\ row.minted = keys[k].minted
                              /\ row.created = keys[k].created
      BY DEF ApiKey
    <2>3. QED
      BY <2>1, <2>2 DEF Stands
  <1>7. ASSUME NEW t \in Threads, Step(t), ~SaveRevoked(t), ~RevokeAll(t), ~SaveLastUsed(t)
        PROVE  keys' = keys
    BY <1>7 DEF Step, FindKey, Revoke, CallKillSwitch, SelectActive, UseKey, Authenticate,
                CheckLastUsed, Remember, Serve
  <1>8. QED
    BY <1>1, <1>3, <1>4, <1>5, <1>6, <1>7 DEF Next, Tick, Crash, Cull, vars

(***************************************************************************)
(* Revocation is for good.                                                 *)
(***************************************************************************)
THEOREM RevocationStands == Spec => RevokedForGood
  <1>1. TypeOK /\ [Next]_vars => [\A k \in Keys : keys[k].revoked => keys'[k].revoked]_vars
    BY RowsStand DEF Stands
  <1>2. QED
    BY <1>1, ApiKeysTypeCorrect, PTL DEF Spec, RevokedForGood
-----------------------------------------------------------------------------
\* The part of the invariant that is about one thread.
Refuses(t) ==
  /\ thread[t].late => thread[t].key \in dead
  /\ thread[t].pc \in {"check_cache", "save", "cache", "serve"} => ~thread[t].late
  /\ thread[t].pc \in {"select", "update"} =>
       \A k \in thread[t].owed : k \in OrgKeys /\ CreatedBefore(k, thread[t].before)
  /\ thread[t].pc = "update" =>
       \A k \in thread[t].owed : k \in thread[t].targets \/ keys[k].revoked

LEMMA RefusalParts ==
  RefusalInvariant <=> (\A k \in dead : keys[k].revoked) /\ \A t \in Threads : Refuses(t)
  BY DEF RefusalInvariant, Refuses

\* What a thread that stands still knows stays true.
LEMMA RefusesStands ==
  ASSUME TypeOK, NEW s \in Threads, Refuses(s), thread'[s] = thread[s], dead \subseteq dead',
         \A k \in Keys : Stands(k)
  PROVE  Refuses(s)'
  <1>1. \A k \in thread[s].owed : k \in Keys
    BY FieldTypes
  <1>2. \A b : \A k \in thread[s].owed : CreatedBefore(k, b) => CreatedBefore(k, b)'
    BY <1>1 DEF CreatedBefore, Stands
  <1>3. QED
    BY <1>1, <1>2 DEF Refuses, Stands, CreatedBefore

\* An idle thread knows nothing; and a request begins with what is true of its key.
LEMMA RefusesIdle ==
  ASSUME NEW t \in Threads, thread'[t] = Idle, dead \subseteq dead'
  PROVE  Refuses(t)'
  BY DEF Refuses, Idle

LEMMA RefusesBegun ==
  ASSUME TypeOK, NEW t \in Threads, NEW op, NEW pc \in {"find", "lookup"}, NEW k \in Keys,
         Begin(t, op, pc, k), UNCHANGED dead
  PROVE  Refuses(t)'
  <1>1. thread'[t] = [Idle EXCEPT !.op = op, !.pc = pc, !.key = k, !.arrived = clock,
                                  !.late = k \in dead]
    BY DEF Begin, TypeOK
  <1>2. thread'[t].pc = pc /\ thread'[t].key = k /\ thread'[t].late = (k \in dead)
    BY <1>1 DEF Idle
  <1>3. QED
    BY <1>2 DEF Refuses

\* A request of a machine under way keeps its key, and is refused here or never.
LEMMA RefusesUse ==
  ASSUME TypeOK, RefusalInvariant, NEW t \in Threads, ~Finish(t), UNCHANGED dead,
         \/ Authenticate(t) \/ CheckLastUsed(t) \/ SaveLastUsed(t) \/ Remember(t) \/ Revoke(t)
  PROVE  Refuses(t)'
  <1> USE FieldTypes
  <1>1. Refuses(t) /\ \A k \in dead : keys[k].revoked
    BY RefusalParts
  <1>2. /\ thread'[t].key = thread[t].key /\ thread'[t].late = thread[t].late
        /\ thread'[t].pc \notin {"select", "update"}
        /\ thread[t].pc \notin {"check_cache", "save", "cache", "serve"} =>
             thread'[t].pc = "save_revoked" \/ ~keys[thread[t].key].revoked
    <2>1. CASE Authenticate(t)
      BY <2>1 DEF Authenticate, IsActive, TypeOK, ThreadState
    <2>2. CASE CheckLastUsed(t)
      BY <2>2 DEF CheckLastUsed, Goto, TypeOK, ThreadState
    <2>3. CASE SaveLastUsed(t) \/ Remember(t)
      BY <2>3 DEF SaveLastUsed, Remember, Goto, TypeOK, ThreadState
    <2>4. CASE Revoke(t)
      BY <2>4 DEF Revoke, Goto, TypeOK, ThreadState
    <2>5. QED
      BY <2>1, <2>2, <2>3, <2>4
  <1>3. thread'[t].pc \in {"check_cache", "save", "cache", "serve"} => ~thread[t].late
    BY <1>1, <1>2 DEF Refuses
  <1>4. QED
    BY <1>1, <1>2, <1>3 DEF Refuses

\* A kill switch under way.
LEMMA RefusesKill ==
  ASSUME TypeOK, RefusalInvariant, NEW t \in Threads, CallKillSwitch(t) \/ SelectActive(t)
  PROVE  Refuses(t)'
  <1> USE FieldTypes
  <1>1. Refuses(t) /\ keys' = keys /\ dead' = dead
    BY RefusalParts DEF CallKillSwitch, SelectActive
  <1>2. CASE CallKillSwitch(t)
    <2>1. PICK before :
             thread' = [thread EXCEPT ![t] =
                          [Idle EXCEPT !.op = "kill", !.pc = "select", !.arrived = clock,
                                       !.before = before,
                                       !.owed = {k \in OrgKeys : CreatedBefore(k, before)}]]
      BY <1>2 DEF CallKillSwitch
    <2>2. /\ thread'[t].pc = "select" /\ thread'[t].late = FALSE /\ thread'[t].before = before
          /\ thread'[t].owed = {k \in OrgKeys : CreatedBefore(k, before)}
      BY <2>1 DEF TypeOK, Idle
    <2>3. QED
      BY <1>1, <2>2 DEF Refuses, CreatedBefore
  <1>3. CASE SelectActive(t)
    <2> DEFINE targets == {k \in OrgKeys : /\ CreatedBefore(k, thread[t].before)
                                           /\ ~keys[k].revoked}
    <2>1. thread' = [thread EXCEPT ![t].pc = "update", ![t].targets = targets]
          /\ thread[t].pc = "select"
      BY <1>3 DEF SelectActive
    <2>2. /\ thread'[t].pc = "update" /\ thread'[t].late = thread[t].late
          /\ thread'[t].key = thread[t].key /\ thread'[t].before = thread[t].before
          /\ thread'[t].owed = thread[t].owed /\ thread'[t].targets = targets
      BY <2>1 DEF TypeOK, ThreadState
    <2>3. \A k \in thread[t].owed : k \in targets \/ keys[k].revoked
      BY <1>1, <2>1 DEF Refuses
    <2>4. \A k \in thread[t].owed : k \in OrgKeys /\ CreatedBefore(k, thread[t].before)
      BY <1>1, <2>1 DEF Refuses
    <2> HIDE DEF targets
    <2>5. QED
      BY <1>1, <2>2, <2>3, <2>4 DEF Refuses, CreatedBefore
  <1>4. QED
    BY <1>2, <1>3

\* A revocation is answered when it is in the row.
LEMMA DeadRevoked ==
  ASSUME TypeOK, RefusalInvariant, [Next]_vars
  PROVE  dead \subseteq dead' /\ \A k \in dead' : keys'[k].revoked
  <1> USE FieldTypes
  <1>1. (\A k \in dead : keys[k].revoked /\ k \in Keys) /\ \A k \in Keys : Stands(k)
    BY RowsStand, RefusalParts DEF TypeOK
  <1>2. CASE dead' = dead
    BY <1>1, <1>2 DEF Stands
  <1>3. ASSUME NEW t \in Threads, Revoke(t)
        PROVE  \/ dead' = dead
               \/ dead' = dead \cup {thread[t].key} /\ keys'[thread[t].key].revoked
    BY <1>3 DEF Revoke
  <1>4. ASSUME NEW t \in Threads, SaveRevoked(t)
        PROVE  dead' = dead \cup {thread[t].key} /\ keys'[thread[t].key].revoked
    BY <1>4 DEF SaveRevoked, TypeOK, ApiKey
  <1>5. ASSUME NEW t \in Threads, RevokeAll(t)
        PROVE  dead' = dead \cup thread[t].owed /\ \A k \in thread[t].owed : keys'[k].revoked
    <2>1. Refuses(t)
      BY RefusalParts
    <2>2. \A k \in thread[t].owed : k \in Keys /\ (k \in thread[t].targets \/ keys[k].revoked)
      BY <1>5, <2>1 DEF Refuses, RevokeAll
    <2>3. QED
      BY <1>5, <2>2 DEF RevokeAll, ApiKey
  <1>6. ASSUME NEW t \in Threads, Step(t), ~Revoke(t), ~SaveRevoked(t), ~RevokeAll(t)
        PROVE  dead' = dead
    BY <1>6 DEF Step, FindKey, CallKillSwitch, SelectActive, UseKey, Authenticate, CheckLastUsed,
                SaveLastUsed, Remember, Serve
  <1>7. CASE Mint \/ Tick \/ (\E p \in Processes : Crash(p) \/ Cull(p)) \/ UNCHANGED vars
    BY <1>2, <1>7 DEF Mint, Tick, Crash, Cull, vars
  <1>8. ASSUME NEW t \in Threads, Step(t)
        PROVE  dead \subseteq dead' /\ \A k \in dead' : keys'[k].revoked
    BY <1>1, <1>2, <1>3, <1>4, <1>5, <1>6, <1>8 DEF Stands
  <1>9. QED
    BY <1>7, <1>8 DEF Next

LEMMA RefusalInductive == TypeOK /\ RefusalInvariant /\ [Next]_vars => RefusalInvariant'
  <1> SUFFICES ASSUME TypeOK, RefusalInvariant, [Next]_vars
               PROVE  (\A k \in dead' : keys'[k].revoked) /\ \A s \in Threads : Refuses(s)'
    BY DEF RefusalInvariant, Refuses
  <1> SUFFICES ASSUME NEW s \in Threads PROVE Refuses(s)'
    BY DeadRevoked
  <1>1. dead \subseteq dead' /\ (\A k \in dead' : keys'[k].revoked) /\ \A k \in Keys : Stands(k)
    BY DeadRevoked, RowsStand
  <1>2. Refuses(s)
    BY RefusalParts
  <1>3. CASE thread'[s] = thread[s]
    BY <1>1, <1>2, <1>3, RefusesStands
  <1>4. CASE thread'[s] = Idle
    BY <1>1, <1>4, RefusesIdle
  <1>5. CASE Mint \/ Tick \/ (\E p \in Processes : Crash(p) \/ Cull(p)) \/ UNCHANGED vars
    BY <1>1, <1>3, <1>4, <1>5 DEF Mint, Tick, Crash, Cull, vars
  <1>6. ASSUME NEW t \in Threads, Step(t) PROVE Refuses(s)'
    <2>1. CASE Finish(t)
      BY <1>3, <1>4, <2>1 DEF Finish, TypeOK
    <2>2. CASE s # t
      <3>1. thread'[s] = thread[s]
        BY <1>6, <2>2 DEF Step, FindKey, Begin, Revoke, SaveRevoked, CallKillSwitch, SelectActive,
                          RevokeAll, UseKey, Authenticate, CheckLastUsed, SaveLastUsed, Remember,
                          Serve, Goto, Finish, TypeOK
      <3>2. QED
        BY <1>3, <3>1
    <2>3. CASE s = t /\ (FindKey(t) \/ UseKey(t))
      BY <2>3, RefusesBegun DEF FindKey, UseKey
    <2>4. CASE s = t /\ (CallKillSwitch(t) \/ SelectActive(t))
      BY <2>4, RefusesKill
    <2>5. CASE s = t /\ ~Finish(t) /\ (Authenticate(t) \/ CheckLastUsed(t) \/ SaveLastUsed(t)
                                       \/ Remember(t) \/ Revoke(t))
      <3>1. UNCHANGED dead
        BY <2>5 DEF Authenticate, CheckLastUsed, SaveLastUsed, Remember, Revoke
      <3>2. QED
        BY <2>5, <3>1, RefusesUse
    <2>6. CASE SaveRevoked(t) \/ RevokeAll(t) \/ Serve(t)
      BY <2>1, <2>6 DEF SaveRevoked, RevokeAll, Serve
    <2>7. QED
      BY <1>6, <2>1, <2>2, <2>3, <2>4, <2>5, <2>6 DEF Step
  <1>7. QED
    BY <1>1, <1>5, <1>6 DEF Next

(***************************************************************************)
(* A key whose revocation has been answered, or that was there when an     *)
(* answered kill switch was called, serves no request that arrives later.  *)
(***************************************************************************)
THEOREM RevokedKeysRefused == Spec => []DeadKeysRefused
  <1>1. Init => RefusalInvariant
    BY DEF Init, Idle, RefusalInvariant
  <1>2. RefusalInvariant => DeadKeysRefused
    BY DEF RefusalInvariant, DeadKeysRefused
  <1>3. QED
    BY <1>1, <1>2, RefusalInductive, ApiKeysTypeCorrect, PTL DEF Spec
-----------------------------------------------------------------------------
(***************************************************************************)
(* Last uses.  A thread that is late in recording a use may set the column *)
(* back, but by one tick at most, since requests end by the next one: what *)
(* the column can still be set back to never decreases.                    *)
(***************************************************************************)
Floor(k) == IF keys[k].used < clock THEN keys[k].used ELSE clock - 1

Used(k) == keys[k].used # Never

Records(t) ==
  LET k == thread[t].key
      arrived == thread[t].arrived
  IN /\ thread[t].pc # "idle" => arrived <= clock /\ clock <= arrived + 1
     /\ thread[t].pc = "check_cache" /\ thread[t].row.used # Never =>
          Used(k) /\ thread[t].row.used <= Floor(k) + 1
     /\ thread[t].pc = "save" => arrived <= thread[t].now /\ thread[t].now <= clock
     /\ thread[t].pc = "cache" => Used(k) /\ arrived <= Floor(k) + 1
     /\ thread[t].pc = "serve" => Used(k) /\ arrived + 1 <= Floor(k) + 2 * Interval

UseInvariant ==
  /\ \A k \in Keys : keys[k].used <= clock
  /\ \A p \in Processes, k \in Keys :
       cached[p][k] > clock => Used(k) /\ cached[p][k] <= Floor(k) + 2 * Interval
  /\ \A k \in Keys : served[k] # Never => Used(k) /\ served[k] <= Floor(k) + 2 * Interval
  /\ \A t \in Threads : Records(t)

\* The numbers the invariant is about.
LEMMA Times ==
  ASSUME TypeOK
  PROVE  /\ clock \in Nat
         /\ \A k \in Keys : keys[k].used \in Int /\ keys[k].used >= -1 /\ Floor(k) \in Int
                            /\ served[k] \in Int
         /\ \A p \in Processes, k \in Keys : cached[p][k] \in Nat
         /\ \A t \in Threads : /\ thread[t].key \in Keys /\ thread[t].arrived \in Nat
                               /\ thread[t].now \in Nat /\ thread[t].row.used \in Int
  <1>1. clock \in Nat
    BY TimeAssumption DEF TypeOK, Time
  <1>2. \A k \in Keys : keys[k].used \in Time \cup {Never} /\ served[k] \in Time \cup {Never}
    BY DEF TypeOK, ApiKey
  <1>3. \A k \in Keys : keys[k].used \in Int /\ keys[k].used >= -1 /\ served[k] \in Int
    BY <1>2, TimeAssumption DEF Time, Never
  <1>4. \A p \in Processes, k \in Keys : cached[p][k] \in Nat
    BY DEF TypeOK
  <1>5. \A t \in Threads : /\ thread[t].key \in Keys /\ thread[t].arrived \in Time
                           /\ thread[t].now \in Time /\ thread[t].row \in ApiKey
    BY DEF TypeOK, ThreadState
  <1>6. \A t \in Threads : thread[t].row.used \in Time \cup {Never}
    BY <1>5 DEF ApiKey
  <1>7. QED
    BY <1>1, <1>3, <1>4, <1>5, <1>6, TimeAssumption DEF Time, Never, Floor

LEMMA TimesNext ==
  ASSUME TypeOK'
  PROVE  clock' \in Nat /\ \A k \in Keys : Floor(k)' \in Int /\ served'[k] \in Int
  <1>1. clock' \in Nat
    BY TimeAssumption DEF TypeOK, Time
  <1>2. \A k \in Keys : keys'[k].used \in Time \cup {Never} /\ served'[k] \in Time \cup {Never}
    BY DEF TypeOK, ApiKey
  <1>3. QED
    BY <1>1, <1>2, TimeAssumption DEF Time, Never, Floor

\* What a key's column can be set back to never decreases.
Rises(k) == Used(k) => Used(k)' /\ Floor(k) <= Floor(k)'

LEMMA ColumnsRise ==
  ASSUME TypeOK, TypeOK', UseInvariant, [Next]_vars
  PROVE  \A k \in Keys : Rises(k) /\ keys'[k].used <= clock'
  <1> USE Times
  <1>1. CASE Tick
    <2>1. clock' = clock + 1 /\ keys' = keys
      BY <1>1 DEF Tick
    <2>2. QED
      BY <2>1 DEF Rises, Used, Floor, UseInvariant
  <1>2. CASE clock' = clock /\ \A k \in Keys : keys'[k].used = keys[k].used
    BY <1>2 DEF Rises, Used, Floor, UseInvariant
  <1>3. ASSUME NEW t \in Threads, SaveLastUsed(t)
        PROVE  \A k \in Keys : Rises(k) /\ keys'[k].used <= clock'
    <2>1. /\ clock' = clock /\ thread[t].now <= clock /\ clock <= thread[t].now + 1
      BY <1>3 DEF SaveLastUsed, UseInvariant, Records
    <2>2. \A k \in Keys : keys'[k].used = keys[k].used \/ keys'[k].used = thread[t].now
      BY <1>3 DEF SaveLastUsed, TypeOK, ApiKey
    <2>3. QED
      BY <2>1, <2>2 DEF Rises, Used, Floor, UseInvariant, Never
  <1>4. ASSUME NEW t \in Threads, SaveRevoked(t) \/ RevokeAll(t)
        PROVE  clock' = clock /\ \A k \in Keys : keys'[k].used = keys[k].used
    BY <1>4 DEF SaveRevoked, RevokeAll, TypeOK, ApiKey
  <1>5. ASSUME Mint PROVE clock' = clock /\ \A k \in Keys : keys'[k].used = keys[k].used
    BY <1>5 DEF Mint, TypeOK, ApiKey
  <1>6. ASSUME NEW t \in Threads, Step(t), ~SaveRevoked(t), ~RevokeAll(t), ~SaveLastUsed(t)
        PROVE  clock' = clock /\ keys' = keys
    BY <1>6 DEF Step, FindKey, Revoke, CallKillSwitch, SelectActive, UseKey, Authenticate,
                CheckLastUsed, Remember, Serve
  <1>7. ASSUME UNCHANGED vars \/ \E p \in Processes : Crash(p) \/ Cull(p)
        PROVE  clock' = clock /\ keys' = keys
    BY <1>7 DEF vars, Crash, Cull
  <1>8. QED
    BY <1>1, <1>2, <1>3, <1>4, <1>5, <1>6, <1>7 DEF Next

\* What a thread that stands still knows stays true.
LEMMA RecordsStand ==
  ASSUME TypeOK, TypeOK', NEW t \in Threads, Records(t), thread'[t] = thread[t],
         \A k \in Keys : Rises(k),
         \/ clock' = clock
         \/ clock' = clock + 1 /\ (thread[t] = Idle \/ thread[t].arrived = clock)
  PROVE  Records(t)'
  <1> USE Times
  <1>1. Rises(thread[t].key) /\ clock' \in Nat /\ \A k \in Keys : Floor(k)' \in Int
    BY TimesNext
  <1>2. CASE thread[t].pc = "idle"
    BY <1>2 DEF Records
  <1>3. CASE thread[t].pc # "idle" /\ (clock' = clock \/ thread[t].arrived = clock)
    BY <1>1, <1>3, TimeAssumption DEF Records, Rises
  <1>4. QED
    BY <1>2, <1>3 DEF Idle

\* Steps that neither record a use nor look at one.
LEMMA RecordsBegun ==
  ASSUME TypeOK, NEW t \in Threads, clock' = clock, thread'[t].arrived <= clock,
         thread'[t].pc # "idle" => clock <= thread'[t].arrived + 1,
         thread'[t].pc \notin {"check_cache", "save", "cache", "serve"}
  PROVE  Records(t)'
  BY DEF Records

LEMMA RecordsOther ==
  ASSUME TypeOK, UseInvariant, NEW t \in Threads,
         \/ FindKey(t) \/ Revoke(t) \/ SaveRevoked(t) \/ CallKillSwitch(t) \/ SelectActive(t)
         \/ RevokeAll(t) \/ UseKey(t)
  PROVE  Records(t)' /\ UNCHANGED <<clock, cached, served>>
  <1> USE Times
  <1>1. clock' = clock /\ UNCHANGED <<cached, served>>
    BY DEF FindKey, Revoke, SaveRevoked, CallKillSwitch, SelectActive, RevokeAll, UseKey
  <1>2. CASE Finish(t)
    BY <1>1, <1>2, RecordsBegun DEF Finish, Idle, TypeOK
  <1>3. ASSUME NEW op, NEW pc \in {"find", "lookup"}, NEW k, Begin(t, op, pc, k)
        PROVE  Records(t)'
    <2>1. thread'[t].arrived = clock /\ thread'[t].pc = pc
      BY <1>3 DEF Begin, Idle, TypeOK
    <2>2. QED
      BY <1>1, <2>1, RecordsBegun
  <1>4. CASE CallKillSwitch(t)
    <2>1. thread'[t].arrived = clock /\ thread'[t].pc = "select"
      BY <1>4 DEF CallKillSwitch, Idle, TypeOK
    <2>2. QED
      BY <1>1, <2>1, RecordsBegun
  <1>5. CASE ~Finish(t) /\ (Revoke(t) \/ SelectActive(t))
    <2>1. /\ thread'[t].arrived = thread[t].arrived /\ thread[t].pc # "idle"
          /\ thread'[t].pc \in {"save_revoked", "update"}
      BY <1>5 DEF Revoke, SelectActive, Goto, TypeOK, ThreadState
    <2>2. thread[t].arrived <= clock /\ clock <= thread[t].arrived + 1
      BY <2>1 DEF UseInvariant, Records
    <2>3. QED
      BY <1>1, <2>1, <2>2, RecordsBegun
  <1>6. QED
    BY <1>1, <1>2, <1>3, <1>4, <1>5 DEF FindKey, UseKey, SaveRevoked, RevokeAll

\* The requests of a machine.
LEMMA RecordsUse ==
  ASSUME TypeOK, UseInvariant, NEW t \in Threads,
         \/ Authenticate(t) \/ CheckLastUsed(t) \/ SaveLastUsed(t) \/ Remember(t) \/ Serve(t)
  PROVE  /\ Records(t)' /\ clock' = clock
         /\ cached' = cached \/ /\ SetCache(t) /\ Used(thread[t].key)
                                /\ clock + Interval <= Floor(thread[t].key) + 2 * Interval
         /\ served' = served \/ /\ Used(thread[t].key)
                                /\ served' = [served EXCEPT ![thread[t].key] = clock]
                                /\ clock <= Floor(thread[t].key) + 2 * Interval
  <1> DEFINE k == thread[t].key
             arrived == thread[t].arrived
  <1> USE Times, TimeAssumption
  <1>1. /\ k \in Keys /\ keys[k].used \in Int /\ keys[k].used <= clock /\ Floor(k) \in Int
        /\ arrived \in Nat /\ Records(t) /\ cached[ProcessOf[t]][k] \in Nat
        /\ cached[ProcessOf[t]][k] > clock =>
             Used(k) /\ cached[ProcessOf[t]][k] <= Floor(k) + 2 * Interval
    BY ProcessAssumption DEF UseInvariant
  <1>2. thread[t].pc # "idle" /\ arrived <= clock /\ clock <= arrived + 1
    BY <1>1 DEF Records, Authenticate, CheckLastUsed, SaveLastUsed, Remember, Serve
  <1>3. ASSUME Finish(t), UNCHANGED <<clock, cached>> PROVE Records(t)'
    BY <1>3, RecordsBegun DEF Finish, Idle, TypeOK
  <1>4. CASE Authenticate(t)
    <2>1. UNCHANGED <<clock, keys, cached, served>>
      BY <1>4 DEF Authenticate
    <2>2. CASE Finish(t)
      BY <1>3, <2>1, <2>2
    <2>3. CASE thread' = [thread EXCEPT ![t].row = keys[k], ![t].pc = "check_cache"]
      <3>1. /\ thread'[t].row = keys[k] /\ thread'[t].pc = "check_cache"
            /\ thread'[t].key = k /\ thread'[t].arrived = arrived
        BY <2>3 DEF TypeOK, ThreadState
      <3>2. QED
        BY <1>1, <1>2, <2>1, <3>1 DEF Records, Used, Floor
    <2>4. QED
      BY <1>4, <2>1, <2>2, <2>3 DEF Authenticate
  <1>5. CASE CheckLastUsed(t)
    <2>1. UNCHANGED <<clock, keys, served>> /\ thread[t].pc = "check_cache"
      BY <1>5 DEF CheckLastUsed
    <2>2. thread[t].row.used # Never => Used(k) /\ thread[t].row.used <= Floor(k) + 1
      BY <1>1, <2>1 DEF Records
    <2>3. CASE cached[ProcessOf[t]][k] > clock /\ Goto(t, "serve") /\ UNCHANGED cached
      <3>1. thread'[t].pc = "serve" /\ thread'[t].key = k /\ thread'[t].arrived = arrived
        BY <2>3 DEF Goto, TypeOK, ThreadState
      <3>2. Used(k) /\ arrived + 1 <= Floor(k) + 2 * Interval
        BY <1>1, <1>2, <2>3
      <3>3. QED
        BY <1>2, <2>1, <2>3, <3>1, <3>2 DEF Records, Used, Floor
    <2>4. CASE /\ thread[t].row.used # Never /\ clock - thread[t].row.used < Interval
               /\ Goto(t, "serve") /\ SetCache(t)
      <3>1. thread'[t].pc = "serve" /\ thread'[t].key = k /\ thread'[t].arrived = arrived
        BY <2>4 DEF Goto, TypeOK, ThreadState
      <3>2. Used(k) /\ clock <= Floor(k) + Interval
        BY <1>1, <2>2, <2>4
      <3>3. arrived + 1 <= Floor(k) + 2 * Interval
        BY <1>1, <1>2, <3>2
      <3>4. QED
        BY <1>1, <1>2, <2>1, <2>4, <3>1, <3>2, <3>3 DEF Records, Used, Floor
    <2>5. CASE thread' = [thread EXCEPT ![t].now = clock, ![t].pc = "save"] /\ UNCHANGED cached
      <3>1. /\ thread'[t].pc = "save" /\ thread'[t].now = clock /\ thread'[t].arrived = arrived
        BY <2>5 DEF TypeOK, ThreadState
      <3>2. QED
        BY <1>2, <2>1, <2>5, <3>1 DEF Records
    <2>6. QED
      BY <1>5, <2>3, <2>4, <2>5 DEF CheckLastUsed
  <1>6. CASE SaveLastUsed(t)
    <2>1. /\ UNCHANGED <<clock, cached, served>>
          /\ arrived <= thread[t].now /\ thread[t].now <= clock
      BY <1>1, <1>6 DEF SaveLastUsed, Records
    <2>2. thread'[t].pc = "cache" /\ thread'[t].key = k /\ thread'[t].arrived = arrived
      BY <1>6 DEF SaveLastUsed, Goto, TypeOK, ThreadState
    <2>3. keys'[k].used = thread[t].now
      BY <1>1, <1>6 DEF SaveLastUsed, TypeOK, ApiKey
    <2>4. QED
      BY <1>2, <2>1, <2>2, <2>3 DEF Records, Used, Floor, Never
  <1>7. CASE Remember(t)
    <2>1. UNCHANGED <<clock, keys, served>> /\ SetCache(t) /\ Used(k) /\ arrived <= Floor(k) + 1
      BY <1>1, <1>7 DEF Remember, Records
    <2>2. thread'[t].pc = "serve" /\ thread'[t].key = k /\ thread'[t].arrived = arrived
      BY <1>7 DEF Remember, Goto, TypeOK, ThreadState
    <2>3. arrived + 1 <= Floor(k) + 2 * Interval /\ clock + Interval <= Floor(k) + 2 * Interval
      BY <1>1, <1>2, <2>1
    <2>4. QED
      BY <1>2, <2>1, <2>2, <2>3 DEF Records, Used, Floor
  <1>8. CASE Serve(t)
    <2>1. /\ UNCHANGED <<clock, keys, cached>> /\ Finish(t) /\ Used(k)
          /\ served' = [served EXCEPT ![k] = clock]
          /\ arrived + 1 <= Floor(k) + 2 * Interval
      BY <1>1, <1>8 DEF Serve, Records
    <2>2. clock <= Floor(k) + 2 * Interval
      BY <1>1, <1>2, <2>1
    <2>3. QED
      BY <1>3, <2>1, <2>2
  <1>9. QED
    BY <1>4, <1>5, <1>6, <1>7, <1>8

(***************************************************************************)
(* Caches and what was served, with one step of a machine's request.       *)
(***************************************************************************)
Reckoned ==
  /\ \A p \in Processes, k \in Keys :
       cached[p][k] > clock => Used(k) /\ cached[p][k] <= Floor(k) + 2 * Interval
  /\ \A k \in Keys : served[k] # Never => Used(k) /\ served[k] <= Floor(k) + 2 * Interval

LEMMA ReckonedStands ==
  ASSUME TypeOK, TypeOK', Reckoned, \A k \in Keys : Rises(k), clock <= clock',
         NEW j \in Keys, NEW time \in Nat, time <= Floor(j) + 2 * Interval, NEW until \in Nat,
         until <= Floor(j) + 2 * Interval,
         \A p \in Processes, k \in Keys :
           \/ cached'[p][k] \in {0, cached[p][k]}
           \/ k = j /\ Used(j) /\ cached'[p][k] = until,
         \A k \in Keys : \/ served'[k] = served[k]
                         \/ k = j /\ Used(j) /\ served'[k] = time
  PROVE  Reckoned'
  <1> USE Times
  <1>1. clock' \in Nat /\ \A k \in Keys : Floor(k)' \in Int
    BY TimesNext
  <1>2. ASSUME NEW p \in Processes, NEW k \in Keys, cached'[p][k] > clock'
        PROVE  Used(k)' /\ cached'[p][k] <= Floor(k)' + 2 * Interval
    BY <1>1, <1>2, TimeAssumption DEF Reckoned, Rises
  <1>3. ASSUME NEW k \in Keys, served'[k] # Never
        PROVE  Used(k)' /\ served'[k] <= Floor(k)' + 2 * Interval
    BY <1>1, <1>3, TimeAssumption DEF Reckoned, Rises
  <1>4. QED
    BY <1>2, <1>3 DEF Reckoned

LEMMA UsesInductive == TypeOK /\ UseInvariant /\ [Next]_vars => UseInvariant'
  <1> SUFFICES ASSUME TypeOK, UseInvariant, [Next]_vars PROVE UseInvariant'
    OBVIOUS
  <1> USE Times
  <1>1. TypeOK' /\ Reckoned
    BY TypesInductive DEF UseInvariant, Reckoned
  <1>2. \A k \in Keys : Rises(k) /\ keys'[k].used <= clock'
    BY <1>1, ColumnsRise
  <1>3. SUFFICES Reckoned' /\ \A t \in Threads : Records(t)'
    BY <1>2 DEF UseInvariant, Reckoned
  <1>4. ASSUME clock <= clock',
               \A p \in Processes, k \in Keys : cached'[p][k] \in {0, cached[p][k]},
               UNCHANGED served
        PROVE  Reckoned'
    <2>1. ASSUME NEW p \in Processes, NEW k \in Keys, cached'[p][k] > clock'
          PROVE  Used(k)' /\ cached'[p][k] <= Floor(k)' + 2 * Interval
      BY <1>1, <1>2, <1>4, <2>1, TimesNext, TimeAssumption DEF Reckoned, Rises
    <2>2. ASSUME NEW k \in Keys, served'[k] # Never
          PROVE  Used(k)' /\ served'[k] <= Floor(k)' + 2 * Interval
      BY <1>1, <1>2, <1>4, <2>2, TimesNext, TimeAssumption DEF Reckoned, Rises
    <2>3. QED
      BY <2>1, <2>2 DEF Reckoned
  <1>5. ASSUME NEW t \in Threads, thread'[t] = thread[t],
               \/ clock' = clock
               \/ clock' = clock + 1 /\ (thread[t] = Idle \/ thread[t].arrived = clock)
        PROVE  Records(t)'
    BY <1>1, <1>2, <1>5, RecordsStand DEF UseInvariant
  <1>6. CASE UNCHANGED vars \/ Mint
    <2>1. UNCHANGED <<clock, cached, thread, served>>
      BY <1>6 DEF vars, Mint
    <2>2. Reckoned'
      BY <1>4, <2>1
    <2>3. QED
      BY <1>5, <2>1, <2>2
  <1>7. CASE Tick
    <2>1. /\ clock' = clock + 1 /\ UNCHANGED <<served, thread>>
          /\ \A t \in Threads : thread[t] = Idle \/ thread[t].arrived = clock
          /\ \A p \in Processes, k \in Keys : cached'[p][k] \in {0, cached[p][k]}
      BY <1>7 DEF Tick
    <2>2. QED
      BY <1>4, <1>5, <2>1
  <1>8. ASSUME NEW p \in Processes, Crash(p) PROVE Reckoned' /\ \A t \in Threads : Records(t)'
    <2>1. /\ clock' = clock /\ UNCHANGED served
          /\ \A q \in Processes, k \in Keys : cached'[q][k] \in {0, cached[q][k]}
      BY <1>8 DEF Crash, TypeOK
    <2>2. ASSUME NEW t \in Threads, thread'[t] # thread[t] PROVE Records(t)'
      <3>1. thread'[t] = Idle
        BY <1>8, <2>2 DEF Crash, TypeOK
      <3>2. QED
        BY <2>1, <3>1, RecordsBegun DEF Idle
    <2>3. QED
      BY <1>4, <1>5, <2>1, <2>2
  <1>9. ASSUME NEW p \in Processes, Cull(p) PROVE Reckoned' /\ \A t \in Threads : Records(t)'
    <2>1. /\ UNCHANGED <<clock, thread, served>>
          /\ \A q \in Processes, k \in Keys : cached'[q][k] \in {0, cached[q][k]}
      BY <1>9 DEF Cull, TypeOK
    <2>2. QED
      BY <1>4, <1>5, <2>1
  <1>10. ASSUME NEW t \in Threads, Step(t) PROVE Reckoned' /\ \A s \in Threads : Records(s)'
    <2>1. \A s \in Threads \ {t} : thread'[s] = thread[s]
      BY <1>10 DEF Step, FindKey, Begin, Revoke, SaveRevoked, CallKillSwitch, SelectActive,
                  RevokeAll, UseKey, Authenticate, CheckLastUsed, SaveLastUsed, Remember,
                  Serve, Goto, Finish, TypeOK
    <2>2. CASE \/ FindKey(t) \/ Revoke(t) \/ SaveRevoked(t) \/ CallKillSwitch(t) \/ SelectActive(t)
               \/ RevokeAll(t) \/ UseKey(t)
      <3>1. Records(t)' /\ UNCHANGED <<clock, cached, served>>
        BY <2>2, RecordsOther
      <3>2. QED
        BY <1>4, <1>5, <2>1, <3>1
    <2>3. CASE Authenticate(t) \/ CheckLastUsed(t) \/ SaveLastUsed(t) \/ Remember(t) \/ Serve(t)
      <3> DEFINE j == thread[t].key
      <3>1. /\ Records(t)' /\ clock' = clock
            /\ cached' = cached \/ /\ SetCache(t) /\ Used(j)
                                   /\ clock + Interval <= Floor(j) + 2 * Interval
            /\ served' = served \/ /\ Used(j) /\ served' = [served EXCEPT ![j] = clock]
                                   /\ clock <= Floor(j) + 2 * Interval
        BY <2>3, RecordsUse
      <3>2. CASE cached' = cached /\ served' = served
        BY <1>4, <1>5, <2>1, <3>1, <3>2
      <3>3. CASE /\ SetCache(t) /\ Used(j) /\ clock + Interval <= Floor(j) + 2 * Interval
                 /\ served' = served
        <4>1. \A p \in Processes, k \in Keys :
                 \/ cached'[p][k] = cached[p][k]
                 \/ k = j /\ cached'[p][k] = clock + Interval
          BY <3>3, ProcessAssumption DEF SetCache, TypeOK
        <4>2. clock + Interval \in Nat /\ j \in Keys
          BY TimeAssumption
        <4>3. Reckoned'
          BY <1>1, <1>2, <3>1, <3>3, <4>1, <4>2, ReckonedStands
        <4>4. QED
          BY <1>5, <2>1, <3>1, <4>3
      <3>4. CASE /\ cached' = cached /\ Used(j) /\ served' = [served EXCEPT ![j] = clock]
                 /\ clock <= Floor(j) + 2 * Interval
        <4>1. \A k \in Keys : served'[k] = served[k] \/ (k = j /\ served'[k] = clock)
          BY <3>4 DEF TypeOK
        <4>2. j \in Keys
          OBVIOUS
        <4>3. Reckoned'
          BY <1>1, <1>2, <3>1, <3>4, <4>1, <4>2, ReckonedStands
        <4>4. QED
          BY <1>5, <2>1, <3>1, <4>3
      <3>5. cached' = cached \/ served' = served
        BY <2>3 DEF Authenticate, CheckLastUsed, SaveLastUsed, Remember, Serve
      <3>6. QED
        BY <3>1, <3>2, <3>3, <3>4, <3>5
    <2>4. QED
      BY <1>10, <2>2, <2>3 DEF Step
  <1>11. QED
    BY <1>6, <1>7, <1>8, <1>9, <1>10 DEF Next

LEMMA UsesInitially == Init => UseInvariant
  BY TimeAssumption DEF Init, UseInvariant, Records, Idle, Unminted, Never

(***************************************************************************)
(* A key's last use is known to within two intervals, however the requests *)
(* of all workers and the clock interleave, and whatever their caches      *)
(* remember or lose.                                                       *)
(***************************************************************************)
THEOREM LastUseReliable == Spec => []LastUseKnown
  <1>1. TypeOK /\ UseInvariant => LastUseKnown
    <2> SUFFICES ASSUME TypeOK, UseInvariant, NEW k \in Keys, served[k] # Never
                 PROVE  keys[k].used # Never /\ served[k] - keys[k].used <= 2 * Interval
      BY DEF LastUseKnown
    <2>1. Used(k) /\ served[k] <= Floor(k) + 2 * Interval /\ keys[k].used <= clock
      BY DEF UseInvariant
    <2>2. Floor(k) <= keys[k].used
      BY <2>1, Times DEF Floor
    <2>3. QED
      BY <2>1, <2>2, Times, TimeAssumption DEF Used
  <1>2. QED
    BY <1>1, UsesInitially, UsesInductive, ApiKeysTypeCorrect, PTL DEF Spec
=============================================================================
