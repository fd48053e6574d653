--------------------------- MODULE ServiceKeysProof ---------------------------
(***************************************************************************)
(* Proofs about ServiceKeys, for any number of accounts, keys, requests    *)
(* and staff, and any bound on time.                                       *)
(***************************************************************************)
EXTENDS ServiceKeys, TLAPS

\* The records everything starts from have their types.
LEMMA InitialRecords ==
  /\ NoKey \in Key /\ NoAccount \in Account
  /\ Idle \in Request /\ Closed \in Page
  <1>1. AnyKey \in Keys /\ AnyAccount \in Accounts
    BY KeysAssumption DEF AnyKey, AnyAccount
  <1>2. Never \in Expiry
    BY TimeAssumption DEF Never, Expiry
  <1>3. NoKey \in Key
    BY <1>1, <1>2 DEF NoKey, Key, Life
  <1>4. NoAccount \in Account
    BY DEF NoAccount, Account, Life
  <1>5. QED
    BY <1>1, <1>3, <1>4 DEF Idle, Request, Closed, Page

\* Fields read from well-typed records.
LEMMA FieldTypes ==
  ASSUME TypeOK
  PROVE  /\ clock \in Nat /\ \A e \in Expiry : e \in Nat
         /\ \A k \in Keys : keys[k] \in Key /\ keys[k].expires \in Expiry
         /\ \A t \in Threads : request[t] \in Request /\ request[t].key \in Keys
         /\ \A s \in Staff : /\ page[s] \in Page /\ page[s].key \in Key
                             /\ page[s].account \in Account /\ page[s].targets \subseteq Keys
  BY TimeAssumption DEF TypeOK, Time, Key, Request, Page, Expiry, Never
-----------------------------------------------------------------------------
LEMMA TypesInitially == Init => TypeOK
  BY InitialRecords, TimeAssumption DEF Init, TypeOK, Time

\* Keys and accounts made, deleted and expiring.
LEMMA RowsKeepTypes ==
  ASSUME TypeOK, CreateAccount \/ Mint \/ DeleteKey \/ DeleteAccount \/ Tick
  PROVE  TypeOK'
  <1> USE FieldTypes
  <1>1. CASE CreateAccount
    <2>1. PICK a \in Accounts : accounts' = [accounts EXCEPT ![a].life = "there"]
      BY <1>1 DEF CreateAccount
    <2>2. [accounts[a] EXCEPT !.life = "there"] \in Account
      BY DEF TypeOK, Account, Life
    <2>3. QED
      BY <1>1, <2>1, <2>2 DEF CreateAccount, TypeOK
  <1>2. CASE Mint
    <2>1. PICK k \in Keys, a \in Accounts :
             /\ keys' = [keys EXCEPT ![k].life = "there", ![k].account = a]
             /\ dead' = IF accounts[a].is_active THEN dead ELSE dead \cup {k}
      BY <1>2 DEF Mint
    <2>2. [keys[k] EXCEPT !.life = "there", !.account = a] \in Key
      BY DEF Key, Life
    <2>3. keys' \in [Keys -> Key] /\ dead' \subseteq Keys
      BY <2>1, <2>2 DEF TypeOK
    <2>4. QED
      BY <1>2, <2>3 DEF Mint, TypeOK
  <1>3. CASE DeleteKey
    <2>1. PICK k \in Keys : /\ keys' = [keys EXCEPT ![k].life = "deleted"]
                            /\ dead' = dead \cup {k} /\ undone' = undone \ {k}
      BY <1>3 DEF DeleteKey
    <2>2. [keys[k] EXCEPT !.life = "deleted"] \in Key
      BY DEF Key, Life
    <2>3. QED
      BY <1>3, <2>1, <2>2 DEF DeleteKey, TypeOK
  <1>4. CASE DeleteAccount
    <2>1. PICK a \in Accounts, owned \in SUBSET Keys :
             /\ accounts' = [accounts EXCEPT ![a].life = "deleted"]
             /\ keys' = [k \in Keys |-> IF k \in owned THEN [keys[k] EXCEPT !.life = "deleted"]
                                                       ELSE keys[k]]
             /\ dead' = dead \cup owned /\ undone' = undone \ owned
      BY <1>4 DEF DeleteAccount
    <2>2. /\ [accounts[a] EXCEPT !.life = "deleted"] \in Account
          /\ \A k \in Keys : [keys[k] EXCEPT !.life = "deleted"] \in Key
      BY DEF TypeOK, Account, Key, Life
    <2>3. QED
      BY <1>4, <2>1, <2>2 DEF DeleteAccount, TypeOK
  <1>5. CASE Tick
    BY <1>5, TimeAssumption DEF Tick, TypeOK, Time
  <1>6. QED
    BY <1>1, <1>2, <1>3, <1>4, <1>5

\* What a saved page leaves of the history and the requests.
LEMMA SettleKeepsTypes ==
  ASSUME TypeOK, NEW s \in Staff, Settle(s)
  PROVE  dead' \subseteq Keys /\ undone' \subseteq Keys /\ request' \in [Threads -> Request]
  <1>1. dead' \subseteq Keys /\ undone' \subseteq Keys
    BY DEF Settle, TypeOK
  <1>2. PICK active : request' = [t \in Threads |->
                        [request[t] EXCEPT !.late = @ /\ request[t].key \notin active]]
    BY DEF Settle
  <1>3. ASSUME NEW t \in Threads
        PROVE  [request[t] EXCEPT !.late = @ /\ request[t].key \notin active] \in Request
    <2>1. (request[t].late /\ request[t].key \notin active) \in BOOLEAN
      OBVIOUS
    <2>2. QED
      BY <2>1, FieldTypes DEF Request
  <1>4. QED
    BY <1>1, <1>2, <1>3

\* The staff's pages.
LEMMA PagesKeepTypes ==
  ASSUME TypeOK, NEW s \in Staff,
         \/ SelectKeys(s) \/ RevokeKey(s) \/ OpenKey(s) \/ OpenAccount(s) \/ PostPage(s)
         \/ SavePage(s)
  PROVE  TypeOK'
  <1> USE FieldTypes
  <1>1. CASE SelectKeys(s)
    <2>1. PICK ks \in SUBSET Keys :
             page' = [page EXCEPT ![s] = [Closed EXCEPT !.pc = "revoking", !.targets = ks]]
      BY <1>1 DEF SelectKeys
    <2>2. [Closed EXCEPT !.pc = "revoking", !.targets = ks] \in Page
      BY InitialRecords DEF Page
    <2>3. QED
      BY <1>1, <2>1, <2>2 DEF SelectKeys, TypeOK
  <1>2. CASE RevokeKey(s)
    <2>1. PICK k \in page[s].targets :
             \/ /\ There(k)
                /\ keys' = [keys EXCEPT ![k].revoked = TRUE]
                /\ dead' = dead \cup {k} /\ undone' = undone \ {k}
                /\ \/ page' = [page EXCEPT ![s] = Closed]
                   \/ page' = [page EXCEPT ![s].targets = @ \ {k}]
             \/ page' = [page EXCEPT ![s] = Closed] /\ UNCHANGED <<keys, dead, undone>>
      BY <1>2 DEF RevokeKey
    <2>2. k \in Keys
      OBVIOUS
    <2>3. [keys[k] EXCEPT !.revoked = TRUE] \in Key
      BY <2>2 DEF Key
    <2>4. keys' \in [Keys -> Key] /\ dead' \subseteq Keys /\ undone' \subseteq Keys
      BY <2>1, <2>2, <2>3 DEF TypeOK
    <2>5. [page[s] EXCEPT !.targets = page[s].targets \ {k}] \in Page
      BY DEF Page
    <2>6. page' \in [Staff -> Page]
      BY <2>1, <2>5, InitialRecords DEF TypeOK
    <2>7. QED
      BY <1>2, <2>4, <2>6 DEF RevokeKey, TypeOK
  <1>3. CASE OpenKey(s) \/ OpenAccount(s)
    <2>1. PICK id \in Keys \cup Accounts :
             page' = [page EXCEPT ![s] = [Closed EXCEPT !.pc = "open", !.id = id, !.shown = dead]]
      BY <1>3 DEF OpenKey, OpenAccount
    <2>2. [Closed EXCEPT !.pc = "open", !.id = id, !.shown = dead] \in Page
      BY InitialRecords DEF Page, TypeOK
    <2>3. QED
      BY <1>3, <2>1, <2>2 DEF OpenKey, OpenAccount, TypeOK
  <1>4. CASE PostPage(s)
    <2>1. \/ \E key \in Key : page' = [page EXCEPT ![s].pc = "save", ![s].key = key]
          \/ \E account \in Account : page' = [page EXCEPT ![s].pc = "save", ![s].account = account]
          \/ page' = [page EXCEPT ![s] = Closed]
      BY <1>4 DEF PostPage, Key, Account, Life
    <2>2. /\ \A key \in Key : [page[s] EXCEPT !.pc = "save", !.key = key] \in Page
          /\ \A account \in Account : [page[s] EXCEPT !.pc = "save", !.account = account] \in Page
      BY DEF Page
    <2>3. page' \in [Staff -> Page]
      BY <2>1, <2>2, InitialRecords DEF TypeOK
    <2>4. QED
      BY <1>4, <2>3 DEF PostPage, TypeOK
  <1>5. CASE SavePage(s)
    <2>1. keys' \in [Keys -> Key] /\ accounts' \in [Accounts -> Account]
      BY <1>5 DEF SavePage, TypeOK
    <2>2. dead' \subseteq Keys /\ undone' \subseteq Keys /\ request' \in [Threads -> Request]
      BY <1>5, SettleKeepsTypes DEF SavePage, TypeOK
    <2>3. UNCHANGED clock /\ page' = [page EXCEPT ![s] = Closed]
      BY <1>5 DEF SavePage
    <2>4. QED
      BY <2>1, <2>2, <2>3, InitialRecords DEF TypeOK
  <1>6. QED
    BY <1>1, <1>2, <1>3, <1>4, <1>5

\* A machine's request.
LEMMA RequestsKeepTypes ==
  ASSUME TypeOK, NEW t \in Threads,
         Arrive(t) \/ Authenticate(t) \/ Touch(t) \/ SaveLastUsed(t) \/ Serve(t)
  PROVE  TypeOK'
  <1> USE FieldTypes
  <1>1. CASE Arrive(t)
    <2>1. PICK k \in Keys :
             request' = [request EXCEPT ![t] = [Idle EXCEPT !.pc = "lookup", !.key = k,
                                                            !.late = k \in dead \ undone]]
      BY <1>1 DEF Arrive
    <2>2. (k \in dead \ undone) \in BOOLEAN
      OBVIOUS
    <2>3. [Idle EXCEPT !.pc = "lookup", !.key = k, !.late = k \in dead \ undone] \in Request
      BY <2>2, InitialRecords DEF Request
    <2>4. QED
      BY <1>1, <2>1, <2>3 DEF Arrive, TypeOK
  <1>2. CASE Authenticate(t)
    <2>1. \/ request' = [request EXCEPT ![t] = Idle]
          \/ request' = [request EXCEPT ![t].pc = "touch", ![t].row = keys[request[t].key]]
      BY <1>2 DEF Authenticate
    <2>2. [request[t] EXCEPT !.pc = "touch", !.row = keys[request[t].key]] \in Request
      BY DEF Request
    <2>3. request' \in [Threads -> Request]
      BY <2>1, <2>2, InitialRecords DEF TypeOK
    <2>4. QED
      BY <1>2, <2>3 DEF Authenticate, TypeOK
  <1>3. \A pc \in {"serve", "save"} : [request[t] EXCEPT !.pc = pc] \in Request
    BY DEF Request
  <1>4. CASE Touch(t)
    BY <1>3, <1>4 DEF Touch, TypeOK
  <1>5. CASE SaveLastUsed(t)
    <2>1. \/ request' = [request EXCEPT ![t] = Idle]
          \/ request' = [request EXCEPT ![t] = [@ EXCEPT !.pc = "serve"]]
      BY <1>5 DEF SaveLastUsed, TypeOK
    <2>2. request' \in [Threads -> Request]
      BY <1>3, <2>1, InitialRecords DEF TypeOK
    <2>3. QED
      BY <1>5, <2>2 DEF SaveLastUsed, TypeOK
  <1>6. CASE Serve(t)
    BY <1>6, InitialRecords DEF Serve, TypeOK
  <1>7. QED
    BY <1>1, <1>2, <1>4, <1>5, <1>6

LEMMA TypesInductive == TypeOK /\ [Next]_vars => TypeOK'
  <1>1. CASE UNCHANGED vars
    BY <1>1 DEF vars, TypeOK
  <1>2. QED
    BY <1>1, RowsKeepTypes, PagesKeepTypes, RequestsKeepTypes DEF Next

(***************************************************************************)
(* Accounts, keys, requests and the staff's pages keep their types.        *)
(***************************************************************************)
THEOREM ServiceKeysTypeCorrect == Spec => []TypeOK
  BY TypesInitially, TypesInductive, PTL DEF Spec
-----------------------------------------------------------------------------
(***************************************************************************)
(* What makes DeadKeysRefused inductive: a key that was never made is not  *)
(* dead, a page is only saved over a row with one that exists, and a late  *)
(* request has not got past its lookup, nor has its key come back.         *)
(***************************************************************************)
DeadBorn == \A k \in dead : keys[k].life # "unborn"

PagesOfRows == \A s \in Staff :
  page[s].pc = "save" /\ page[s].id \in Keys => page[s].key.life = "there"

LateWaiting == \A t \in Threads :
  request[t].late => request[t].pc = "lookup" /\ request[t].key \in dead \ undone

DeadInactive == \A k \in dead \ undone : ~IsActive(keys[k])

RefusalInvariant == DeadBorn /\ PagesOfRows /\ LateWaiting /\ DeadInactive

\* While the accounts stay as they are, a key that has not changed is no more active than before.
LEMMA NoMoreActive ==
  ASSUME TypeOK, NEW k \in Keys, keys'[k] = keys[k], UNCHANGED accounts,
         UNCHANGED clock \/ clock' = clock + 1, ~IsActive(keys[k])
  PROVE  ~IsActive(keys[k])'
  BY FieldTypes DEF IsActive

\* Late requests keep waiting while no dead key comes back and no request moves.
LEMMA LateStays ==
  ASSUME LateWaiting, UNCHANGED request, dead \ undone \subseteq dead' \ undone'
  PROVE  LateWaiting'
  BY DEF LateWaiting

LEMMA RowsKeepRefusal ==
  ASSUME TypeOK, RefusalInvariant, CreateAccount \/ Mint \/ DeleteKey \/ DeleteAccount \/ Tick
  PROVE  RefusalInvariant'
  <1> USE FieldTypes
  <1>1. UNCHANGED <<request, page>> /\ PagesOfRows'
    BY DEF RefusalInvariant, PagesOfRows, CreateAccount, Mint, DeleteKey, DeleteAccount, Tick
  <1>2. CASE CreateAccount
    <2>1. PICK a \in Accounts : accounts' = [accounts EXCEPT ![a].life = "there"]
      BY <1>2 DEF CreateAccount
    <2>2. UNCHANGED <<clock, keys, dead, undone>>
      BY <1>2 DEF CreateAccount
    <2>3. \A b \in Accounts : accounts'[b].is_active = accounts[b].is_active
      BY <2>1 DEF TypeOK, Account
    <2>4. \A k \in Keys : IsActive(keys[k])' = IsActive(keys[k])
      BY <2>2, <2>3 DEF IsActive, Key
    <2>5. QED
      BY <1>1, <2>2, <2>4, LateStays
         DEF RefusalInvariant, DeadBorn, DeadInactive, TypeOK
  <1>3. CASE Mint
    <2>1. PICK k \in Keys, a \in Accounts :
             /\ keys[k].life = "unborn"
             /\ keys' = [keys EXCEPT ![k].life = "there", ![k].account = a]
             /\ dead' = IF accounts[a].is_active THEN dead ELSE dead \cup {k}
             /\ UNCHANGED <<clock, accounts, undone>>
      BY <1>3 DEF Mint
    <2>2. /\ k \notin dead /\ \A j \in Keys \ {k} : keys'[j] = keys[j]
          /\ keys'[k].life = "there" /\ keys'[k].account = a
      BY <2>1 DEF RefusalInvariant, DeadBorn, TypeOK, Key
    <2>3. DeadBorn'
      BY <2>1, <2>2 DEF RefusalInvariant, DeadBorn, TypeOK
    <2>4. ASSUME NEW j \in dead' \ undone' PROVE ~IsActive(keys[j])'
      <3>1. CASE j = k
        <4>1. ~accounts'[keys'[k].account].is_active
          BY <2>1, <2>2, <2>4, <3>1
        <4>2. QED
          BY <3>1, <4>1 DEF IsActive
      <3>2. CASE j # k
        <4>1. j \in dead \ undone /\ j \in Keys /\ keys'[j] = keys[j]
          BY <2>1, <2>2, <2>4, <3>2 DEF TypeOK
        <4>2. QED
          BY <2>1, <4>1, NoMoreActive DEF RefusalInvariant, DeadInactive
      <3>3. QED
        BY <3>1, <3>2
    <2>5. dead \ undone \subseteq dead' \ undone'
      BY <2>1
    <2>6. QED
      BY <1>1, <2>3, <2>4, <2>5, LateStays DEF RefusalInvariant, DeadInactive
  <1>4. CASE DeleteKey
    <2>1. PICK k \in Keys : /\ keys' = [keys EXCEPT ![k].life = "deleted"]
                            /\ dead' = dead \cup {k} /\ undone' = undone \ {k}
      BY <1>4 DEF DeleteKey
    <2>2. UNCHANGED <<clock, accounts>>
      BY <1>4 DEF DeleteKey
    <2>3. /\ keys'[k].life = "deleted"
          /\ \A j \in Keys \ {k} : keys'[j] = keys[j]
      BY <2>1 DEF TypeOK, Key
    <2>4. DeadBorn' /\ dead \ undone \subseteq dead' \ undone'
      BY <2>1, <2>3 DEF RefusalInvariant, DeadBorn, TypeOK
    <2>5. ASSUME NEW j \in dead' \ undone' PROVE ~IsActive(keys[j])'
      <3>1. CASE j = k
        BY <2>3, <3>1 DEF IsActive
      <3>2. CASE j # k
        BY <2>1, <2>2, <2>3, <3>2, NoMoreActive DEF RefusalInvariant, DeadInactive, TypeOK
      <3>3. QED
        BY <3>1, <3>2
    <2>6. QED
      BY <1>1, <2>4, <2>5, LateStays DEF RefusalInvariant, DeadInactive
  <1>5. CASE DeleteAccount
    <2>1. PICK a \in Accounts, owned \in SUBSET Keys :
             /\ accounts' = [accounts EXCEPT ![a].life = "deleted"]
             /\ keys' = [k \in Keys |-> IF k \in owned THEN [keys[k] EXCEPT !.life = "deleted"]
                                                       ELSE keys[k]]
             /\ dead' = dead \cup owned /\ undone' = undone \ owned
      BY <1>5 DEF DeleteAccount
    <2>2. UNCHANGED clock
      BY <1>5 DEF DeleteAccount
    <2>3. /\ \A k \in owned : keys'[k].life = "deleted"
          /\ \A k \in Keys \ owned : keys'[k] = keys[k]
          /\ \A b \in Accounts : accounts'[b].is_active = accounts[b].is_active
      BY <2>1 DEF TypeOK, Key, Account
    <2>4. DeadBorn' /\ dead \ undone \subseteq dead' \ undone'
      BY <2>1, <2>3 DEF RefusalInvariant, DeadBorn, TypeOK
    <2>5. ASSUME NEW j \in dead' \ undone' PROVE ~IsActive(keys[j])'
      <3>1. CASE j \in owned
        BY <2>3, <3>1 DEF IsActive
      <3>2. CASE j \notin owned
        <4>1. j \in dead \ undone /\ j \in Keys /\ keys'[j] = keys[j] /\ keys[j].account \in Accounts
          BY <2>1, <2>3, <2>5, <3>2 DEF TypeOK, Key
        <4>2. ~IsActive(keys[j])
          BY <4>1 DEF RefusalInvariant, DeadInactive
        <4>3. QED
          BY <2>2, <2>3, <4>1, <4>2 DEF IsActive
      <3>3. QED
        BY <3>1, <3>2
    <2>6. QED
      BY <1>1, <2>4, <2>5, LateStays DEF RefusalInvariant, DeadInactive
  <1>6. CASE Tick
    <2>1. /\ clock' = clock + 1 /\ UNCHANGED <<accounts, keys>>
          /\ dead' = dead \cup {k \in Keys : There(k) /\ keys[k].expires = clock'}
          /\ undone' = undone \ {k \in Keys : There(k) /\ keys[k].expires = clock'}
      BY <1>6 DEF Tick
    <2>2. DeadBorn' /\ dead \ undone \subseteq dead' \ undone'
      BY <2>1 DEF RefusalInvariant, DeadBorn, There
    <2>3. ASSUME NEW j \in dead' \ undone' PROVE ~IsActive(keys[j])'
      <3>1. CASE j \in Keys /\ keys[j].expires = clock'
        BY <2>1, <3>1 DEF IsActive
      <3>2. CASE ~(j \in Keys /\ keys[j].expires = clock')
        BY <2>1, <3>2, NoMoreActive DEF RefusalInvariant, DeadInactive, TypeOK
      <3>3. QED
        BY <3>1, <3>2
    <2>4. QED
      BY <1>1, <2>2, <2>3, LateStays DEF RefusalInvariant, DeadInactive
  <1>7. QED
    BY <1>2, <1>3, <1>4, <1>5, <1>6

(***************************************************************************)
(* A saved page: whatever it did to the rows, the keys it left inactive    *)
(* are dead, and those it brought back are no longer owed a refusal.       *)
(***************************************************************************)
LEMMA SettleKeepsRefusal ==
  ASSUME TypeOK, RefusalInvariant, NEW s \in Staff, Settle(s), TypeOK',
         \A k \in Keys : keys'[k].life = "unborn" => keys[k].life = "unborn",
         UNCHANGED clock
  PROVE  DeadBorn' /\ LateWaiting' /\ DeadInactive'
  <1> DEFINE active == {k \in Keys : IsActive(keys[k])'}
             killed == {k \in Keys : keys'[k].life # "unborn"} \ active
  <1>1. /\ dead' = (dead \ (active \cap page[s].shown)) \cup killed
        /\ undone' = (undone \cup ((active \cap dead) \ page[s].shown)) \ killed
        /\ request' = [t \in Threads |->
              [request[t] EXCEPT !.late = @ /\ request[t].key \notin active]]
    BY DEF Settle
  <1>2. DeadBorn'
    BY <1>1 DEF RefusalInvariant, DeadBorn, TypeOK
  <1>3. \A k \in Keys : k \in active <=> IsActive(keys[k])'
    OBVIOUS
  <1> HIDE DEF active
  <1>4. DeadInactive'
    BY <1>1, <1>3 DEF DeadInactive, TypeOK
  <1>5. ASSUME NEW t \in Threads, request'[t].late
        PROVE  request'[t].pc = "lookup" /\ request'[t].key \in dead' \ undone'
    <2>1. request[t].late /\ request[t].key \notin active /\ request'[t].pc = request[t].pc
          /\ request'[t].key = request[t].key
      BY <1>1, <1>5, FieldTypes DEF Request
    <2>2. request[t].pc = "lookup" /\ request[t].key \in dead \ undone
      BY <2>1 DEF RefusalInvariant, LateWaiting
    <2>3. QED
      BY <1>1, <2>1, <2>2
  <1>6. QED
    BY <1>2, <1>4, <1>5 DEF LateWaiting

LEMMA PagesKeepRefusal ==
  ASSUME TypeOK, TypeOK', RefusalInvariant, NEW s \in Staff,
         \/ SelectKeys(s) \/ RevokeKey(s) \/ OpenKey(s) \/ OpenAccount(s) \/ PostPage(s)
         \/ SavePage(s)
  PROVE  RefusalInvariant'
  <1> USE FieldTypes
  <1>1. ASSUME UNCHANGED <<clock, accounts, keys, request, dead, undone>>, PagesOfRows'
        PROVE  RefusalInvariant'
    BY <1>1 DEF RefusalInvariant, DeadBorn, LateWaiting, DeadInactive, IsActive
  <1>2. ASSUME NEW p \in Page, p.pc # "save" \/ (p.id \in Keys => p.key.life = "there"),
               page' = [page EXCEPT ![s] = p]
        PROVE  PagesOfRows'
    BY <1>2 DEF RefusalInvariant, PagesOfRows, TypeOK
  <1>3. CASE SelectKeys(s)
    <2>1. PICK ks \in SUBSET Keys :
             page' = [page EXCEPT ![s] = [Closed EXCEPT !.pc = "revoking", !.targets = ks]]
      BY <1>3 DEF SelectKeys
    <2>2. /\ [Closed EXCEPT !.pc = "revoking", !.targets = ks] \in Page
          /\ [Closed EXCEPT !.pc = "revoking", !.targets = ks].pc # "save"
      BY InitialRecords DEF Page
    <2>3. QED
      BY <1>1, <1>2, <1>3, <2>1, <2>2 DEF SelectKeys
  <1>4. CASE RevokeKey(s)
    <2>1. PICK k \in page[s].targets :
             \/ /\ There(k)
                /\ keys' = [keys EXCEPT ![k].revoked = TRUE]
                /\ dead' = dead \cup {k} /\ undone' = undone \ {k}
             \/ UNCHANGED <<keys, dead, undone>>
      BY <1>4 DEF RevokeKey
    <2>2. page[s].pc = "revoking" /\ UNCHANGED <<clock, accounts, request>>
          /\ \A r \in Staff : page'[r].pc = "save" => page'[r] = page[r]
      BY <1>4 DEF RevokeKey, TypeOK, Page, Closed
    <2>3. PagesOfRows'
      BY <2>2 DEF RefusalInvariant, PagesOfRows
    <2>4. CASE UNCHANGED <<keys, dead, undone>>
      BY <2>2, <2>3, <2>4 DEF RefusalInvariant, DeadBorn, LateWaiting, DeadInactive, IsActive
    <2>5. CASE /\ There(k)
               /\ keys' = [keys EXCEPT ![k].revoked = TRUE]
               /\ dead' = dead \cup {k} /\ undone' = undone \ {k}
      <3>1. /\ k \in Keys /\ keys'[k].revoked /\ keys'[k].life = "there"
            /\ \A j \in Keys \ {k} : keys'[j] = keys[j]
        BY <2>5 DEF TypeOK, Key, There
      <3>2. DeadBorn' /\ dead \ undone \subseteq dead' \ undone'
        BY <2>5, <3>1 DEF RefusalInvariant, DeadBorn, TypeOK
      <3>3. ASSUME NEW j \in dead' \ undone' PROVE ~IsActive(keys[j])'
        <4>1. CASE j = k
          BY <3>1, <4>1 DEF IsActive
        <4>2. CASE j # k
          BY <2>2, <2>5, <3>1, <4>2, NoMoreActive DEF RefusalInvariant, DeadInactive, TypeOK
        <4>3. QED
          BY <4>1, <4>2
      <3>4. QED
        BY <2>2, <2>3, <3>2, <3>3, LateStays DEF RefusalInvariant, DeadInactive
    <2>6. QED
      BY <2>1, <2>4, <2>5
  <1>5. CASE OpenKey(s) \/ OpenAccount(s)
    <2>1. PICK id \in Keys \cup Accounts :
             page' = [page EXCEPT ![s] = [Closed EXCEPT !.pc = "open", !.id = id, !.shown = dead]]
      BY <1>5 DEF OpenKey, OpenAccount
    <2>2. /\ [Closed EXCEPT !.pc = "open", !.id = id, !.shown = dead] \in Page
          /\ [Closed EXCEPT !.pc = "open", !.id = id, !.shown = dead].pc # "save"
      BY InitialRecords DEF Page, TypeOK
    <2>3. QED
      BY <1>1, <1>2, <1>5, <2>1, <2>2 DEF OpenKey, OpenAccount
  <1>6. CASE PostPage(s)
    <2>1. \/ /\ page[s].id \in Keys
             /\ \E key \in Key : /\ key.life = "there"
                                 /\ page' = [page EXCEPT ![s].pc = "save", ![s].key = key]
          \/ /\ page[s].id \in Accounts
             /\ \E account \in Account :
                  page' = [page EXCEPT ![s].pc = "save", ![s].account = account]
          \/ page' = [page EXCEPT ![s] = Closed]
      BY <1>6 DEF PostPage, Key, Account, Life
    <2>2. \A r \in Staff \ {s} : page'[r] = page[r]
      BY <2>1 DEF TypeOK
    <2>3. page'[s].pc = "save" /\ page'[s].id \in Keys => page'[s].key.life = "there"
      BY <2>1, KeysAssumption DEF TypeOK, Page, Closed
    <2>4. PagesOfRows'
      BY <2>2, <2>3 DEF RefusalInvariant, PagesOfRows
    <2>5. QED
      BY <1>1, <1>6, <2>4 DEF PostPage
  <1>7. CASE SavePage(s)
    <2>1. UNCHANGED clock /\ page' = [page EXCEPT ![s] = Closed] /\ page[s].pc = "save"
      BY <1>7 DEF SavePage
    <2>2. PagesOfRows'
      BY <1>2, <2>1, InitialRecords DEF Closed
    <2>3. CASE Settle(s)
      <3>1. \A k \in Keys : keys'[k].life = "unborn" => keys[k].life = "unborn"
        BY <1>7, <2>1 DEF SavePage, RefusalInvariant, PagesOfRows, TypeOK
      <3>2. QED
        BY <2>1, <2>2, <2>3, <3>1, SettleKeepsRefusal DEF RefusalInvariant
    <2>4. CASE UNCHANGED <<accounts, keys, request, dead, undone>>
      BY <1>1, <2>1, <2>2, <2>4
    <2>5. QED
      BY <1>7, <2>3, <2>4 DEF SavePage
  <1>8. QED
    BY <1>3, <1>4, <1>5, <1>6, <1>7

LEMMA RequestsKeepRefusal ==
  ASSUME TypeOK, RefusalInvariant, NEW t \in Threads,
         Arrive(t) \/ Authenticate(t) \/ Touch(t) \/ SaveLastUsed(t) \/ Serve(t)
  PROVE  RefusalInvariant'
  <1> USE FieldTypes
  <1>1. UNCHANGED <<clock, accounts, keys, page, dead, undone>>
    BY DEF Arrive, Authenticate, Touch, SaveLastUsed, Serve
  <1>2. DeadBorn' /\ PagesOfRows' /\ DeadInactive'
    BY <1>1 DEF RefusalInvariant, DeadBorn, PagesOfRows, DeadInactive, IsActive
  <1>3. \A u \in Threads \ {t} : request'[u] = request[u]
    BY DEF Arrive, Authenticate, Touch, SaveLastUsed, Serve, TypeOK
  <1>4. ASSUME request'[t].late
        PROVE  request'[t].pc = "lookup" /\ request'[t].key \in dead \ undone
    <2>1. CASE Arrive(t)
      <3>1. PICK k \in Keys :
               request' = [request EXCEPT ![t] = [Idle EXCEPT !.pc = "lookup", !.key = k,
                                                              !.late = k \in dead \ undone]]
        BY <2>1 DEF Arrive
      <3>2. QED
        BY <1>4, <3>1 DEF TypeOK, Idle
    <2>2. CASE Authenticate(t)
      <3>1. CASE request' = [request EXCEPT ![t] = Idle]
        BY <1>4, <3>1 DEF TypeOK, Idle
      <3>2. CASE /\ IsActive(keys[request[t].key])
                 /\ request' = [request EXCEPT ![t].pc = "touch", ![t].row = keys[request[t].key]]
        <4>1. request[t].late
          BY <1>4, <3>2 DEF TypeOK, Request
        <4>2. request[t].key \in dead \ undone
          BY <4>1 DEF RefusalInvariant, LateWaiting
        <4>3. QED
          BY <3>2, <4>2 DEF RefusalInvariant, DeadInactive
      <3>3. QED
        BY <2>2, <3>1, <3>2 DEF Authenticate
    <2>3. CASE Touch(t)
      BY <1>4, <2>3 DEF Touch, TypeOK, Request, RefusalInvariant, LateWaiting
    <2>4. CASE SaveLastUsed(t)
      <3>1. \/ request' = [request EXCEPT ![t] = Idle]
            \/ request' = [request EXCEPT ![t] = [request[t] EXCEPT !.pc = "serve"]]
        BY <2>4 DEF SaveLastUsed, TypeOK
      <3>2. request[t].pc = "save" => ~request[t].late
        BY DEF RefusalInvariant, LateWaiting
      <3>3. QED
        BY <1>4, <2>4, <3>1, <3>2 DEF SaveLastUsed, TypeOK, Request, Idle
    <2>5. CASE Serve(t)
      BY <1>4, <2>5 DEF Serve, TypeOK, Idle
    <2>6. QED
      BY <2>1, <2>2, <2>3, <2>4, <2>5
  <1>5. LateWaiting'
    BY <1>1, <1>3, <1>4 DEF RefusalInvariant, LateWaiting
  <1>6. QED
    BY <1>2, <1>5 DEF RefusalInvariant

LEMMA RefusalInitially == Init => RefusalInvariant
  BY DEF Init, RefusalInvariant, DeadBorn, PagesOfRows, LateWaiting, DeadInactive, Idle, Closed

LEMMA RefusalInductive == TypeOK /\ RefusalInvariant /\ [Next]_vars => RefusalInvariant'
  <1> SUFFICES ASSUME TypeOK, RefusalInvariant, [Next]_vars
               PROVE  RefusalInvariant'
    OBVIOUS
  <1>1. CASE UNCHANGED vars
    BY <1>1 DEF vars, RefusalInvariant, DeadBorn, PagesOfRows, LateWaiting, DeadInactive, IsActive
  <1>2. CASE Next
    BY <1>2, TypesInductive, RowsKeepRefusal, PagesKeepRefusal, RequestsKeepRefusal DEF Next
  <1>3. QED
    BY <1>1, <1>2

(***************************************************************************)
(* A service key that is revoked, expired, disabled or deleted stays       *)
(* refused, whatever requests and pages are under way, until one of the    *)
(* staff brings it back with a change page: nothing else in iam/ writes a  *)
(* column that is_active reads.                                            *)
(***************************************************************************)
THEOREM DeadServiceKeysRefused == Spec => []DeadKeysRefused
  <1>1. RefusalInvariant => DeadKeysRefused
    BY DEF RefusalInvariant, DeadInactive, LateWaiting, DeadKeysRefused
  <1>2. QED
    BY <1>1, TypesInitially, TypesInductive, RefusalInitially, RefusalInductive, PTL DEF Spec
=============================================================================
