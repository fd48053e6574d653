----------------------------- MODULE ServiceKeys -----------------------------
(***************************************************************************)
(* Service accounts and their API keys, iam/: created, edited, revoked and *)
(* deleted by the staff in Django's admin, and checked on every request of *)
(* a machine.                                                              *)
(*                                                                         *)
(* A change form of the admin is a page that was filled in from a row at   *)
(* some time and is posted at a later one: the post loads the row again,   *)
(* sets every editable field to what the page says and saves all columns.  *)
(*                                                                         *)
(* Time passes in ticks; a key expires at one of them, or never.           *)
(***************************************************************************)
EXTENDS Naturals, FiniteSets

CONSTANTS Accounts, Keys,
          Threads,      \* requests of machines
          Staff,        \* superusers at their browsers
          MaxTime       \* bound: the last tick

ASSUME KeysAssumption == Keys # {} /\ Accounts # {} /\ Keys \cap Accounts = {}
ASSUME TimeAssumption == MaxTime \in Nat

VARIABLES clock,
          accounts,  \* ServiceAccount
          keys,      \* APIKey
          request,   \* what each thread is doing, with the key it has read
          page,      \* what each of the staff has on the screen or is having done
          dead,      \* history: keys known to be revoked, expired, disabled or deleted
          undone     \* history: dead keys that a page from before brought back

vars == <<clock, accounts, keys, request, page, dead, undone>>

Time == 0..MaxTime
Never == MaxTime + 1
Expiry == 1..Never
AnyAccount == CHOOSE a \in Accounts : TRUE
AnyKey == CHOOSE k \in Keys : TRUE

\* "unborn": never created.  A primary key is not used twice.
Life == {"unborn", "there", "deleted"}
Account == [life: Life, is_active: BOOLEAN]
Key == [life: Life, account: Accounts, revoked: BOOLEAN, expires: Expiry]

NoAccount == [life |-> "unborn", is_active |-> TRUE]
NoKey == [life |-> "unborn", account |-> AnyAccount, revoked |-> FALSE, expires |-> Never]

Idle == [pc |-> "idle", key |-> AnyKey, row |-> NoKey, late |-> FALSE]
Request == [pc: {"idle", "lookup", "touch", "save", "serve"}, key: Keys, row: Key, late: BOOLEAN]

\* "key", "account": the row to be saved.  "targets": what is left of the rows of
\* a bulk revocation, as read from its list.  "shown": the keys known to be dead when
\* the page was opened.
Closed == [pc |-> "closed", id |-> AnyKey, key |-> NoKey, account |-> NoAccount,
           targets |-> {}, shown |-> {}]
Page == [pc: {"closed", "open", "save", "revoking"}, id: Keys \cup Accounts,
         key: Key, account: Account, targets: SUBSET Keys, shown: SUBSET Keys]

There(k) == keys[k].life = "there"

\* is_active, with the row and its account as one query read them.
IsActive(row) ==
  /\ row.life = "there" /\ ~row.revoked /\ clock < row.expires
  /\ accounts[row.account].is_active

Init ==
  /\ clock = 0
  /\ accounts = [a \in Accounts |-> NoAccount]
  /\ keys = [k \in Keys |-> NoKey]
  /\ request = [t \in Threads |-> Idle]
  /\ page = [s \in Staff |-> Closed]
  /\ dead = {}
  /\ undone = {}
-----------------------------------------------------------------------------
\* The add form of an account, and mint_api_key for an account, active or not.
CreateAccount ==
  \E a \in Accounts :
    /\ accounts[a].life = "unborn"
    /\ accounts' = [accounts EXCEPT ![a].life = "there"]
    /\ UNCHANGED <<clock, keys, request, page, dead, undone>>

Mint ==
  \E k \in Keys, a \in Accounts :
    /\ keys[k].life = "unborn" /\ accounts[a].life = "there"
    /\ keys' = [keys EXCEPT ![k].life = "there", ![k].account = a]
    /\ dead' = IF accounts[a].is_active THEN dead ELSE dead \cup {k}
    /\ UNCHANGED <<clock, accounts, request, page, undone>>

\* Mutant: a key is revoked by letting it expire now.
ExpireKey(s) ==
  \E k \in page[s].targets :
    /\ page[s].pc = "revoking" /\ There(k)
    /\ keys' = [keys EXCEPT ![k].expires = clock]
    /\ page' = [page EXCEPT ![s] = Closed]
    /\ UNCHANGED <<clock, accounts, request, dead, undone>>

(***************************************************************************)
(* revoke_keys: the selected keys are read, then each one that was not     *)
(* revoked is: revoke saves that column only, and fails if the row has     *)
(* gone.  There is no transaction.                                         *)
(***************************************************************************)
SelectKeys(s) ==
  \E ks \in SUBSET {k \in Keys : There(k) /\ ~keys[k].revoked} :
    /\ page[s].pc = "closed" /\ ks # {}
    /\ page' = [page EXCEPT ![s] = [Closed EXCEPT !.pc = "revoking", !.targets = ks]]
    /\ UNCHANGED <<clock, accounts, keys, request, dead, undone>>

RevokeKey(s) ==
  \E k \in page[s].targets :
    /\ page[s].pc = "revoking"
    /\ IF There(k)
         THEN /\ keys' = [keys EXCEPT ![k].revoked = TRUE]
              /\ dead' = dead \cup {k}
              /\ undone' = undone \ {k}
              /\ IF page[s].targets = {k}
                   THEN page' = [page EXCEPT ![s] = Closed]
                   ELSE page' = [page EXCEPT ![s].targets = @ \ {k}]
         ELSE /\ page' = [page EXCEPT ![s] = Closed]
              /\ UNCHANGED <<keys, dead, undone>>
    /\ UNCHANGED <<clock, accounts, request>>

\* Deleting a key, and an account with its keys.
DeleteKey ==
  \E k \in Keys :
    /\ There(k)
    /\ keys' = [keys EXCEPT ![k].life = "deleted"]
    /\ dead' = dead \cup {k}
    /\ undone' = undone \ {k}
    /\ UNCHANGED <<clock, accounts, request, page>>

DeleteAccount ==
  \E a \in Accounts :
    LET owned == {k \in Keys : There(k) /\ keys[k].account = a}
    IN /\ accounts[a].life = "there"
       /\ accounts' = [accounts EXCEPT ![a].life = "deleted"]
       /\ keys' = [k \in Keys |-> IF k \in owned THEN [keys[k] EXCEPT !.life = "deleted"]
                                                 ELSE keys[k]]
       /\ dead' = dead \cup owned
       /\ undone' = undone \ owned
       /\ UNCHANGED <<clock, request, page>>
-----------------------------------------------------------------------------
\* A change page is opened; its fields may then be edited.
OpenKey(s) ==
  \E k \in Keys :
    /\ page[s].pc = "closed" /\ There(k)
    /\ page' = [page EXCEPT ![s] = [Closed EXCEPT !.pc = "open", !.id = k, !.shown = dead]]
    /\ UNCHANGED <<clock, accounts, keys, request, dead, undone>>

OpenAccount(s) ==
  \E a \in Accounts :
    /\ page[s].pc = "closed" /\ accounts[a].life = "there"
    /\ page' = [page EXCEPT ![s] = [Closed EXCEPT !.pc = "open", !.id = a, !.shown = dead]]
    /\ UNCHANGED <<clock, accounts, keys, request, dead, undone>>

(***************************************************************************)
(* The page is posted, with its editable fields as shown or as edited: a   *)
(* key's account, expiry and revocation, an account's is_active.  The row  *)
(* is loaded; one that has gone makes the post a no-op.                    *)
(***************************************************************************)
PostPage(s) ==
  LET id == page[s].id
  IN /\ page[s].pc = "open"
     /\ \/ /\ id \in Keys /\ There(id)
           /\ \E a \in Accounts, e \in Expiry, revoked \in BOOLEAN :
                /\ accounts[a].life = "there"        \* the choices of the field
                /\ page' = [page EXCEPT ![s].pc = "save", ![s].key =
                              [life |-> "there", account |-> a, revoked |-> revoked, expires |-> e]]
        \/ /\ id \in Accounts /\ accounts[id].life = "there"
           /\ \E is_active \in BOOLEAN :
                page' = [page EXCEPT ![s].pc = "save",
                                     ![s].account = [life |-> "there", is_active |-> is_active]]
        \/ page' = [page EXCEPT ![s] = Closed]
     /\ UNCHANGED <<clock, accounts, keys, request, dead, undone>>

\* What a saved page does to the keys known to be dead: it kills some and brings
\* some back, knowingly if the page showed them dead.  No request for those is late.
Settle(s) ==
  LET active == {k \in Keys : IsActive(keys[k])'}
      killed == {k \in Keys : keys'[k].life # "unborn"} \ active
  IN /\ dead' = (dead \ (active \cap page[s].shown)) \cup killed
     /\ undone' = (undone \cup ((active \cap dead) \ page[s].shown)) \ killed
     /\ request' = [t \in Threads |-> [request[t] EXCEPT !.late = @ /\ request[t].key \notin active]]

(***************************************************************************)
(* save_model: an UPDATE of every column, or, when the row has gone since  *)
(* it was loaded, an INSERT, which needs the key's account.                *)
(***************************************************************************)
SavePage(s) ==
  LET id == page[s].id
  IN /\ page[s].pc = "save"
     /\ UNCHANGED clock
     /\ \/ /\ id \in Keys /\ accounts[page[s].key.account].life = "there"
           /\ keys' = [keys EXCEPT ![id] = page[s].key]
           /\ UNCHANGED accounts
           /\ Settle(s)
        \/ /\ id \in Keys /\ accounts[page[s].key.account].life # "there"
           /\ UNCHANGED <<accounts, keys, request, dead, undone>>
        \/ /\ id \in Accounts
           /\ accounts' = [accounts EXCEPT ![id] = page[s].account]
           /\ UNCHANGED keys
           /\ Settle(s)
     /\ page' = [page EXCEPT ![s] = Closed]
-----------------------------------------------------------------------------
(***************************************************************************)
(* APIKeyAuthentication: the key and its account are read by one query,    *)
(* and checked.  "late" is history: the key was known to be dead when the  *)
(* request arrived.                                                        *)
(***************************************************************************)
Arrive(t) ==
  \E k \in Keys :
    /\ request[t] = Idle
    /\ request' = [request EXCEPT ![t] = [Idle EXCEPT !.pc = "lookup", !.key = k,
                                                      !.late = k \in dead \ undone]]
    /\ UNCHANGED <<clock, accounts, keys, page, dead, undone>>

Authenticate(t) ==
  LET row == keys[request[t].key]
  IN /\ request[t].pc = "lookup"
     /\ \/ /\ IsActive(row)
           /\ request' = [request EXCEPT ![t].pc = "touch", ![t].row = row]
        \/ /\ ~IsActive(row)
           /\ request' = [request EXCEPT ![t] = Idle]
     /\ UNCHANGED <<clock, accounts, keys, page, dead, undone>>

(***************************************************************************)
(* _update_last_used_at: the cache or the row may know of a recent use; if *)
(* not, that column is saved, which fails the request if the row has gone. *)
(***************************************************************************)
Touch(t) ==
  /\ request[t].pc = "touch"
  /\ \E pc \in {"serve", "save"} : request' = [request EXCEPT ![t].pc = pc]
  /\ UNCHANGED <<clock, accounts, keys, page, dead, undone>>

\* Mutant: the whole row is saved.
SaveRow(t) ==
  LET k == request[t].key
  IN /\ request[t].pc = "save"
     /\ keys' = [keys EXCEPT ![k] = request[t].row]
     /\ request' = [request EXCEPT ![t].pc = "serve"]
     /\ UNCHANGED <<clock, accounts, page, dead, undone>>

SaveLastUsed(t) ==
  /\ request[t].pc = "save"
  /\ request' = [request EXCEPT ![t] = IF There(@.key) THEN [@ EXCEPT !.pc = "serve"] ELSE Idle]
  /\ UNCHANGED <<clock, accounts, keys, page, dead, undone>>

Serve(t) ==
  /\ request[t].pc = "serve"
  /\ request' = [request EXCEPT ![t] = Idle]
  /\ UNCHANGED <<clock, accounts, keys, page, dead, undone>>

\* Keys expire.
Tick ==
  LET expired == {k \in Keys : There(k) /\ keys[k].expires = clock'}
  IN /\ clock < MaxTime
     /\ clock' = clock + 1
     /\ dead' = dead \cup expired
     /\ undone' = undone \ expired
     /\ UNCHANGED <<accounts, keys, request, page>>

Next ==
  \/ CreateAccount \/ Mint \/ DeleteKey \/ DeleteAccount \/ Tick
  \/ \E s \in Staff : \/ SelectKeys(s) \/ RevokeKey(s)
                      \/ OpenKey(s) \/ OpenAccount(s) \/ PostPage(s) \/ SavePage(s)
  \/ \E t \in Threads : Arrive(t) \/ Authenticate(t) \/ Touch(t) \/ SaveLastUsed(t) \/ Serve(t)

Spec == Init /\ [][Next]_vars
-----------------------------------------------------------------------------
\* The types of all the variables.
TypeOK ==
  /\ clock \in Time
  /\ accounts \in [Accounts -> Account]
  /\ keys \in [Keys -> Key]
  /\ request \in [Threads -> Request]
  /\ page \in [Staff -> Page]
  /\ dead \subseteq Keys
  /\ undone \subseteq Keys

(***************************************************************************)
(* A key that is revoked, expired or deleted, or whose account is disabled *)
(* or deleted, serves no request that arrives later, unless one of the     *)
(* staff brings it back: knowingly, or by posting a page that was opened   *)
(* while it was alive.  No request's own write does.                       *)
(***************************************************************************)
DeadKeysRefused ==
  /\ \A k \in dead \ undone : ~IsActive(keys[k])
  /\ \A t \in Threads : request[t].pc = "serve" => ~request[t].late
=============================================================================
