------------------------------- MODULE ApiKeys -------------------------------
(***************************************************************************)
(* A project's API keys: minted and revoked in the browser, revoked all at *)
(* once by the kill switch, and checked on every request of a machine,     *)
(* which also records when the key was last used, but not more often than  *)
(* the cache of the serving process lets it.                               *)
(*                                                                         *)
(* Time passes in ticks, a few of which make up the interval between two   *)
(* records of a key's use.  A request ends by the next tick.               *)
(***************************************************************************)
EXTENDS Integers, FiniteSets

CONSTANTS Keys,
          OrgKeys,      \* those of the organization the kill switch is used on
          Processes,
          Threads,
          ProcessOf,    \* the gunicorn worker a thread belongs to
          Ops,          \* the requests that may be made
          Interval,     \* LAST_USED_AT_THROTTLE_SECONDS, in ticks
          MaxTime       \* bound: the last tick

ASSUME KeysAssumption == Keys # {} /\ OrgKeys \subseteq Keys
ASSUME ProcessAssumption == ProcessOf \in [Threads -> Processes]
ASSUME TimeAssumption == Interval \in Nat /\ Interval > 1 /\ MaxTime \in Nat

VARIABLES clock,
          keys,      \* ProjectAPIKey
          cached,    \* per process: until when a key's use need not be recorded again
          thread,    \* what each thread is doing, with the key it has read
          dead,      \* history: keys whose revocation has been answered
          served     \* history: when a request with the key was last served

vars == <<clock, keys, cached, thread, dead, served>>

Never == -1
Time == 0..MaxTime

ApiKey == [minted: BOOLEAN, created: Time, revoked: BOOLEAN, used: Time \cup {Never}]
Unminted == [minted |-> FALSE, created |-> 0, revoked |-> FALSE, used |-> Never]

(***************************************************************************)
(* A request: the key it presents, revokes or has looked up, its copy of   *)
(* the row, the time it arrived, the time it means to record, whether the  *)
(* key was dead when it arrived; for a kill switch, the keys it has to     *)
(* revoke and those its UPDATE has selected.                               *)
(***************************************************************************)
OpNames == {"idle", "use", "revoke", "kill"}
Pcs == {"idle", "lookup", "check_cache", "save", "cache", "serve", "find", "save_revoked",
        "select", "update"}

Idle == [op |-> "idle", pc |-> "idle", key |-> CHOOSE k \in Keys : TRUE, row |-> Unminted,
         arrived |-> 0, now |-> 0, late |-> FALSE, before |-> 0, owed |-> {}, targets |-> {}]

ThreadState ==
  [op: OpNames, pc: Pcs, key: Keys, row: ApiKey, arrived: Time, now: Time, late: BOOLEAN,
   before: 0..(MaxTime + 1), owed: SUBSET Keys, targets: SUBSET Keys]

IsIdle(t, op) == op \in Ops /\ thread[t] = Idle
Goto(t, pc) == thread' = [thread EXCEPT ![t].pc = pc]
Finish(t) == thread' = [thread EXCEPT ![t] = Idle]
Begin(t, op, pc, k) ==
  thread' = [thread EXCEPT ![t] = [Idle EXCEPT !.op = op, !.pc = pc, !.key = k,
                                               !.arrived = clock, !.late = k \in dead]]

Init ==
  /\ clock = 0
  /\ keys = [k \in Keys |-> Unminted]
  /\ cached = [p \in Processes |-> [k \in Keys |-> 0]]
  /\ thread = [t \in Threads |-> Idle]
  /\ dead = {}
  /\ served = [k \in Keys |-> Never]
-----------------------------------------------------------------------------
\* Mutant: the time of creation is left empty.
MintUndated ==
  \E k \in Keys :
    /\ ~keys[k].minted
    /\ keys' = [keys EXCEPT ![k].minted = TRUE, ![k].created = Never]
    /\ UNCHANGED <<clock, cached, thread, dead, served>>

\* api_key_create: one INSERT.
Mint ==
  \E k \in Keys :
    /\ ~keys[k].minted
    /\ keys' = [keys EXCEPT ![k].minted = TRUE, ![k].created = clock]
    /\ UNCHANGED <<clock, cached, thread, dead, served>>

\* api_key_revoke: the key is looked up, and saved unless it is revoked already.
FindKey(t) ==
  \E k \in Keys :
    /\ IsIdle(t, "revoke") /\ keys[k].minted
    /\ Begin(t, "revoke", "find", k)
    /\ UNCHANGED <<clock, keys, cached, dead, served>>

Revoke(t) ==
  LET k == thread[t].key
  IN /\ thread[t].pc = "find"
     /\ \/ /\ ~keys[k].revoked
           /\ Goto(t, "save_revoked")
           /\ UNCHANGED dead
        \/ /\ keys[k].revoked
           /\ Finish(t)
           /\ dead' = dead \cup {k}
     /\ UNCHANGED <<clock, keys, cached, served>>

SaveRevoked(t) ==
  LET k == thread[t].key
  IN /\ thread[t].pc = "save_revoked"
     /\ keys' = [keys EXCEPT ![k].revoked = TRUE]
     /\ dead' = dead \cup {k}
     /\ Finish(t)
     /\ UNCHANGED <<clock, cached, served>>
-----------------------------------------------------------------------------
(***************************************************************************)
(* The kill switch, of the management command and of the incident          *)
(* endpoint: one UPDATE of the organization's active keys, or of those     *)
(* created before a cutoff (here the present tick), and one audit row.     *)
(* The selection runs inside the UPDATE; a key is minted or revoked        *)
(* beside it.                                                              *)
(***************************************************************************)
CreatedBefore(k, before) == keys[k].minted /\ keys[k].created < before

\* The keys that are there when the operator calls must all be dead on return.
CallKillSwitch(t) ==
  \E before \in {clock, MaxTime + 1} :
    /\ IsIdle(t, "kill")
    /\ thread' = [thread EXCEPT ![t] =
                    [Idle EXCEPT !.op = "kill", !.pc = "select", !.arrived = clock,
                                 !.before = before,
                                 !.owed = {k \in OrgKeys : CreatedBefore(k, before)}]]
    /\ UNCHANGED <<clock, keys, cached, dead, served>>

SelectActive(t) ==
  /\ thread[t].pc = "select"
  /\ thread' = [thread EXCEPT ![t].pc = "update",
                  ![t].targets = {k \in OrgKeys : /\ CreatedBefore(k, thread[t].before)
                                                  /\ ~keys[k].revoked}]
  /\ UNCHANGED <<clock, keys, cached, dead, served>>

RevokeAll(t) ==
  LET r == thread[t]
  IN /\ r.pc = "update"
     /\ keys' = [k \in Keys |-> IF k \in r.targets THEN [keys[k] EXCEPT !.revoked = TRUE]
                                                   ELSE keys[k]]
     /\ dead' = dead \cup r.owed
     /\ Finish(t)
     /\ UNCHANGED <<clock, cached, served>>
-----------------------------------------------------------------------------
(***************************************************************************)
(* ProjectAPIKeyAuthentication: the key is looked up by its prefix, its    *)
(* use is recorded, and the request goes on to its view.                   *)
(***************************************************************************)
UseKey(t) ==
  \E k \in Keys :
    /\ IsIdle(t, "use")
    /\ Begin(t, "use", "lookup", k)
    /\ UNCHANGED <<clock, keys, cached, dead, served>>

IsActive(row) == row.minted /\ ~row.revoked

\* Mutant: a key whose use is in the cache is not looked up.
AuthenticateCached(t) ==
  LET k == thread[t].key
  IN /\ thread[t].pc = "lookup"
     /\ \/ /\ ~IsActive(keys[k]) /\ cached[ProcessOf[t]][k] <= clock
           /\ Finish(t)
        \/ /\ IsActive(keys[k]) \/ cached[ProcessOf[t]][k] > clock
           /\ thread' = [thread EXCEPT ![t].row = keys[k], ![t].pc = "check_cache"]
     /\ UNCHANGED <<clock, keys, cached, dead, served>>

Authenticate(t) ==
  LET row == keys[thread[t].key]
  IN /\ thread[t].pc = "lookup"
     /\ \/ /\ ~IsActive(row)
           /\ Finish(t)
        \/ /\ IsActive(row)
           /\ thread' = [thread EXCEPT ![t].row = row, ![t].pc = "check_cache"]
     /\ UNCHANGED <<clock, keys, cached, dead, served>>

\* cache.set(cache_key, ..., LAST_USED_AT_THROTTLE_SECONDS), whatever time it holds.
SetCache(t) == cached' = [cached EXCEPT ![ProcessOf[t]][thread[t].key] = clock + Interval]

\* Mutant: a use that is remembered is remembered anew.
CheckAndRenew(t) ==
  LET r == thread[t]
      remembered == cached[ProcessOf[t]][r.key] > clock
      recent == r.row.used # Never /\ clock - r.row.used < Interval
  IN /\ r.pc = "check_cache"
     /\ \/ /\ remembered \/ recent
           /\ Goto(t, "serve")
           /\ SetCache(t)
        \/ /\ ~remembered /\ ~recent
           /\ thread' = [thread EXCEPT ![t].now = clock, ![t].pc = "save"]
           /\ UNCHANGED cached
     /\ UNCHANGED <<clock, keys, dead, served>>

(***************************************************************************)
(* _update_last_used_at: nothing to do if the process remembers a recent   *)
(* use, or the row that was looked up does.                                *)
(***************************************************************************)
CheckLastUsed(t) ==
  LET r == thread[t]
      remembered == cached[ProcessOf[t]][r.key] > clock
      recent == r.row.used # Never /\ clock - r.row.used < Interval
  IN /\ r.pc = "check_cache"
     /\ \/ /\ remembered
           /\ Goto(t, "serve")
           /\ UNCHANGED cached
        \/ /\ ~remembered /\ recent
           /\ Goto(t, "serve")
           /\ SetCache(t)
        \/ /\ ~remembered /\ ~recent
           /\ thread' = [thread EXCEPT ![t].now = clock, ![t].pc = "save"]
           /\ UNCHANGED cached
     /\ UNCHANGED <<clock, keys, dead, served>>

\* Mutant: the whole row is saved.
SaveRow(t) ==
  /\ thread[t].pc = "save"
  /\ keys' = [keys EXCEPT ![thread[t].key] = [thread[t].row EXCEPT !.used = thread[t].now]]
  /\ Goto(t, "cache")
  /\ UNCHANGED <<clock, cached, dead, served>>

\* save(update_fields=["last_used_at"])
SaveLastUsed(t) ==
  /\ thread[t].pc = "save"
  /\ keys' = [keys EXCEPT ![thread[t].key].used = thread[t].now]
  /\ Goto(t, "cache")
  /\ UNCHANGED <<clock, cached, dead, served>>

Remember(t) ==
  /\ thread[t].pc = "cache"
  /\ SetCache(t)
  /\ Goto(t, "serve")
  /\ UNCHANGED <<clock, keys, dead, served>>

\* The use is audited and the view runs.
Serve(t) ==
  /\ thread[t].pc = "serve"
  /\ served' = [served EXCEPT ![thread[t].key] = clock]
  /\ Finish(t)
  /\ UNCHANGED <<clock, keys, cached, dead>>
-----------------------------------------------------------------------------
\* A worker that dies takes its threads and its cache with it.
Crash(p) ==
  /\ "crash" \in Ops
  /\ cached' = [cached EXCEPT ![p] = [k \in Keys |-> 0]]
  /\ thread' = [t \in Threads |-> IF ProcessOf[t] = p THEN Idle ELSE thread[t]]
  /\ UNCHANGED <<clock, keys, dead, served>>

\* The cache of a process is full of other entries, and this one makes room.
Cull(p) ==
  \E k \in Keys :
    /\ "cull" \in Ops /\ cached[p][k] # 0
    /\ cached' = [cached EXCEPT ![p][k] = 0]
    /\ UNCHANGED <<clock, keys, thread, dead, served>>

\* What was cached until now has expired, and is forgotten.
Tick ==
  /\ clock < MaxTime
  /\ \A t \in Threads : thread[t] = Idle \/ thread[t].arrived = clock
  /\ clock' = clock + 1
  /\ cached' = [p \in Processes |-> [k \in Keys |->
                  IF cached[p][k] > clock' THEN cached[p][k] ELSE 0]]
  /\ UNCHANGED <<keys, thread, dead, served>>

Step(t) ==
  \/ FindKey(t) \/ Revoke(t) \/ SaveRevoked(t)
  \/ CallKillSwitch(t) \/ SelectActive(t) \/ RevokeAll(t)
  \/ UseKey(t) \/ Authenticate(t) \/ CheckLastUsed(t) \/ SaveLastUsed(t) \/ Remember(t)
  \/ Serve(t)

Next ==
  \/ Mint \/ Tick
  \/ \E t \in Threads : Step(t)
  \/ \E p \in Processes : Crash(p) \/ Cull(p)

Spec == Init /\ [][Next]_vars
-----------------------------------------------------------------------------
\* The types of all the variables.
TypeOK ==
  /\ clock \in Time
  /\ keys \in [Keys -> ApiKey]
  /\ cached \in [Processes -> [Keys -> Nat]]
  /\ thread \in [Threads -> ThreadState]
  /\ dead \subseteq Keys
  /\ served \in [Keys -> Time \cup {Never}]

(***************************************************************************)
(* "Any leaked credential must stop working right now": no request that    *)
(* arrives after a revocation has been answered is served, whatever the    *)
(* requests under way write back and whatever a process remembers; nor,    *)
(* after a kill switch, one with any key that was there when it was called.*)
(***************************************************************************)
DeadKeysRefused == \A t \in Threads : thread[t].pc = "serve" => ~thread[t].late

(***************************************************************************)
(* Why it holds: an answered revocation is in the row for good, and so     *)
(* every request that arrives later is refused when its key is looked up.  *)
(***************************************************************************)
RefusalInvariant ==
  /\ \A k \in dead : keys[k].revoked
  /\ \A t \in Threads :
       /\ thread[t].late => thread[t].key \in dead
       /\ thread[t].pc \in {"check_cache", "save", "cache", "serve"} => ~thread[t].late
       /\ thread[t].pc \in {"select", "update"} =>
            \A k \in thread[t].owed : k \in OrgKeys /\ CreatedBefore(k, thread[t].before)
       /\ thread[t].pc = "update" =>
            \A k \in thread[t].owed : k \in thread[t].targets \/ keys[k].revoked

\* Revoked is for good: no other write to the row takes it back.
RevokedForGood == [][\A k \in Keys : keys[k].revoked => keys'[k].revoked]_vars

(***************************************************************************)
(* A key's last use is known to within two intervals: one for which the    *)
(* row was recent when a process first met the key, and one for which that *)
(* process then remembers it.  In particular a key that shows no use has   *)
(* served no request.                                                      *)
(***************************************************************************)
LastUseKnown ==
  \A k \in Keys : served[k] # Never =>
    keys[k].used # Never /\ served[k] - keys[k].used <= 2 * Interval
=============================================================================
