----------------------------- MODULE SecretStore -----------------------------
(***************************************************************************)
(* What a project's vault promises its clients, without requests, threads, *)
(* transactions, sessions or keys: secrets that hold a value, and their    *)
(* history, an append-only list of values they once held.                  *)
(***************************************************************************)
EXTENDS Naturals

CONSTANTS Keys, Vals

VARIABLES rows,     \* by name: the secret's identity, its value, whether it is deleted
          history,  \* the versions
          held      \* the values each secret has ever held

vars == <<rows, history, held>>

Row == [id: Nat, val: Vals, deleted: BOOLEAN]
Present(k) == rows[k].id # 0

Init ==
  /\ \A k \in Keys : rows[k].id = 0
  /\ history = {}
  /\ held = {}

\* Everything but the secret of one name stays as it is.
Only(k) == \A j \in Keys \ {k} : rows'[j] = rows[j]

(***************************************************************************)
(* One secret takes a value, and may be deleted or restored by it.  It     *)
(* keeps its identity; a new one's is nobody else's, and has no history.   *)
(***************************************************************************)
Store(k) ==
  /\ Only(k)
  /\ rows'[k].id # 0
  /\ Present(k) => rows'[k].id = rows[k].id
  /\ ~Present(k) => /\ \A j \in Keys : rows[j].id # rows'[k].id
                    /\ \A v \in history : v.sid # rows'[k].id
  /\ held' = held \cup {[sid |-> rows'[k].id, val |-> rows'[k].val]}
  /\ UNCHANGED history

\* A value that a present secret has held joins its history, as the newest version.
Archive(k) ==
  /\ Present(k)
  /\ \E val \in Vals :
       /\ [sid |-> rows[k].id, val |-> val] \in held
       /\ \E v \in history' :
            /\ v.sid = rows[k].id /\ v.val = val
            /\ \A w \in history : w.vid < v.vid
            /\ history' = history \cup {v}
  /\ UNCHANGED <<rows, held>>

\* A secret is deleted, but can be restored.
Mark(k) ==
  /\ Present(k)
  /\ rows' = [rows EXCEPT ![k].deleted = ~@]
  /\ UNCHANGED <<history, held>>

\* Secrets are destroyed, each with the whole of its history.
Destroy ==
  LET gone == {k \in Keys : Present(k) /\ rows'[k].id = 0}
  IN /\ \A k \in Keys \ gone : rows'[k] = rows[k]
     /\ history' = {v \in history : \A k \in gone : v.sid # rows[k].id}
     /\ UNCHANGED held

\* A rekey changes no value and no history, but it may put back, in one stroke,
\* values that the secrets held when it listed them.
Revert ==
  /\ \A k \in Keys :
       \/ rows'[k] = rows[k]
       \/ /\ Present(k)
          /\ [sid |-> rows[k].id, val |-> rows'[k].val] \in held
          /\ rows'[k] = [rows[k] EXCEPT !.val = rows'[k].val]
  /\ UNCHANGED <<history, held>>

Next ==
  \/ \E k \in Keys : Store(k) \/ Archive(k) \/ Mark(k)
  \/ Destroy
  \/ Revert

Spec == Init /\ [][Next]_vars
-----------------------------------------------------------------------------
\* A version belongs to a secret that is there, and holds a value it has held.
HistoryBelongs ==
  \A v \in history : \E k \in Keys :
    v.sid = rows[k].id /\ [sid |-> v.sid, val |-> v.val] \in held
=============================================================================
