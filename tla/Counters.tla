------------------------------- MODULE Counters -------------------------------
(***************************************************************************)
(* What the workers count in their caches: failed logins, which raise a    *)
(* security alert (vault/alerts.py), and calls of the kill switch, which   *)
(* are held to a rate (vault/throttling.py) and recorded one by one        *)
(* (vault/incident_views.py, vault/exception_handler.py).                  *)
(*                                                                         *)
(* The cache is LocMemCache: every gunicorn worker has one of its own, it  *)
(* dies with the worker, and it holds 300 entries: setting one more drops  *)
(* a third of them, the least recently used.  A get and a set are atomic;  *)
(* the code between them is not, and the threads of a worker run beside    *)
(* each other there.  All failures are one user's from one address, all    *)
(* calls one superuser's; the other users' entries only fill the cache.    *)
(***************************************************************************)
EXTENDS Integers, FiniteSets, Sequences

CONSTANTS Processes,
          Threads,
          ProcessOf,    \* the worker a thread belongs to
          Ops,          \* the requests that may be made
          Threshold,    \* FAILED_LOGIN_THRESHOLD
          Window,       \* FAILED_LOGIN_WINDOW_SECONDS, in ticks
          Rate,         \* calls of the kill switch ...
          Duration,     \* ... in so many ticks
          MaxCalls,     \* bound: calls of the kill switch
          MaxFailures,  \* bound: failed logins
          MaxTime       \* bound: the last tick

ASSUME ThreadsAssumption == IsFiniteSet(Threads)
ASSUME ProcessAssumption == ProcessOf \in [Threads -> Processes]
ASSUME LimitAssumption == Threshold \in Nat \ {0} /\ Rate \in Nat \ {0}
ASSUME TimeAssumption == Window \in Nat \ {0} /\ Duration \in Nat \ {0}
ASSUME BoundsAssumption == MaxCalls \in Nat /\ MaxFailures \in Nat /\ MaxTime \in Nat

VARIABLES clock,
          failed,    \* per process, in its cache: how many failures, and until when
          history,   \* per process, in its cache: when calls were let through, newest first
          alerts,    \* AuditEvent rows "security.alert"
          audit,     \* AuditEvent rows "incident.revoke_all_keys"
          carried,   \* the calls whose revocation is committed
          serial,    \* the next call, and failures so far
          thread,    \* what each thread is doing
          ghost      \* history, for the properties only

vars == <<clock, failed, history, alerts, audit, carried, serial, thread, ghost>>

Time == 0..MaxTime
Calls == 1..MaxCalls

Counter == [count: 0..MaxFailures, until: Nat]
NoCounter == [count |-> 0, until |-> 0]

Outcomes == {"success", "denied", "throttled"}
-----------------------------------------------------------------------------
(***************************************************************************)
(* A request: the count it read or has just written; its number as a call, *)
(* when it is checked, and the calls let through before it.                *)
(***************************************************************************)
OpNames == {"idle", "fail", "call"}
Pcs == {"idle", "get", "set", "alert", "get_history", "set_history", "throttled", "view"}

Idle == [op |-> "idle", pc |-> "idle", count |-> 0, call |-> 0, now |-> 0,
         history |-> <<>>]

ThreadState ==
  [op: OpNames, pc: Pcs, count: 0..MaxFailures, call: Calls \cup {0}, now: Time,
   history: Seq(Time)]

IsIdle(t, op) == op \in Ops /\ thread[t] = Idle
Goto(t, pc) == thread' = [thread EXCEPT ![t].pc = pc]
Finish(t) == thread' = [thread EXCEPT ![t] = Idle]
Beside(t, pcs) == \E u \in Threads \ {t} : ProcessOf[u] = ProcessOf[t] /\ thread[u].pc \in pcs

(***************************************************************************)
(* History, per process and since it started: "run" is the number of       *)
(* failures since its counter was last empty, "raised" whether an alert    *)
(* was raised among them, "mixed" whether two of them were counted side by *)
(* side, "lapsed" whether the counter was dropped under a thread; "let"    *)
(* the calls let through since the history was last dropped, and when they *)
(* were checked; "crowded" whether two were ever checked side by side.     *)
(* "lost" holds the calls whose row could not be written, or whose worker  *)
(* died; "unread" those that were refused before their body was read.      *)
(***************************************************************************)
GhostState ==
  [run: [Processes -> 0..MaxFailures], raised: [Processes -> BOOLEAN],
   mixed: SUBSET Processes, lapsed: SUBSET Processes,
   let: [Processes -> SUBSET (Calls \X Time)], crowded: SUBSET Processes,
   lost: SUBSET Calls, unread: SUBSET Calls]
-----------------------------------------------------------------------------
(***************************************************************************)
(* track_failed_login: a password or a code was wrong.  The count is read, *)
(* and one more is written, for a whole window from now.                   *)
(***************************************************************************)
StartFailure(t) ==
  /\ IsIdle(t, "fail") /\ serial.failure < MaxFailures
  /\ thread' = [thread EXCEPT ![t] = [Idle EXCEPT !.op = "fail", !.pc = "get"]]
  /\ serial' = [serial EXCEPT !.failure = @ + 1]
  /\ UNCHANGED <<clock, failed, history, alerts, audit, carried, ghost>>

GetCount(t) ==
  /\ thread[t].pc = "get"
  /\ thread' = [thread EXCEPT ![t].count = failed[ProcessOf[t]].count, ![t].pc = "set"]
  /\ ghost' = [ghost EXCEPT !.mixed = IF Beside(t, {"set"}) THEN @ \cup {ProcessOf[t]} ELSE @]
  /\ UNCHANGED <<clock, failed, history, alerts, audit, carried, serial>>

\* Mutant: the counter wraps around when it has raised the alert.
SetCountAndReset(t) ==
  LET p == ProcessOf[t]
      count == thread[t].count + 1
  IN /\ thread[t].pc = "set"
     /\ failed' = [failed EXCEPT ![p] =
          [count |-> IF count = Threshold THEN 0 ELSE count, until |-> clock + Window]]
     /\ ghost' = [ghost EXCEPT !.run[p] = @ + 1]
     /\ IF count = Threshold
          THEN thread' = [thread EXCEPT ![t].count = count, ![t].pc = "alert"]
          ELSE Finish(t)
     /\ UNCHANGED <<clock, history, alerts, audit, carried, serial>>

SetCount(t) ==
  LET p == ProcessOf[t]
      count == thread[t].count + 1
  IN /\ thread[t].pc = "set"
     /\ failed' = [failed EXCEPT ![p] = [count |-> count, until |-> clock + Window]]
     /\ ghost' = [ghost EXCEPT !.run[p] = @ + 1]
     /\ IF count = Threshold
          THEN thread' = [thread EXCEPT ![t].count = count, ![t].pc = "alert"]
          ELSE Finish(t)
     /\ UNCHANGED <<clock, history, alerts, audit, carried, serial>>

\* _audit_alert: a row, whose failure is logged and forgotten.
RaiseAlert(t) ==
  /\ thread[t].pc = "alert"
  /\ \/ alerts' = alerts + 1
     \/ UNCHANGED alerts
  /\ ghost' = [ghost EXCEPT !.raised[ProcessOf[t]] = TRUE]
  /\ Finish(t)
  /\ UNCHANGED <<clock, failed, history, audit, carried, serial>>
-----------------------------------------------------------------------------
(***************************************************************************)
(* A call of the kill switch by a signed-in user.  IncidentRateThrottle    *)
(* reads the history of the calls it let through ...                       *)
(***************************************************************************)
StartCall(t) ==
  /\ IsIdle(t, "call") /\ serial.call <= MaxCalls
  /\ thread' = [thread EXCEPT ![t] = [Idle EXCEPT !.op = "call", !.pc = "get_history",
                                                  !.call = serial.call]]
  /\ serial' = [serial EXCEPT !.call = @ + 1]
  /\ UNCHANGED <<clock, failed, history, alerts, audit, carried, ghost>>

\* Mutant: the calls of the oldest moment of the window are not counted.
RecentButOldest(h) ==
  LET last == CHOOSE n \in 0..Len(h) :
                /\ n = 0 \/ h[n] > clock - Duration + 1
                /\ \A i \in (n + 1)..Len(h) : h[i] <= clock - Duration + 1
  IN SubSeq(h, 1, last)

\* The oldest ones are dropped for as long as they are too old.
Recent(h) ==
  LET last == CHOOSE n \in 0..Len(h) :
                /\ n = 0 \/ h[n] > clock - Duration
                /\ \A i \in (n + 1)..Len(h) : h[i] <= clock - Duration
  IN SubSeq(h, 1, last)

GetHistory(t) ==
  LET recent == Recent(history[ProcessOf[t]])
  IN /\ thread[t].pc = "get_history"
     /\ thread' = [thread EXCEPT ![t].history = recent, ![t].now = clock,
                     ![t].pc = IF Len(recent) >= Rate THEN "throttled" ELSE "set_history"]
     /\ ghost' = [ghost EXCEPT !.crowded =
                    IF Beside(t, {"set_history"}) THEN @ \cup {ProcessOf[t]} ELSE @]
     /\ UNCHANGED <<clock, failed, history, alerts, audit, carried, serial>>

\* Mutant: the calls that are too old are kept.
SetHistoryUntrimmed(t) ==
  LET p == ProcessOf[t]
  IN /\ thread[t].pc = "set_history"
     /\ history' = [history EXCEPT ![p] = <<thread[t].now>> \o @]
     /\ ghost' = [ghost EXCEPT !.let[p] = @ \cup {<<thread[t].call, thread[t].now>>}]
     /\ thread' = [thread EXCEPT ![t].history = <<>>, ![t].now = 0, ![t].pc = "view"]
     /\ UNCHANGED <<clock, failed, alerts, audit, carried, serial>>

\* ... and adds the present one, at the time of its check.
SetHistory(t) ==
  LET p == ProcessOf[t]
  IN /\ thread[t].pc = "set_history"
     /\ history' = [history EXCEPT ![p] = <<thread[t].now>> \o thread[t].history]
     /\ ghost' = [ghost EXCEPT !.let[p] = @ \cup {<<thread[t].call, thread[t].now>>}]
     /\ thread' = [thread EXCEPT ![t].history = <<>>, ![t].now = 0, ![t].pc = "view"]
     /\ UNCHANGED <<clock, failed, alerts, audit, carried, serial>>

\* Mutant: a throttled call is answered by the default handler alone.
AnswerThrottled(t) ==
  /\ thread[t].pc = "throttled"
  /\ Finish(t)
  /\ UNCHANGED <<clock, failed, history, alerts, audit, carried, serial, ghost>>

(***************************************************************************)
(* incident_exception_handler: a call that was held back is recorded; if   *)
(* that fails, as for an organization that does not exist, it is held back *)
(* all the same.                                                           *)
(***************************************************************************)
RecordThrottled(t) ==
  LET c == thread[t].call
  IN /\ thread[t].pc = "throttled"
     /\ \/ /\ audit' = audit \cup {[call |-> c, outcome |-> "throttled"]}
           /\ UNCHANGED ghost
        \/ /\ ghost' = [ghost EXCEPT !.lost = @ \cup {c}]
           /\ UNCHANGED audit
     /\ Finish(t)
     /\ UNCHANGED <<clock, failed, history, alerts, carried, serial>>

\* Mutant: the row is written after the transaction.
RevokeThenRecord(t) ==
  LET c == thread[t].call
  IN /\ thread[t].pc = "view"
     /\ carried' = carried \cup {c}
     /\ \/ /\ audit' = audit \cup {[call |-> c, outcome |-> "success"]}
           /\ UNCHANGED ghost
        \/ /\ ghost' = [ghost EXCEPT !.lost = @ \cup {c}]
           /\ UNCHANGED audit
     /\ Finish(t)
     /\ UNCHANGED <<clock, failed, history, alerts, serial>>

(***************************************************************************)
(* Let through, but not a POST, or with a body that does not parse or is a *)
(* list: the framework refuses the call, and the handler records only      *)
(* those that were held back.                                              *)
(***************************************************************************)
RefuseUnread(t) ==
  /\ thread[t].pc = "view"
  /\ ghost' = [ghost EXCEPT !.unread = @ \cup {thread[t].call}]
  /\ Finish(t)
  /\ UNCHANGED <<clock, failed, history, alerts, audit, carried, serial>>

(***************************************************************************)
(* The view: a call without the rights, without an organization or with a  *)
(* bad cutoff is recorded and refused; a good one revokes and is recorded  *)
(* in one transaction.  A row that cannot be written fails the call, and   *)
(* the revocation with it.                                                 *)
(***************************************************************************)
RevokeAllKeys(t) ==
  LET c == thread[t].call
  IN /\ thread[t].pc = "view"
     /\ \/ /\ audit' = audit \cup {[call |-> c, outcome |-> "denied"]}
           /\ UNCHANGED <<carried, ghost>>
        \/ /\ audit' = audit \cup {[call |-> c, outcome |-> "success"]}
           /\ carried' = carried \cup {c}
           /\ UNCHANGED ghost
        \/ /\ ghost' = [ghost EXCEPT !.lost = @ \cup {c}]
           /\ UNCHANGED <<audit, carried>>
     /\ Finish(t)
     /\ UNCHANGED <<clock, failed, history, alerts, serial>>
-----------------------------------------------------------------------------
\* A worker that dies takes its threads and its cache with it.
Crash(p) ==
  /\ "crash" \in Ops
  /\ failed' = [failed EXCEPT ![p] = NoCounter]
  /\ history' = [history EXCEPT ![p] = <<>>]
  /\ thread' = [t \in Threads |-> IF ProcessOf[t] = p THEN Idle ELSE thread[t]]
  /\ ghost' = [ghost EXCEPT
       !.run[p] = 0, !.raised[p] = FALSE, !.mixed = @ \ {p}, !.lapsed = @ \ {p},
       !.let[p] = {}, !.crowded = @ \ {p},
       !.lost = @ \cup ({thread[t].call : t \in {u \in Threads : ProcessOf[u] = p}} \ {0})]
  /\ UNCHANGED <<clock, alerts, audit, carried, serial>>

\* The counters of some workers are dropped from their caches.
DropCounters(dropped) ==
  LET under == {p \in dropped : \E t \in Threads : /\ ProcessOf[t] = p
                                                   /\ thread[t].pc \in {"set", "alert"}}
  IN /\ failed' = [p \in Processes |-> IF p \in dropped THEN NoCounter ELSE failed[p]]
     /\ ghost' = [ghost EXCEPT
          !.run = [p \in Processes |-> IF p \in dropped THEN 0 ELSE @[p]],
          !.raised = [p \in Processes |-> @[p] /\ p \notin dropped],
          !.mixed = @ \ (dropped \ under), !.lapsed = (@ \ dropped) \cup under]

\* A counter that was set a whole window ago has expired.  Reading and writing
\* it takes a request no time to speak of, but the clock may move in between.
Tick ==
  /\ clock < MaxTime
  /\ clock' = clock + 1
  /\ DropCounters({p \in Processes : failed[p].count # 0 /\ failed[p].until <= clock + 1})
  /\ UNCHANGED <<history, alerts, audit, carried, serial, thread>>

\* The cache is full of other entries, and the counter or the history makes room.
CullCounter(p) ==
  /\ "cull" \in Ops /\ failed[p] # NoCounter
  /\ DropCounters({p})
  /\ UNCHANGED <<clock, history, alerts, audit, carried, serial, thread>>

CullHistory(p) ==
  /\ "cull" \in Ops /\ history[p] # <<>>
  /\ history' = [history EXCEPT ![p] = <<>>]
  /\ ghost' = [ghost EXCEPT !.let[p] = {}]
  /\ UNCHANGED <<clock, failed, alerts, audit, carried, serial, thread>>

Init ==
  /\ clock = 0
  /\ failed = [p \in Processes |-> NoCounter]
  /\ history = [p \in Processes |-> <<>>]
  /\ alerts = 0 /\ audit = {} /\ carried = {}
  /\ serial = [call |-> 1, failure |-> 0]
  /\ thread = [t \in Threads |-> Idle]
  /\ ghost = [run |-> [p \in Processes |-> 0], raised |-> [p \in Processes |-> FALSE],
              mixed |-> {}, lapsed |-> {}, let |-> [p \in Processes |-> {}], crowded |-> {},
              lost |-> {}, unread |-> {}]

Step(t) ==
  \/ StartFailure(t) \/ GetCount(t) \/ SetCount(t) \/ RaiseAlert(t)
  \/ StartCall(t) \/ GetHistory(t) \/ SetHistory(t) \/ RecordThrottled(t)
  \/ RefuseUnread(t) \/ RevokeAllKeys(t)

Next ==
  \/ \E t \in Threads : Step(t)
  \/ \E p \in Processes : Crash(p) \/ CullCounter(p) \/ CullHistory(p)
  \/ Tick

Spec == Init /\ [][Next]_vars
-----------------------------------------------------------------------------
\* The types of all the variables; a call has one row at most.
TypeOK ==
  /\ clock \in Time
  /\ failed \in [Processes -> Counter]
  /\ history \in [Processes -> Seq(Time)]
  /\ \A p \in Processes : Len(history[p]) <= Rate
  /\ alerts \in Nat
  /\ audit \subseteq [call: Calls, outcome: Outcomes]
  /\ \A a, b \in audit : a.call = b.call => a = b
  /\ carried \subseteq Calls
  /\ serial \in [call: 1..(MaxCalls + 1), failure: 0..MaxFailures]
  /\ thread \in [Threads -> ThreadState]
  /\ ghost \in GhostState

(***************************************************************************)
(* Failures that side by side are counted once delay the alert, but never  *)
(* make it unnecessary: the alert is raised at one value of the counter    *)
(* only, and no counter gets past that value without it.  Nor is it raised *)
(* early: so many failures have come to this worker, each within a window  *)
(* of the one before.  A counter that expired or was culled begins again,  *)
(* unnoticed; one dropped under a thread is excused.                       *)
(***************************************************************************)
AlertsRaised ==
  \A p \in Processes : p \notin ghost.lapsed =>
    /\ failed[p].count >= Threshold =>
         ghost.raised[p] \/ \E t \in Threads : ProcessOf[t] = p /\ thread[t].pc = "alert"
    /\ ghost.raised[p] => ghost.run[p] >= Threshold
    /\ p \notin ghost.mixed => failed[p].count = ghost.run[p]

(***************************************************************************)
(* Each worker, while it lives and its cache keeps the history, lets no    *)
(* more calls through of those it checks in any stretch of time than the   *)
(* rate allows, unless two were checked side by side.                      *)
(***************************************************************************)
RateKept ==
  \A p \in Processes \ ghost.crowded : \A now \in Time :
    Cardinality({c \in ghost.let[p] : now - Duration < c[2] /\ c[2] <= now}) <= Rate

(***************************************************************************)
(* What was carried out is recorded as a success and nothing else is.  A   *)
(* call without a record is under way, or could not be recorded, or was    *)
(* refused before its body was read, although the view's comment says that *)
(* "every call - successful, denied, throttled - is recorded".             *)
(***************************************************************************)
Accounted(c) ==
  \/ \E a \in audit : a.call = c
  \/ \E t \in Threads : thread[t].call = c
  \/ c \in ghost.lost

CallsRecorded ==
  /\ \A c \in Calls : c \in carried <=> [call |-> c, outcome |-> "success"] \in audit
  /\ \A c \in 1..(serial.call - 1) : Accounted(c) \/ c \in ghost.unread
=============================================================================
