----------------------------- MODULE CountersProof -----------------------------
(***************************************************************************)
(* Proofs about Counters, for any number of workers, threads, calls and    *)
(* failures, any threshold, rate, window and duration.                     *)
(***************************************************************************)
EXTENDS Counters, FiniteSetTheorems, SequenceTheorems, WellFoundedInduction, TLAPS

(***************************************************************************)
(* What types alone do not say.  No count passes the failures there have   *)
(* been, without those of threads that have still to write; a call belongs *)
(* to one thread, which alone records it; a history that is about to grow  *)
(* is shorter than the rate allows.                                        *)
(***************************************************************************)
Counting == {t \in Threads : thread[t].pc \in {"get", "set"}}
Counted == serial.failure - Cardinality(Counting)

CountsBounded ==
  /\ 0 <= Counted
  /\ \A p \in Processes : failed[p].count <= Counted /\ ghost.run[p] <= Counted
  /\ \A t \in Threads : thread[t].count <= Counted

InCall(t) == thread[t].pc \in {"get_history", "set_history", "throttled", "view"}

CallsKnown ==
  /\ \A t \in Threads : /\ InCall(t) <=> thread[t].call # 0
                        /\ thread[t].call < serial.call
                        /\ \A u \in Threads : u # t /\ InCall(t) => thread[u].call # thread[t].call
  /\ \A t \in Threads : InCall(t) =>
       thread[t].call \notin carried /\ \A a \in audit : a.call # thread[t].call
  /\ \A a \in audit : a.call < serial.call
  /\ \A c \in carried : c < serial.call

HistoriesShort == \A t \in Threads : thread[t].pc = "set_history" => Len(thread[t].history) < Rate

TypeInvariant == TypeOK /\ CountsBounded /\ CallsKnown /\ HistoriesShort

(***************************************************************************)
(* Unless the counter was dropped under a thread: what a thread has read,  *)
(* and what the counter says, is no more than the run; a count past the    *)
(* threshold has its alert; and alone, a thread has read what is there.    *)
(***************************************************************************)
Alerted(p) ==
  ghost.raised[p] \/ \E t \in Threads : ProcessOf[t] = p /\ thread[t].pc = "alert"

AlertTrue(p) ==
  p \notin ghost.lapsed =>
    /\ failed[p].count <= ghost.run[p]
    /\ failed[p].count >= Threshold => Alerted(p)
    /\ ghost.raised[p] => ghost.run[p] >= Threshold
    /\ \A t \in Threads : ProcessOf[t] = p =>
         /\ thread[t].pc = "set" => /\ thread[t].count <= ghost.run[p]
                                    /\ thread[t].count >= Threshold => Alerted(p)
         /\ thread[t].pc = "alert" => ghost.run[p] >= Threshold
         /\ thread[t].pc = "set" /\ p \notin ghost.mixed =>
              /\ thread[t].count = failed[p].count
              /\ \A u \in Threads : ProcessOf[u] = p /\ thread[u].pc = "set" => u = t
    /\ p \notin ghost.mixed => failed[p].count = ghost.run[p]

AlertInvariant == \A p \in Processes : AlertTrue(p)

(***************************************************************************)
(* The history h tells of every call in "let" that was checked after lo.   *)
(***************************************************************************)
Remembers(h, let, lo) ==
  \E f \in [1..Len(h) -> Calls \X Time] :
    \A c \in let : c[2] > lo => \E i \in 1..Len(h) : f[i] = c /\ h[i] = c[2]

RateTrue(p) ==
  /\ \A c \in ghost.let[p] : c[2] <= clock
  /\ \A t \in Threads : ProcessOf[t] = p /\ thread[t].pc = "set_history" =>
       thread[t].now <= clock
  /\ p \notin ghost.crowded =>
       /\ \A now \in Time :
            Cardinality({c \in ghost.let[p] : now - Duration < c[2] /\ c[2] <= now}) <= Rate
       /\ Remembers(history[p], ghost.let[p], clock - Duration)
       /\ \A t \in Threads : ProcessOf[t] = p /\ thread[t].pc = "set_history" =>
            /\ \A c \in ghost.let[p] : c[2] <= thread[t].now
            /\ Remembers(thread[t].history, ghost.let[p], thread[t].now - Duration)
            /\ \A u \in Threads : ProcessOf[u] = p /\ thread[u].pc = "set_history" => u = t

RateInvariant == \A p \in Processes : RateTrue(p)
-----------------------------------------------------------------------------
\* Counting: a set that gains one element at most, none, or loses one.
LEMMA Joins ==
  ASSUME NEW S, NEW T, NEW x, IsFiniteSet(S), T \subseteq S \cup {x}
  PROVE  Cardinality(T) \in Nat /\ Cardinality(T) <= Cardinality(S) + 1
  <1> Cardinality(S) \in Nat
    BY FS_CardinalityType
  <1>1. IsFiniteSet(S \cup {x}) /\ Cardinality(S \cup {x}) <= Cardinality(S) + 1
    BY FS_AddElement
  <1>2. IsFiniteSet(T) /\ Cardinality(T) <= Cardinality(S \cup {x})
    BY <1>1, FS_Subset
  <1>3. QED
    BY <1>1, <1>2, FS_CardinalityType

LEMMA Stays ==
  ASSUME NEW S, NEW T, IsFiniteSet(S), T \subseteq S
  PROVE  Cardinality(T) \in Nat /\ Cardinality(S) \in Nat /\ Cardinality(T) <= Cardinality(S)
  BY FS_Subset, FS_CardinalityType

LEMMA Leaves ==
  ASSUME NEW S, NEW T, NEW x \in S, IsFiniteSet(S), T \subseteq S \ {x}
  PROVE  Cardinality(T) \in Nat /\ Cardinality(S) \in Nat /\ Cardinality(T) + 1 <= Cardinality(S)
  <1>1. IsFiniteSet(S \ {x}) /\ Cardinality(S \ {x}) = Cardinality(S) - 1
    BY FS_RemoveElement
  <1>2. IsFiniteSet(T) /\ Cardinality(T) <= Cardinality(S \ {x})
    BY <1>1, FS_Subset
  <1>3. QED
    BY <1>1, <1>2, FS_CardinalityType

\* A set of numbers has a smallest, and if it is bounded a greatest.
LEMMA Smallest ==
  ASSUME NEW T, T \subseteq Nat, T # {}
  PROVE  \E x \in T : \A y \in T : x <= y
  <1> DEFINE R == {ss \in Nat \X Nat : ss[1] < ss[2]}
  <1>1. OpToRel(<, Nat) = R
    BY Zenon DEF OpToRel
  <1>2. PICK x \in T : \A y \in T : ~(<<y, x>> \in R)
    <2>1. IsWellFoundedOn(R, Nat)
      BY <1>1, NatLessThanWellFounded, Zenon
    <2> HIDE DEF R
    <2>2. QED
      BY <2>1, WFMin
  <1>3. ASSUME NEW y \in T, y < x
        PROVE  FALSE
    BY <1>2, <1>3
  <1>4. QED
    BY <1>3

LEMMA Greatest ==
  ASSUME NEW T, T \subseteq Nat, T # {}, NEW n \in Nat, \A y \in T : y <= n
  PROVE  \E x \in T : \A y \in T : y <= x
  <1> DEFINE U == {i \in Nat : \A y \in T : y <= i}
  <1>1. PICK x \in U : \A y \in U : x <= y
    <2>1. U \subseteq Nat /\ n \in U
      OBVIOUS
    <2> HIDE DEF U
    <2>2. QED
      BY <2>1, Smallest
  <1>2. x \in T
    <2>1. SUFFICES ASSUME x \notin T
                   PROVE  FALSE
      OBVIOUS
    <2>2. PICK y \in T : TRUE
      OBVIOUS
    <2>3. x - 1 \in U
      BY <2>1, <2>2
    <2>4. QED
      BY <2>3, <1>1
  <1>3. QED
    BY <1>1, <1>2

\* What is left of a history: its entries up to the last that is not too old.
LEMMA RecentKeeps ==
  ASSUME TypeOK, NEW h \in Seq(Time)
  PROVE  /\ Recent(h) \in Seq(Time) /\ Len(Recent(h)) \in 0..Len(h)
         /\ \A i \in 1..Len(Recent(h)) : Recent(h)[i] = h[i]
         /\ \A i \in 1..Len(h) : h[i] > clock - Duration => i \in 1..Len(Recent(h))
  <1> DEFINE Last(n) == /\ n = 0 \/ h[n] > clock - Duration
                        /\ \A i \in (n + 1)..Len(h) : h[i] <= clock - Duration
             last == CHOOSE n \in 0..Len(h) : Last(n)
             new == {i \in 1..Len(h) : h[i] > clock - Duration}
  <1>1. Len(h) \in Nat /\ \A i \in 1..Len(h) : h[i] \in Nat
    BY LenProperties, ElementOfSeq, BoundsAssumption DEF Time
  <1>2. clock \in Nat /\ Duration \in Nat
    BY TimeAssumption DEF TypeOK, Time
  <1>3. \E n \in 0..Len(h) : Last(n)
    <2>1. CASE new = {}
      BY <1>1, <1>2, <2>1
    <2>2. CASE new # {}
      <3>1. new \subseteq Nat /\ \A i \in new : i <= Len(h)
        BY <1>1
      <3>2. PICK x \in new : \A i \in new : i <= x
        <4> HIDE DEF new
        <4>1. QED
          BY <1>1, <2>2, <3>1, Greatest
      <3>3. QED
        BY <1>1, <1>2, <3>2
    <2>3. QED
      BY <2>1, <2>2
  <1>4. last \in 0..Len(h) /\ Last(last)
    BY <1>3, Zenon
  <1>5. Recent(h) = SubSeq(h, 1, last)
    BY DEF Recent
  <1> HIDE DEF last
  <1>6. \A i \in 1..last : h[i] \in Time
    BY <1>1, <1>4, ElementOfSeq
  <1>7. /\ SubSeq(h, 1, last) \in Seq(Time) /\ Len(SubSeq(h, 1, last)) = last
        /\ \A i \in 1..last : SubSeq(h, 1, last)[i] = h[i]
    BY <1>1, <1>4, <1>6, SubSeqProperties
  <1>8. QED
    BY <1>1, <1>2, <1>4, <1>5, <1>7
-----------------------------------------------------------------------------
\* Fields read from well-typed records.
LEMMA FieldTypes ==
  ASSUME TypeOK
  PROVE  /\ clock \in Nat /\ clock \in Time /\ Time \subseteq Nat
         /\ serial.call \in Nat /\ serial.call <= MaxCalls + 1 /\ serial.call >= 1
         /\ serial.failure \in Nat /\ serial.failure <= MaxFailures
         /\ \A t \in Threads :
              /\ thread[t] \in ThreadState /\ ProcessOf[t] \in Processes
              /\ thread[t].op \in OpNames /\ thread[t].pc \in Pcs
              /\ thread[t].count \in 0..MaxFailures /\ thread[t].call \in Calls \cup {0}
              /\ thread[t].now \in Time /\ thread[t].history \in Seq(Time)
         /\ \A p \in Processes :
              /\ failed[p] \in Counter
              /\ failed[p].count \in 0..MaxFailures /\ failed[p].until \in Nat
              /\ history[p] \in Seq(Time) /\ Len(history[p]) \in Nat
         /\ NoCounter \in Counter /\ Idle \in ThreadState
  <1> USE BoundsAssumption, ProcessAssumption
  <1>1. /\ clock \in Time /\ Time \subseteq Nat
        /\ serial.call \in 1..(MaxCalls + 1) /\ serial.failure \in 0..MaxFailures
    BY DEF TypeOK, Time
  <1>2. ASSUME NEW t \in Threads
        PROVE  /\ thread[t] \in ThreadState /\ ProcessOf[t] \in Processes
               /\ thread[t].op \in OpNames /\ thread[t].pc \in Pcs
               /\ thread[t].count \in 0..MaxFailures /\ thread[t].call \in Calls \cup {0}
               /\ thread[t].now \in Time /\ thread[t].history \in Seq(Time)
    <2>1. thread[t] \in ThreadState
      BY DEF TypeOK
    <2>2. QED
      BY <2>1 DEF ThreadState
  <1>3. ASSUME NEW p \in Processes
        PROVE  /\ failed[p] \in Counter
               /\ failed[p].count \in 0..MaxFailures /\ failed[p].until \in Nat
               /\ history[p] \in Seq(Time) /\ Len(history[p]) \in Nat
    <2>1. failed[p] \in Counter /\ history[p] \in Seq(Time)
      BY DEF TypeOK
    <2>2. QED
      BY <2>1, LenProperties DEF Counter
  <1>4. NoCounter \in Counter /\ 0 \in Time
    BY DEF NoCounter, Counter, Time
  <1>5. <<>> \in Seq(Time)
    BY EmptySeq
  <1>6. Idle \in ThreadState
    BY <1>4, <1>5 DEF Idle, ThreadState, OpNames, Pcs
  <1>7. QED
    BY <1>1, <1>2, <1>3, <1>4, <1>6

LEMMA HistoryTypes ==
  ASSUME TypeOK
  PROVE  /\ ghost \in GhostState
         /\ ghost.run \in [Processes -> 0..MaxFailures] /\ ghost.raised \in [Processes -> BOOLEAN]
         /\ ghost.mixed \in SUBSET Processes /\ ghost.lapsed \in SUBSET Processes
         /\ ghost.let \in [Processes -> SUBSET (Calls \X Time)]
         /\ ghost.crowded \in SUBSET Processes
         /\ ghost.lost \in SUBSET Calls /\ ghost.unread \in SUBSET Calls
         /\ \A p \in Processes : ghost.run[p] \in 0..MaxFailures
         /\ \A p \in Processes : \A c \in ghost.let[p] : c \in Calls \X Time /\ c[2] \in Nat
  <1>1. /\ ghost \in GhostState
        /\ ghost.run \in [Processes -> 0..MaxFailures] /\ ghost.raised \in [Processes -> BOOLEAN]
        /\ ghost.mixed \in SUBSET Processes /\ ghost.lapsed \in SUBSET Processes
        /\ ghost.let \in [Processes -> SUBSET (Calls \X Time)]
        /\ ghost.crowded \in SUBSET Processes
        /\ ghost.lost \in SUBSET Calls /\ ghost.unread \in SUBSET Calls
    BY DEF TypeOK, GhostState
  <1>2. QED
    BY <1>1, FieldTypes

\* Time passes, or a cache makes room for another entry.
Loses == Tick \/ \E p \in Processes : CullCounter(p) \/ CullHistory(p)

\* The workers that lose their counters, and what is known of them then.
LEMMA Drops ==
  ASSUME TypeOK, NEW S \in SUBSET Processes, DropCounters(S)
  PROVE  /\ failed' \in [Processes -> Counter] /\ ghost' \in GhostState
         /\ \A p \in Processes :
              /\ failed'[p] = IF p \in S THEN NoCounter ELSE failed[p]
              /\ ghost'.run[p] = IF p \in S THEN 0 ELSE ghost.run[p]
              /\ ghost'.raised[p] = (ghost.raised[p] /\ p \notin S)
         /\ \E under \in SUBSET S :
              /\ ghost'.mixed = ghost.mixed \ (S \ under)
              /\ ghost'.lapsed = (ghost.lapsed \ S) \cup under
              /\ \A t \in Threads :
                   ProcessOf[t] \in S \ under => thread[t].pc \notin {"set", "alert"}
         /\ ghost'.let = ghost.let /\ ghost'.crowded = ghost.crowded
         /\ ghost'.lost = ghost.lost /\ ghost'.unread = ghost.unread
  <1> DEFINE under == {p \in S : \E t \in Threads : /\ ProcessOf[t] = p
                                                  /\ thread[t].pc \in {"set", "alert"}}
             run == [p \in Processes |-> IF p \in S THEN 0 ELSE ghost.run[p]]
             raised == [p \in Processes |-> ghost.raised[p] /\ p \notin S]
  <1>1. ghost' = [ghost EXCEPT !.run = run, !.raised = raised,
                    !.mixed = @ \ (S \ under), !.lapsed = (@ \ S) \cup under]
    BY DEF DropCounters
  <1>2. under \subseteq S
    OBVIOUS
  <1>3. run \in [Processes -> 0..MaxFailures] /\ raised \in [Processes -> BOOLEAN]
    BY HistoryTypes, BoundsAssumption
  <1>4. \A t \in Threads :
          ProcessOf[t] \in S \ under => thread[t].pc \notin {"set", "alert"}
    OBVIOUS
  <1>5. failed' = [p \in Processes |-> IF p \in S THEN NoCounter ELSE failed[p]]
    BY DEF DropCounters
  <1>6. failed' \in [Processes -> Counter]
    BY <1>5, FieldTypes
  <1>7. \A p \in Processes : /\ run[p] = IF p \in S THEN 0 ELSE ghost.run[p]
                             /\ raised[p] = (ghost.raised[p] /\ p \notin S)
    OBVIOUS
  <1> HIDE DEF under, run, raised
  <1>8. /\ ghost'.run = run /\ ghost'.raised = raised
        /\ ghost'.mixed = ghost.mixed \ (S \ under)
        /\ ghost'.lapsed = (ghost.lapsed \ S) \cup under
        /\ ghost'.let = ghost.let /\ ghost'.crowded = ghost.crowded
        /\ ghost'.lost = ghost.lost /\ ghost'.unread = ghost.unread
    BY <1>1, HistoryTypes DEF GhostState
  <1>9. ghost' \in GhostState
    BY <1>1, <1>2, <1>3, HistoryTypes DEF GhostState
  <1>10. QED
    BY <1>2, <1>4, <1>5, <1>6, <1>7, <1>8, <1>9

\* Nothing but counters or a history is lost, and the clock does not go back.
LEMMA CacheLoses ==
  ASSUME TypeOK, Loses
  PROVE  /\ UNCHANGED <<alerts, audit, carried, serial, thread>>
         /\ clock' \in Time /\ clock <= clock'
         /\ ghost' \in GhostState /\ ghost'.crowded = ghost.crowded
         /\ ghost'.lost = ghost.lost /\ ghost'.unread = ghost.unread
         /\ \/ /\ history' = history /\ ghost'.let = ghost.let
               /\ \E S \in SUBSET Processes : DropCounters(S)
            \/ /\ failed' = failed
               /\ ghost'.run = ghost.run /\ ghost'.raised = ghost.raised
               /\ ghost'.mixed = ghost.mixed /\ ghost'.lapsed = ghost.lapsed
               /\ \E p \in Processes : /\ history' = [history EXCEPT ![p] = <<>>]
                                       /\ ghost'.let = [ghost.let EXCEPT ![p] = {}]
  <1>1. CASE Tick
    <2> DEFINE over == {p \in Processes : failed[p].count # 0 /\ failed[p].until <= clock + 1}
    <2>1. over \in SUBSET Processes /\ DropCounters(over)
      BY <1>1 DEF Tick
    <2>2. UNCHANGED <<history, alerts, audit, carried, serial, thread>>
      BY <1>1 DEF Tick
    <2>3. clock' \in Time /\ clock <= clock'
      BY <1>1, FieldTypes, BoundsAssumption DEF Tick, Time
    <2> HIDE DEF over
    <2>4. QED
      BY <2>1, <2>2, <2>3, Drops
  <1>2. ASSUME NEW p \in Processes, CullCounter(p)
        PROVE  /\ UNCHANGED <<clock, history, alerts, audit, carried, serial, thread>>
               /\ {p} \in SUBSET Processes /\ DropCounters({p})
    BY <1>2 DEF CullCounter
  <1>3. CASE \E p \in Processes : CullCounter(p)
    <2>1. PICK S \in SUBSET Processes :
            /\ UNCHANGED <<clock, history, alerts, audit, carried, serial, thread>>
            /\ DropCounters(S)
      BY <1>2, <1>3
    <2>2. clock' \in Time /\ clock <= clock'
      BY <2>1, FieldTypes
    <2>3. QED
      BY <2>1, <2>2, Drops
  <1>4. ASSUME NEW p \in Processes, CullHistory(p)
        PROVE  /\ UNCHANGED <<clock, failed, alerts, audit, carried, serial, thread>>
               /\ history' = [history EXCEPT ![p] = <<>>]
               /\ ghost' = [ghost EXCEPT !.let[p] = {}]
    BY <1>4 DEF CullHistory
  <1>5. CASE \E p \in Processes : CullHistory(p)
    <2>1. PICK p \in Processes :
            /\ UNCHANGED <<clock, failed, alerts, audit, carried, serial, thread>>
            /\ history' = [history EXCEPT ![p] = <<>>]
            /\ ghost' = [ghost EXCEPT !.let[p] = {}]
      BY <1>4, <1>5
    <2>2. clock' \in Time /\ clock <= clock'
      BY <2>1, FieldTypes
    <2>3. [ghost.let EXCEPT ![p] = {}] \in [Processes -> SUBSET (Calls \X Time)]
      BY HistoryTypes
    <2>4. /\ ghost' \in GhostState /\ ghost'.let = [ghost.let EXCEPT ![p] = {}]
          /\ ghost'.run = ghost.run /\ ghost'.raised = ghost.raised
          /\ ghost'.mixed = ghost.mixed /\ ghost'.lapsed = ghost.lapsed
          /\ ghost'.crowded = ghost.crowded
          /\ ghost'.lost = ghost.lost /\ ghost'.unread = ghost.unread
      BY <2>1, <2>3, HistoryTypes DEF GhostState
    <2>5. QED
      BY <2>1, <2>2, <2>4
  <1>6. QED
    BY <1>1, <1>3, <1>5 DEF Loses

\* Ending a request and moving on.
LEMMA ThreadMoves ==
  ASSUME TypeOK, NEW t \in Threads
  PROVE  /\ Finish(t) => thread' \in [Threads -> ThreadState] /\ thread'[t] = Idle
  BY FieldTypes DEF TypeOK, Finish

\* A step of one thread leaves the others as they are.
LEMMA OtherThreads ==
  ASSUME TypeOK, NEW t \in Threads, Step(t)
  PROVE  \A u \in Threads : u # t => thread'[u] = thread[u]
  BY DEF TypeOK, Step, StartFailure, GetCount, SetCount, RaiseAlert, StartCall, GetHistory,
         SetHistory, RecordThrottled, RefuseUnread, RevokeAllKeys, Finish

\* Where a step takes its thread, and what it issues.
LEMMA Destinations ==
  ASSUME TypeOK, NEW t \in Threads
  PROVE  /\ StartFailure(t) => /\ thread'[t] = [Idle EXCEPT !.op = "fail", !.pc = "get"]
                               /\ thread[t] = Idle
                               /\ serial'.failure = serial.failure + 1
                               /\ serial'.call = serial.call
         /\ GetCount(t) => /\ thread[t].pc = "get" /\ thread'[t].pc = "set" /\ serial' = serial
                           /\ thread'[t].count = failed[ProcessOf[t]].count
                           /\ thread'[t].call = thread[t].call
         /\ SetCount(t) => /\ thread[t].pc = "set" /\ serial' = serial
                           /\ \/ thread'[t] = Idle
                              \/ /\ thread'[t].pc = "alert"
                                 /\ thread'[t].count = thread[t].count + 1
                                 /\ thread'[t].call = thread[t].call
         /\ RaiseAlert(t) => /\ thread[t].pc = "alert" /\ thread'[t] = Idle /\ serial' = serial
         /\ StartCall(t) => /\ thread'[t] = [Idle EXCEPT !.op = "call", !.pc = "get_history",
                                                         !.call = serial.call]
                            /\ thread[t] = Idle
                            /\ serial'.failure = serial.failure
                            /\ serial'.call = serial.call + 1
         /\ GetHistory(t) => /\ thread[t].pc = "get_history" /\ serial' = serial
                             /\ thread'[t].pc \in {"throttled", "set_history"}
                             /\ thread'[t].count = thread[t].count
                             /\ thread'[t].call = thread[t].call
         /\ SetHistory(t) => /\ thread[t].pc = "set_history" /\ serial' = serial
                             /\ thread'[t].pc = "view"
                             /\ thread'[t].count = thread[t].count
                             /\ thread'[t].call = thread[t].call
         /\ RecordThrottled(t) => /\ thread[t].pc = "throttled" /\ thread'[t] = Idle
                                  /\ serial' = serial
         /\ RefuseUnread(t) \/ RevokeAllKeys(t) => /\ thread[t].pc = "view" /\ thread'[t] = Idle
                                                   /\ serial' = serial
  <1> thread[t] \in ThreadState
    BY FieldTypes
  <1> USE DEF TypeOK, Finish, IsIdle, ThreadState
  <1>1. StartFailure(t) => /\ thread'[t] = [Idle EXCEPT !.op = "fail", !.pc = "get"]
                           /\ thread[t] = Idle
                           /\ serial'.failure = serial.failure + 1
                           /\ serial'.call = serial.call
    BY DEF StartFailure
  <1>2. GetCount(t) => /\ thread[t].pc = "get" /\ thread'[t].pc = "set" /\ serial' = serial
                       /\ thread'[t].count = failed[ProcessOf[t]].count
                       /\ thread'[t].call = thread[t].call
    BY DEF GetCount
  <1>3. SetCount(t) => /\ thread[t].pc = "set" /\ serial' = serial
                       /\ \/ thread'[t] = Idle
                          \/ /\ thread'[t].pc = "alert"
                             /\ thread'[t].count = thread[t].count + 1
                             /\ thread'[t].call = thread[t].call
    BY DEF SetCount
  <1>4. RaiseAlert(t) => /\ thread[t].pc = "alert" /\ thread'[t] = Idle /\ serial' = serial
    BY DEF RaiseAlert
  <1>5. StartCall(t) => /\ thread'[t] = [Idle EXCEPT !.op = "call", !.pc = "get_history",
                                                     !.call = serial.call]
                        /\ thread[t] = Idle
                        /\ serial'.failure = serial.failure
                        /\ serial'.call = serial.call + 1
    BY DEF StartCall
  <1>6. GetHistory(t) => /\ thread[t].pc = "get_history" /\ serial' = serial
                         /\ thread'[t].pc \in {"throttled", "set_history"}
                         /\ thread'[t].count = thread[t].count
                         /\ thread'[t].call = thread[t].call
    BY DEF GetHistory
  <1>7. SetHistory(t) => /\ thread[t].pc = "set_history" /\ serial' = serial
                         /\ thread'[t].pc = "view"
                         /\ thread'[t].count = thread[t].count
                         /\ thread'[t].call = thread[t].call
    BY DEF SetHistory
  <1>8. RecordThrottled(t) => /\ thread[t].pc = "throttled" /\ thread'[t] = Idle
                              /\ serial' = serial
    BY DEF RecordThrottled
  <1>9. RefuseUnread(t) \/ RevokeAllKeys(t) => /\ thread[t].pc = "view" /\ thread'[t] = Idle
                                              /\ serial' = serial
    BY DEF RefuseUnread, RevokeAllKeys
  <1>10. QED
    BY <1>1, <1>2, <1>3, <1>4, <1>5, <1>6, <1>7, <1>8, <1>9
-----------------------------------------------------------------------------
\* The failures that are counted are some of those there have been.
LEMMA CountsAhead ==
  ASSUME TypeOK, CountsBounded
  PROVE  /\ IsFiniteSet(Counting) /\ Cardinality(Counting) \in Nat
         /\ Counted \in Nat /\ Counted <= serial.failure
         /\ \A t \in Counting : Counted + 1 <= serial.failure
  <1>1. IsFiniteSet(Counting)
    BY ThreadsAssumption, FS_Subset, Counting \subseteq Threads DEF Counting
  <1>2. Cardinality(Counting) \in Nat /\ serial.failure \in Nat /\ Counted \in Nat
    BY <1>1, FieldTypes, FS_CardinalityType DEF CountsBounded, Counted
  <1>3. ASSUME NEW t \in Counting
        PROVE  Counted + 1 <= serial.failure
    <2>1. Cardinality({}) + 1 <= Cardinality(Counting)
      BY <1>1, Leaves
    <2>2. QED
      BY <1>2, <2>1, FS_EmptySet DEF Counted
  <1>4. QED
    BY <1>1, <1>2, <1>3 DEF Counted

\* A failure joins those that still have to be counted, or is counted and leaves them.
LEMMA CountedGrows ==
  ASSUME TypeOK, CountsBounded, [Next]_vars
  PROVE  /\ Counted \in Nat /\ Counted' \in Nat /\ Counted <= Counted'
         /\ \A t \in Threads : SetCount(t) => Counted + 1 <= Counted'
  <1>1. IsFiniteSet(Counting)
    BY CountsAhead
  <1>2. Cardinality(Counting) \in Nat /\ serial.failure \in Nat /\ Counted \in Nat
    BY CountsAhead, FieldTypes
  <1>4. ASSUME NEW t \in Threads, StartFailure(t)
        PROVE  Counted' \in Nat /\ Counted <= Counted'
    <2>1. Counting' \subseteq Counting \cup {t} /\ serial'.failure = serial.failure + 1
      BY <1>4, OtherThreads, Destinations DEF Step, Counting
    <2>2. Cardinality(Counting') \in Nat /\ Cardinality(Counting') <= Cardinality(Counting) + 1
      BY <1>1, <2>1, Joins
    <2>3. QED
      BY <1>2, <2>1, <2>2 DEF Counted
  <1>5. ASSUME NEW t \in Threads, SetCount(t)
        PROVE  Counted' \in Nat /\ Counted + 1 <= Counted'
    <2>1. t \in Counting /\ Counting' \subseteq Counting \ {t} /\ serial'.failure = serial.failure
      BY <1>5, OtherThreads, Destinations DEF Step, Counting, Idle
    <2>2. Cardinality(Counting') \in Nat /\ Cardinality(Counting') + 1 <= Cardinality(Counting)
      BY <1>1, <2>1, Leaves
    <2>3. QED
      BY <1>2, <2>1, <2>2 DEF Counted
  <1>6. ASSUME Counting' \subseteq Counting, serial'.failure = serial.failure
        PROVE  Counted' \in Nat /\ Counted <= Counted'
    <2>1. Cardinality(Counting') \in Nat /\ Cardinality(Counting') <= Cardinality(Counting)
      BY <1>1, <1>6, Stays
    <2>2. QED
      BY <1>2, <1>6, <2>1 DEF Counted
  <1>7. ASSUME NEW t \in Threads, Step(t), ~StartFailure(t), ~SetCount(t)
        PROVE  Counting' \subseteq Counting /\ serial'.failure = serial.failure
    <2>1. /\ serial'.failure = serial.failure
          /\ thread'[t].pc \in {"get", "set"} => thread[t].pc \in {"get", "set"}
      <3>1. CASE StartCall(t)
        BY <3>1, Destinations DEF Idle
      <3>2. CASE RaiseAlert(t) \/ RecordThrottled(t) \/ RefuseUnread(t) \/ RevokeAllKeys(t)
        BY <3>2, Destinations DEF Idle
      <3>3. CASE GetCount(t) \/ GetHistory(t) \/ SetHistory(t)
        BY <3>3, Destinations
      <3>4. QED
        BY <1>7, <3>1, <3>2, <3>3 DEF Step
    <2>2. QED
      BY <1>7, <2>1, OtherThreads DEF Counting
  <1>8. ASSUME NEW p \in Processes, Crash(p)
        PROVE  Counting' \subseteq Counting /\ serial'.failure = serial.failure
    BY <1>8 DEF Crash, Counting, Idle
  <1>9. ASSUME ~\E t \in Threads : StartFailure(t) \/ SetCount(t)
         PROVE  Counting' \subseteq Counting /\ serial'.failure = serial.failure
    <2>1. CASE Loses \/ UNCHANGED vars
      BY <2>1, CacheLoses DEF vars, Counting
    <2>2. CASE ~(Loses \/ UNCHANGED vars)
      BY <1>7, <1>8, <1>9, <2>2 DEF Next, Loses
    <2>3. QED
      BY <2>1, <2>2
  <1>10. Counted' \in Nat /\ Counted <= Counted'
    <2>1. CASE \E t \in Threads : StartFailure(t)
      BY <1>4, <2>1
    <2>2. CASE \E t \in Threads : SetCount(t)
      BY <1>2, <1>5, <2>2
    <2>3. CASE ~\E t \in Threads : StartFailure(t) \/ SetCount(t)
      BY <1>6, <1>9, <2>3
    <2>4. QED
      BY <2>1, <2>2, <2>3
  <1>11. QED
    BY <1>2, <1>5, <1>10
-----------------------------------------------------------------------------
LEMMA CountsInductive ==
  ASSUME TypeOK, CountsBounded, [Next]_vars
  PROVE  CountsBounded'
  <1>0. /\ \A p \in Processes : failed[p].count \in Nat /\ ghost.run[p] \in Nat
        /\ \A t \in Threads : thread[t].count \in Nat /\ ProcessOf[t] \in Processes
        /\ ghost \in GhostState /\ ghost.run \in [Processes -> 0..MaxFailures]
    BY FieldTypes, HistoryTypes
  <1>1. /\ Counted \in Nat /\ Counted' \in Nat /\ Counted <= Counted' /\ 0 <= Counted'
        /\ \A p \in Processes : /\ failed[p].count \in Nat /\ ghost.run[p] \in Nat
                               /\ failed[p].count <= Counted /\ ghost.run[p] <= Counted
                               /\ failed[p].count <= Counted' /\ ghost.run[p] <= Counted'
        /\ \A t \in Threads : /\ thread[t].count \in Nat
                             /\ thread[t].count <= Counted /\ thread[t].count <= Counted'
    BY <1>0, CountedGrows DEF CountsBounded
  <1> SUFFICES /\ \A p \in Processes : failed'[p].count <= Counted' /\ ghost'.run[p] <= Counted'
               /\ \A t \in Threads : thread'[t].count <= Counted'
    BY <1>1 DEF CountsBounded
  <1>2. ASSUME NEW t \in Threads, SetCount(t)
        PROVE  /\ \A p \in Processes : failed'[p].count <= Counted' /\ ghost'.run[p] <= Counted'
               /\ \A u \in Threads : thread'[u].count <= Counted'
    <2> DEFINE q == ProcessOf[t]
    <2>1. Counted + 1 <= Counted'
      BY <1>2, CountedGrows
    <2>2. \A p \in Processes : failed'[p].count <= Counted'
      <3>1. failed' = [failed EXCEPT ![q] =
                         [count |-> thread[t].count + 1, until |-> clock + Window]]
        BY <1>2 DEF SetCount
      <3>2. \A p \in Processes : failed'[p].count \in {failed[p].count, thread[t].count + 1}
        BY <3>1 DEF TypeOK
      <3>3. QED
        BY <1>1, <2>1, <3>2
    <2>3. \A p \in Processes : ghost'.run[p] <= Counted'
      <3>1. ghost' = [ghost EXCEPT !.run[q] = @ + 1]
        BY <1>2 DEF SetCount
      <3>2. ghost'.run = [ghost.run EXCEPT ![q] = @ + 1]
        BY <1>0, <3>1 DEF GhostState
      <3>3. QED
        BY <1>0, <1>1, <2>1, <3>2
    <2>4. \A u \in Threads : thread'[u].count <= Counted'
      <3>1. thread'[t] = Idle \/ thread'[t].count = thread[t].count + 1
        BY <1>2, Destinations
      <3>2. thread'[t].count <= Counted'
        BY <1>1, <2>1, <3>1 DEF Idle
      <3>3. QED
        BY <1>1, <1>2, <3>2, OtherThreads DEF Step
    <2>5. QED
      BY <2>2, <2>3, <2>4
  <1>3. ASSUME NEW t \in Threads, Step(t), ~SetCount(t)
        PROVE  /\ \A p \in Processes : failed'[p].count <= Counted' /\ ghost'.run[p] <= Counted'
               /\ \A u \in Threads : thread'[u].count <= Counted'
    <2>1. failed' = failed /\ ghost'.run = ghost.run
      BY <1>0, <1>3 DEF Step, StartFailure, GetCount, RaiseAlert, StartCall, GetHistory, SetHistory,
                  RecordThrottled, RefuseUnread, RevokeAllKeys, GhostState
    <2>2. thread'[t].count <= Counted'
      <3>1. CASE GetCount(t) \/ GetHistory(t) \/ SetHistory(t)
        BY <1>0, <1>1, <3>1, Destinations
      <3>2. CASE StartFailure(t) \/ RaiseAlert(t) \/ StartCall(t) \/ RecordThrottled(t)
                   \/ RefuseUnread(t) \/ RevokeAllKeys(t)
        <4>1. CASE StartFailure(t)
          <5>1. thread'[t] = [Idle EXCEPT !.op = "fail", !.pc = "get"]
            BY <4>1, Destinations
          <5>2. QED
            BY <1>1, <5>1 DEF Idle
        <4>2. CASE StartCall(t)
          <5>1. thread'[t] = [Idle EXCEPT !.op = "call", !.pc = "get_history",
                                          !.call = serial.call]
            BY <4>2, Destinations
          <5>2. QED
            BY <1>1, <5>1 DEF Idle
        <4>3. CASE RaiseAlert(t) \/ RecordThrottled(t) \/ RefuseUnread(t) \/ RevokeAllKeys(t)
          BY <1>1, <4>3, Destinations DEF Idle
        <4>4. QED
          BY <3>2, <4>1, <4>2, <4>3
      <3>3. QED
        BY <1>3, <3>1, <3>2 DEF Step
    <2>3. QED
      BY <1>1, <1>3, <2>1, <2>2, OtherThreads
  <1>4. ASSUME NEW q \in Processes, Crash(q)
        PROVE  /\ \A p \in Processes : failed'[p].count <= Counted' /\ ghost'.run[p] <= Counted'
               /\ \A u \in Threads : thread'[u].count <= Counted'
    <2>1. failed' = [failed EXCEPT ![q] = NoCounter] /\ ghost'.run = [ghost.run EXCEPT ![q] = 0]
      BY <1>0, <1>4 DEF Crash, GhostState
    <2>2. thread' = [t \in Threads |-> IF ProcessOf[t] = q THEN Idle ELSE thread[t]]
      BY <1>4 DEF Crash
    <2>3. QED
      BY <1>0, <1>1, <2>1, <2>2 DEF NoCounter, Idle, TypeOK
  <1>5. ASSUME Loses
        PROVE  /\ \A p \in Processes : failed'[p].count <= Counted' /\ ghost'.run[p] <= Counted'
               /\ \A u \in Threads : thread'[u].count <= Counted'
    <2>1. thread' = thread
      BY <1>5, CacheLoses
    <2>2. \A p \in Processes : failed'[p].count \in {failed[p].count, 0}
                              /\ ghost'.run[p] \in {ghost.run[p], 0}
      <3>1. CASE \E S \in SUBSET Processes : DropCounters(S)
        BY <3>1, Drops DEF NoCounter
      <3>2. CASE failed' = failed /\ ghost'.run = ghost.run
        BY <3>2
      <3>3. QED
        BY <1>5, <3>1, <3>2, CacheLoses
    <2>3. QED
      BY <1>1, <2>1, <2>2
  <1>6. CASE UNCHANGED vars
    BY <1>1, <1>6 DEF vars
  <1>7. QED
    BY <1>2, <1>3, <1>4, <1>5, <1>6 DEF Next, Loses

\* What types need to know of the counts.
LEMMA RoomToCount ==
  ASSUME TypeOK, CountsBounded, NEW t \in Threads, thread[t].pc = "set"
  PROVE  /\ thread[t].count + 1 \in 0..MaxFailures
         /\ \A p \in Processes : ghost.run[p] + 1 \in 0..MaxFailures
  <1>1. /\ Counted \in Nat /\ Counted + 1 <= serial.failure
        /\ \A p \in Processes : ghost.run[p] <= Counted
        /\ thread[t].count <= Counted
    BY CountsAhead DEF CountsBounded, Counting
  <1>2. /\ serial.failure \in Nat /\ serial.failure <= MaxFailures /\ thread[t].count \in Nat
        /\ \A p \in Processes : ghost.run[p] \in Nat
    BY FieldTypes, HistoryTypes
  <1>3. QED
    BY <1>1, <1>2, BoundsAssumption
-----------------------------------------------------------------------------
\* Threads that keep their calls or give them up, and rows for a call that is given up.
LEMMA CallsStay ==
  ASSUME TypeOK, CallsKnown, serial'.call = serial.call,
         \A u \in Threads : \/ thread'[u] = Idle
                            \/ /\ thread'[u].call = thread[u].call
                               /\ InCall(u)' <=> InCall(u),
         NEW t \in Threads,
         audit' # audit \/ carried' # carried => InCall(t) /\ thread'[t] = Idle,
         \A a \in audit' : a \in audit \/ a.call = thread[t].call,
         \A c \in carried' : c \in carried \/ c = thread[t].call
  PROVE  CallsKnown'
  <1> DEFINE Call(u) == thread[u].call
  <1>1. \A u \in Threads : /\ Call(u) \in Nat /\ Call(u) < serial.call
                           /\ InCall(u) <=> Call(u) # 0
    BY FieldTypes DEF CallsKnown, Calls
  <1>2. \A u \in Threads : \/ Call(u)' = 0 /\ ~InCall(u)'
                           \/ Call(u)' = Call(u) /\ (InCall(u)' <=> InCall(u))
    BY DEF Idle, InCall
  <1>3. serial.call \in Nat /\ serial.call > 0 /\ serial'.call = serial.call
    BY FieldTypes
  <1>4. \A u \in Threads :
          /\ InCall(u)' <=> Call(u)' # 0
          /\ Call(u)' < serial'.call
          /\ \A v \in Threads : v # u /\ InCall(u)' => Call(v)' # Call(u)'
    BY <1>1, <1>2, <1>3 DEF CallsKnown
  <1>5. \A u \in Threads : InCall(u)' =>
          Call(u)' \notin carried' /\ \A a \in audit' : a.call # Call(u)'
    <2>1. ASSUME NEW u \in Threads, InCall(u)'
          PROVE  Call(u)' \notin carried' /\ \A a \in audit' : a.call # Call(u)'
      <3>1. InCall(u) /\ Call(u)' = Call(u)
        BY <1>1, <1>2, <2>1
      <3>2. Call(u) \notin carried /\ \A a \in audit : a.call # Call(u)
        BY <3>1 DEF CallsKnown
      <3>3. CASE audit' = audit /\ carried' = carried
        BY <3>1, <3>2, <3>3
      <3>4. CASE audit' # audit \/ carried' # carried
        <4>1. u # t /\ Call(u) # Call(t)
          BY <2>1, <3>1, <3>4 DEF CallsKnown, InCall, Idle
        <4>2. QED
          BY <3>1, <3>2, <4>1
      <3>5. QED
        BY <3>3, <3>4
    <2>2. QED
      BY <2>1
  <1>6. (\A a \in audit' : a.call < serial'.call) /\ \A c \in carried' : c < serial'.call
    BY <1>1, <1>3 DEF CallsKnown
  <1>7. QED
    BY <1>4, <1>5, <1>6 DEF CallsKnown

LEMMA CallsInductive ==
  ASSUME TypeOK, CallsKnown, [Next]_vars
  PROVE  CallsKnown'
  <1>1. ASSUME NEW t \in Threads, StartCall(t)
        PROVE  CallsKnown'
    <2>1. /\ thread'[t] = [Idle EXCEPT !.op = "call", !.pc = "get_history", !.call = serial.call]
          /\ serial'.call = serial.call + 1
          /\ \A u \in Threads : u # t => thread'[u] = thread[u]
      BY <1>1, Destinations, OtherThreads DEF Step
    <2>2. audit' = audit /\ carried' = carried
      BY <1>1 DEF StartCall
    <2>3. thread'[t].call = serial.call /\ thread'[t].pc = "get_history"
      BY <2>1 DEF Idle
    <2>4. /\ serial.call \in Nat /\ serial.call > 0
          /\ \A u \in Threads : thread[u].call \in Nat /\ thread[u].call < serial.call
      BY FieldTypes DEF CallsKnown, Calls
    <2>5. \A u \in Threads :
            /\ InCall(u)' <=> thread'[u].call # 0
            /\ thread'[u].call < serial'.call
            /\ \A v \in Threads : v # u /\ InCall(u)' => thread'[v].call # thread'[u].call
      <3>1. /\ InCall(t)' /\ thread'[t].call # 0 /\ thread'[t].call < serial'.call
            /\ \A v \in Threads : v # t => thread'[v].call # thread'[t].call
        BY <2>1, <2>3, <2>4 DEF InCall
      <3>2. ASSUME NEW u \in Threads, u # t
            PROVE  /\ InCall(u)' <=> thread'[u].call # 0
                   /\ thread'[u].call < serial'.call
                   /\ \A v \in Threads : v # u /\ InCall(u)' => thread'[v].call # thread'[u].call
        <4>1. thread'[u] = thread[u] /\ (InCall(u)' <=> InCall(u))
          BY <2>1, <3>2 DEF InCall
        <4>2. (InCall(u) <=> thread[u].call # 0) /\ thread[u].call < serial'.call
          BY <2>1, <2>4 DEF CallsKnown
        <4>3. ASSUME NEW v \in Threads, v # u, InCall(u)
              PROVE  thread'[v].call # thread'[u].call
          BY <2>1, <3>1, <3>2, <4>1, <4>3 DEF CallsKnown
        <4>4. QED
          BY <4>1, <4>2, <4>3
      <3>3. QED
        BY <3>1, <3>2
    <2>6. \A u \in Threads : InCall(u)' =>
            thread'[u].call \notin carried' /\ \A a \in audit' : a.call # thread'[u].call
      <3>1. serial.call \notin carried /\ \A a \in audit : a.call # serial.call
        BY <2>4 DEF CallsKnown
      <3>2. ASSUME NEW u \in Threads, u # t, InCall(u)'
            PROVE  thread'[u].call \notin carried' /\ \A a \in audit' : a.call # thread'[u].call
        BY <2>1, <2>2, <3>2 DEF CallsKnown, InCall
      <3>3. QED
        BY <2>2, <2>3, <3>1, <3>2
    <2>7. (\A a \in audit' : a.call < serial'.call) /\ \A c \in carried' : c < serial'.call
      <3>1. \A a \in audit : a.call \in Nat
        BY DEF TypeOK, Calls
      <3>2. \A c \in carried : c \in Nat
        BY DEF TypeOK, Calls
      <3>3. QED
        BY <2>1, <2>2, <2>4, <3>1, <3>2 DEF CallsKnown
    <2>8. QED
      BY <2>5, <2>6, <2>7 DEF CallsKnown
  <1>2. ASSUME NEW t \in Threads,
               StartFailure(t) \/ GetCount(t) \/ SetCount(t) \/ RaiseAlert(t) \/ GetHistory(t)
                 \/ SetHistory(t)
        PROVE  CallsKnown'
    <2>1. audit' = audit /\ carried' = carried
      BY <1>2 DEF StartFailure, GetCount, SetCount, RaiseAlert, GetHistory, SetHistory
    <2>2. serial'.call = serial.call /\ \A u \in Threads : u # t => thread'[u] = thread[u]
      BY <1>2, Destinations, OtherThreads DEF Step
    <2>3. \/ thread'[t] = Idle
          \/ thread'[t].call = thread[t].call /\ (InCall(t)' <=> InCall(t))
      <3>1. CASE StartFailure(t)
        <4>1. thread'[t] = [Idle EXCEPT !.op = "fail", !.pc = "get"] /\ thread[t] = Idle
          BY <3>1, Destinations
        <4>2. QED
          BY <4>1 DEF Idle, InCall
      <3>2. CASE GetCount(t) \/ SetCount(t) \/ RaiseAlert(t) \/ GetHistory(t) \/ SetHistory(t)
        BY <3>2, Destinations DEF InCall
      <3>3. QED
        BY <1>2, <3>1, <3>2
    <2>4. \A u \in Threads : \/ thread'[u] = Idle
                             \/ thread'[u].call = thread[u].call /\ (InCall(u)' <=> InCall(u))
      BY <2>2, <2>3 DEF InCall
    <2>5. QED
      BY <2>1, <2>2, <2>4, CallsStay
  <1>3. ASSUME NEW t \in Threads, RecordThrottled(t) \/ RefuseUnread(t) \/ RevokeAllKeys(t)
        PROVE  CallsKnown'
    <2>1. /\ thread'[t] = Idle /\ InCall(t) /\ serial'.call = serial.call
          /\ \A u \in Threads : u # t => thread'[u] = thread[u]
      BY <1>3, Destinations, OtherThreads DEF Step, InCall
    <2>2. /\ \A a \in audit' : a \in audit \/ a.call = thread[t].call
          /\ \A c \in carried' : c \in carried \/ c = thread[t].call
      BY <1>3 DEF RecordThrottled, RefuseUnread, RevokeAllKeys
    <2>3. \A u \in Threads : \/ thread'[u] = Idle
                             \/ thread'[u].call = thread[u].call /\ (InCall(u)' <=> InCall(u))
      BY <2>1 DEF InCall
    <2>4. QED
      BY <2>1, <2>2, <2>3, CallsStay
  <1>4. ASSUME serial'.call = serial.call, audit' = audit, carried' = carried,
               \A u \in Threads : thread'[u] = Idle \/ thread'[u] = thread[u]
        PROVE  CallsKnown'
    <2>1. \A u \in Threads : \/ thread'[u] = Idle
                             \/ thread'[u].call = thread[u].call /\ (InCall(u)' <=> InCall(u))
      BY <1>4 DEF InCall
    <2>2. CASE Threads = {}
      <3>1. /\ serial'.call = serial.call /\ serial.call \in Nat
            /\ (\A a \in audit : a.call < serial.call) /\ \A c \in carried : c < serial.call
        BY <1>4, FieldTypes DEF CallsKnown
      <3>2. QED
        BY <1>4, <2>2, <3>1 DEF CallsKnown
    <2>3. CASE Threads # {}
      <3>1. PICK t \in Threads : TRUE
        BY <2>3
      <3>2. QED
        BY <1>4, <2>1, <3>1, CallsStay
    <2>4. QED
      BY <2>2, <2>3
  <1>5. ASSUME NEW p \in Processes, Crash(p)
        PROVE  CallsKnown'
    <2>1. \A u \in Threads : thread'[u] = Idle \/ thread'[u] = thread[u]
      BY <1>5 DEF Crash
    <2>2. QED
      BY <1>4, <1>5, <2>1 DEF Crash
  <1>6. CASE Loses \/ UNCHANGED vars
    BY <1>4, <1>6, CacheLoses DEF vars
  <1>7. QED
    BY <1>1, <1>2, <1>3, <1>5, <1>6 DEF Next, Step, Loses

\* A history that was found short enough stays so until it is written back.
LEMMA HistoriesInductive ==
  ASSUME TypeOK, HistoriesShort, [Next]_vars
  PROVE  HistoriesShort'
  <1>1. ASSUME NEW t \in Threads, GetHistory(t)
        PROVE  thread'[t].pc = "set_history" => Len(thread'[t].history) < Rate
    <2>1. /\ thread'[t].history = Recent(history[ProcessOf[t]])
          /\ thread'[t].pc = "set_history" => ~(Len(Recent(history[ProcessOf[t]])) >= Rate)
      BY <1>1, FieldTypes DEF GetHistory, TypeOK, ThreadState
    <2>2. Len(Recent(history[ProcessOf[t]])) \in Nat
      BY FieldTypes, RecentKeeps
    <2>3. QED
      BY <2>1, <2>2, LimitAssumption
  <1>2. ASSUME NEW t \in Threads, Step(t)
        PROVE  HistoriesShort'
    <2>1. thread'[t].pc = "set_history" => Len(thread'[t].history) < Rate
      <3>1. CASE GetHistory(t)
        BY <1>1, <3>1
      <3>2. CASE SetHistory(t) \/ GetCount(t) \/ RaiseAlert(t) \/ RecordThrottled(t)
                   \/ RefuseUnread(t) \/ RevokeAllKeys(t) \/ SetCount(t)
        BY <3>2, Destinations DEF Idle
      <3>3. CASE StartFailure(t)
        <4>1. thread'[t] = [Idle EXCEPT !.op = "fail", !.pc = "get"]
          BY <3>3, Destinations
        <4>2. QED
          BY <4>1 DEF Idle
      <3>4. CASE StartCall(t)
        <4>1. thread'[t] = [Idle EXCEPT !.op = "call", !.pc = "get_history",
                                        !.call = serial.call]
          BY <3>4, Destinations
        <4>2. QED
          BY <4>1 DEF Idle
      <3>5. QED
        BY <1>2, <3>1, <3>2, <3>3, <3>4 DEF Step
    <2>2. QED
      BY <1>2, <2>1, OtherThreads DEF HistoriesShort
  <1>3. ASSUME NEW p \in Processes, Crash(p)
        PROVE  HistoriesShort'
    BY <1>3 DEF Crash, HistoriesShort, Idle
  <1>4. CASE Loses \/ UNCHANGED vars
    BY <1>4, CacheLoses DEF vars, HistoriesShort
  <1>5. QED
    BY <1>2, <1>3, <1>4 DEF Next, Loses
-----------------------------------------------------------------------------
\* Every step keeps the types.
LEMMA FailuresTyped ==
  ASSUME TypeInvariant, NEW t \in Threads,
         StartFailure(t) \/ GetCount(t) \/ SetCount(t) \/ RaiseAlert(t)
  PROVE  TypeOK'
  <1> TypeOK /\ CountsBounded
    BY DEF TypeInvariant
  <1> DEFINE p == ProcessOf[t]
  <1>0. thread[t] \in ThreadState /\ p \in Processes
    BY FieldTypes
  <1>1. ASSUME StartFailure(t)
        PROVE  TypeOK'
    <2>1. [Idle EXCEPT !.op = "fail", !.pc = "get"] \in ThreadState
      BY FieldTypes DEF ThreadState, OpNames, Pcs
    <2>2. thread' \in [Threads -> ThreadState]
      BY <1>1, <2>1 DEF StartFailure, TypeOK
    <2>3. serial' \in [call: 1..(MaxCalls + 1), failure: 0..MaxFailures]
      <3>1. serial.failure + 1 \in 0..MaxFailures
        BY <1>1, FieldTypes, BoundsAssumption DEF StartFailure
      <3>2. QED
        BY <1>1, <3>1 DEF StartFailure, TypeOK
    <2>4. QED
      BY <1>1, <2>2, <2>3 DEF StartFailure, TypeOK
  <1>2. ASSUME GetCount(t)
        PROVE  TypeOK'
    <2>1. [thread[t] EXCEPT !.count = failed[p].count, !.pc = "set"] \in ThreadState
      BY <1>0, FieldTypes DEF ThreadState, Pcs
    <2>2. thread' \in [Threads -> ThreadState]
      BY <1>2, <2>1 DEF GetCount, TypeOK
    <2>3. ghost' \in GhostState
      BY <1>0, <1>2, HistoryTypes DEF GetCount, GhostState
    <2>4. QED
      BY <1>2, <2>2, <2>3 DEF GetCount, TypeOK
  <1>3. ASSUME SetCount(t)
        PROVE  TypeOK'
    <2> DEFINE count == thread[t].count + 1
    <2>1. count \in 0..MaxFailures /\ \A q \in Processes : ghost.run[q] + 1 \in 0..MaxFailures
      BY <1>3, RoomToCount DEF SetCount
    <2>2. failed' \in [Processes -> Counter]
      <3>1. clock + Window \in Nat
        BY FieldTypes, TimeAssumption
      <3>2. [count |-> count, until |-> clock + Window] \in Counter
        BY <2>1, <3>1 DEF Counter
      <3>3. QED
        BY <1>3, <3>2 DEF SetCount, TypeOK
    <2>3. thread' \in [Threads -> ThreadState]
      <3>1. [thread[t] EXCEPT !.count = count, !.pc = "alert"] \in ThreadState
        BY <1>0, <2>1 DEF ThreadState, Pcs
      <3>2. QED
        BY <1>3, <3>1, ThreadMoves DEF SetCount, TypeOK
    <2>4. ghost' \in GhostState
      <3>1. ghost' = [ghost EXCEPT !.run[p] = @ + 1]
        BY <1>3 DEF SetCount
      <3>2. [ghost.run EXCEPT ![p] = @ + 1] \in [Processes -> 0..MaxFailures]
        BY <2>1, HistoryTypes
      <3>3. QED
        BY <3>1, <3>2, HistoryTypes DEF GhostState
    <2>5. QED
      BY <1>3, <2>2, <2>3, <2>4 DEF SetCount, TypeOK
  <1>4. ASSUME RaiseAlert(t)
        PROVE  TypeOK'
    <2>1. alerts' \in Nat
      BY <1>4 DEF RaiseAlert, TypeOK
    <2>2. ghost' \in GhostState
      BY <1>4, HistoryTypes DEF RaiseAlert, GhostState
    <2>3. QED
      BY <1>4, <2>1, <2>2, ThreadMoves DEF RaiseAlert, TypeOK
  <1>5. QED
    BY <1>1, <1>2, <1>3, <1>4

LEMMA CallsTyped ==
  ASSUME TypeInvariant, NEW t \in Threads, StartCall(t) \/ GetHistory(t) \/ SetHistory(t)
  PROVE  TypeOK'
  <1> TypeOK /\ CallsKnown /\ HistoriesShort
    BY DEF TypeInvariant
  <1> DEFINE p == ProcessOf[t]
  <1>0. thread[t] \in ThreadState /\ p \in Processes
    BY FieldTypes
  <1>1. ASSUME StartCall(t)
        PROVE  TypeOK'
    <2>1. serial.call \in Calls /\ serial.call + 1 \in 1..(MaxCalls + 1)
      BY <1>1, FieldTypes, BoundsAssumption DEF StartCall, Calls
    <2>2. [Idle EXCEPT !.op = "call", !.pc = "get_history", !.call = serial.call] \in ThreadState
      BY <2>1, FieldTypes DEF ThreadState, OpNames, Pcs
    <2>3. QED
      BY <1>1, <2>1, <2>2 DEF StartCall, TypeOK
  <1>2. ASSUME GetHistory(t)
        PROVE  TypeOK'
    <2> DEFINE recent == Recent(history[p])
    <2>1. recent \in Seq(Time)
      BY FieldTypes, RecentKeeps
    <2>2. \E pc \in {"throttled", "set_history"} :
            thread' = [thread EXCEPT ![t].history = recent, ![t].now = clock, ![t].pc = pc]
      BY <1>2 DEF GetHistory
    <2>3. \A pc \in {"throttled", "set_history"} :
            [thread[t] EXCEPT !.history = recent, !.now = clock, !.pc = pc] \in ThreadState
      <3> HIDE DEF recent
      <3>1. QED
        BY <1>0, <2>1, FieldTypes DEF ThreadState, Pcs
    <2>4. thread' \in [Threads -> ThreadState]
      <3> HIDE DEF recent
      <3>1. QED
        BY <2>2, <2>3, ZenonT(40) DEF TypeOK
    <2>5. ghost' \in GhostState
      BY <1>0, <1>2, HistoryTypes DEF GetHistory, GhostState
    <2>6. QED
      BY <1>2, <2>4, <2>5 DEF GetHistory, TypeOK
  <1>3. ASSUME SetHistory(t)
        PROVE  TypeOK'
    <2> DEFINE h == <<thread[t].now>> \o thread[t].history
    <2>1. h \in Seq(Time) /\ Len(h) <= Rate
      <3>1. <<thread[t].now>> \in Seq(Time) /\ Len(<<thread[t].now>>) = 1
        BY FieldTypes
      <3>2. /\ thread[t].history \in Seq(Time) /\ Len(thread[t].history) < Rate
            /\ Len(thread[t].history) \in Nat
        BY <1>3, FieldTypes, LenProperties DEF SetHistory, HistoriesShort
      <3>3. QED
        BY <3>1, <3>2, ConcatProperties, LimitAssumption
    <2>2. history' = [history EXCEPT ![p] = h]
      BY <1>3 DEF SetHistory
    <2>3. history' \in [Processes -> Seq(Time)] /\ \A q \in Processes : Len(history'[q]) <= Rate
      <3> HIDE DEF h
      <3>1. QED
        BY <2>1, <2>2 DEF TypeOK
    <2>4. thread' \in [Threads -> ThreadState]
      <3>1. <<>> \in Seq(Time) /\ 0 \in Time
        BY BoundsAssumption, EmptySeq DEF Time
      <3>2. [thread[t] EXCEPT !.history = <<>>, !.now = 0, !.pc = "view"] \in ThreadState
        BY <1>0, <3>1 DEF ThreadState, Pcs
      <3>3. QED
        BY <1>3, <3>2 DEF SetHistory, TypeOK
    <2>5. ghost' \in GhostState
      <3>1. <<thread[t].call, thread[t].now>> \in Calls \X Time
        BY <1>3, FieldTypes DEF SetHistory, CallsKnown, InCall
      <3>2. ghost' = [ghost EXCEPT !.let[p] = @ \cup {<<thread[t].call, thread[t].now>>}]
        BY <1>3 DEF SetHistory
      <3>3. [ghost.let EXCEPT ![p] = @ \cup {<<thread[t].call, thread[t].now>>}]
              \in [Processes -> SUBSET (Calls \X Time)]
        BY <1>0, <3>1, HistoryTypes
      <3>4. QED
        BY <3>2, <3>3, HistoryTypes DEF GhostState
    <2>6. QED
      BY <1>3, <2>3, <2>4, <2>5 DEF SetHistory, TypeOK
  <1>4. QED
    BY <1>1, <1>2, <1>3

LEMMA RecordsTyped ==
  ASSUME TypeInvariant, NEW t \in Threads, RecordThrottled(t) \/ RefuseUnread(t) \/ RevokeAllKeys(t)
  PROVE  TypeOK'
  <1> TypeOK /\ CallsKnown
    BY DEF TypeInvariant
  <1> DEFINE c == thread[t].call
  <1>1. InCall(t) /\ c \in Calls
    BY Destinations, FieldTypes DEF InCall, CallsKnown
  <1>2. \A a \in audit : a.call # c
    BY <1>1 DEF CallsKnown
  <1>3. /\ audit' = audit \/ \E o \in Outcomes : audit' = audit \cup {[call |-> c, outcome |-> o]}
        /\ carried' \subseteq carried \cup {c}
        /\ \/ ghost' = ghost
           \/ ghost' = [ghost EXCEPT !.lost = @ \cup {c}]
           \/ ghost' = [ghost EXCEPT !.unread = @ \cup {c}]
    BY DEF RecordThrottled, RefuseUnread, RevokeAllKeys, Outcomes
  <1>4. audit' \subseteq [call: Calls, outcome: Outcomes] /\ carried' \subseteq Calls
    BY <1>1, <1>3 DEF TypeOK
  <1>5. \A a, b \in audit' : a.call = b.call => a = b
    BY <1>2, <1>3 DEF TypeOK
  <1>6. ghost' \in GhostState
    BY <1>1, <1>3, HistoryTypes DEF GhostState
  <1>7. thread' \in [Threads -> ThreadState]
    BY ThreadMoves DEF RecordThrottled, RefuseUnread, RevokeAllKeys
  <1>8. UNCHANGED <<clock, failed, history, alerts, serial>>
    BY DEF RecordThrottled, RefuseUnread, RevokeAllKeys
  <1>9. QED
    BY <1>4, <1>5, <1>6, <1>7, <1>8 DEF TypeOK

LEMMA CrashTyped ==
  ASSUME TypeOK, NEW p \in Processes, Crash(p)
  PROVE  TypeOK'
  <1>1. failed' \in [Processes -> Counter]
    BY FieldTypes DEF Crash, TypeOK
  <1>2. history' \in [Processes -> Seq(Time)] /\ \A q \in Processes : Len(history'[q]) <= Rate
    <2>1. history' = [history EXCEPT ![p] = <<>>] /\ <<>> \in Seq(Time) /\ Len(<<>>) = 0
      BY EmptySeq DEF Crash
    <2>2. QED
      BY <2>1, LimitAssumption DEF TypeOK
  <1>3. thread' \in [Threads -> ThreadState]
    BY FieldTypes DEF Crash
  <1>4. ghost' \in GhostState
    <2> DEFINE calls == {thread[t].call : t \in {u \in Threads : ProcessOf[u] = p}} \ {0}
    <2>1. calls \subseteq Calls
      BY FieldTypes
    <2>2. ghost' = [ghost EXCEPT
            !.run[p] = 0, !.raised[p] = FALSE, !.mixed = @ \ {p}, !.lapsed = @ \ {p},
            !.let[p] = {}, !.crowded = @ \ {p}, !.lost = @ \cup calls]
      BY DEF Crash
    <2> HIDE DEF calls
    <2>3. 0 \in 0..MaxFailures
      BY BoundsAssumption
    <2>4. QED
      BY <2>1, <2>2, <2>3, HistoryTypes DEF GhostState
  <1>5. QED
    BY <1>1, <1>2, <1>3, <1>4 DEF Crash, TypeOK

LEMMA LosesTyped ==
  ASSUME TypeOK, Loses
  PROVE  TypeOK'
  <1>1. /\ UNCHANGED <<alerts, audit, carried, serial, thread>>
        /\ clock' \in Time /\ ghost' \in GhostState
    BY CacheLoses
  <1>2. failed' \in [Processes -> Counter]
    BY CacheLoses, Drops DEF TypeOK
  <1>3. history' \in [Processes -> Seq(Time)] /\ \A p \in Processes : Len(history'[p]) <= Rate
    <2>1. CASE history' = history
      BY <2>1 DEF TypeOK
    <2>2. ASSUME NEW p \in Processes, history' = [history EXCEPT ![p] = <<>>]
          PROVE  /\ history' \in [Processes -> Seq(Time)]
                 /\ \A q \in Processes : Len(history'[q]) <= Rate
      BY <2>2, EmptySeq, LimitAssumption DEF TypeOK
    <2>3. QED
      BY <2>1, <2>2, CacheLoses
  <1>4. QED
    BY <1>1, <1>2, <1>3 DEF TypeOK

LEMMA TypeInvariantAlways == Spec => []TypeInvariant
  <1>1. Init => TypeInvariant
    <2> SUFFICES ASSUME Init
                 PROVE  TypeInvariant
      OBVIOUS
    <2>1. TypeOK
      <3>1. <<>> \in Seq(Time) /\ Len(<<>>) = 0 /\ 0 \in Time
        BY EmptySeq, BoundsAssumption DEF Time
      <3>2. NoCounter \in Counter
        BY BoundsAssumption DEF NoCounter, Counter
      <3>3. Idle \in ThreadState
        BY <3>1, BoundsAssumption DEF Idle, ThreadState, OpNames, Pcs
      <3>4. ghost \in GhostState
        BY BoundsAssumption DEF Init, GhostState
      <3>5. serial \in [call: 1..(MaxCalls + 1), failure: 0..MaxFailures]
        BY BoundsAssumption DEF Init
      <3>6. \A p \in Processes : Len(history[p]) <= Rate
        BY <3>1, LimitAssumption DEF Init
      <3>7. QED
        BY <3>1, <3>2, <3>3, <3>4, <3>5, <3>6 DEF Init, TypeOK
    <2>2. CountsBounded
      <3>1. Counting = {} /\ Cardinality({}) = 0
        BY FS_EmptySet DEF Init, Counting, Idle
      <3>2. Counted = 0
        BY <3>1 DEF Init, Counted
      <3>3. QED
        BY <3>2 DEF Init, CountsBounded, NoCounter, Idle
    <2>3. CallsKnown /\ HistoriesShort
      BY DEF Init, CallsKnown, HistoriesShort, InCall, Idle
    <2>4. QED
      BY <2>1, <2>2, <2>3 DEF TypeInvariant
  <1>2. TypeInvariant /\ [Next]_vars => TypeInvariant'
    <2> SUFFICES ASSUME TypeInvariant, [Next]_vars
                 PROVE  TypeInvariant'
      OBVIOUS
    <2> USE DEF TypeInvariant
    <2>1. TypeOK'
      <3>1. CASE UNCHANGED vars
        BY <3>1 DEF TypeOK, vars
      <3>2. CASE Next
        BY <3>2, FailuresTyped, CallsTyped, RecordsTyped, CrashTyped, LosesTyped
           DEF Next, Step, Loses
      <3>3. QED
        BY <3>1, <3>2
    <2>2. QED
      BY <2>1, CountsInductive, CallsInductive, HistoriesInductive
  <1>3. QED
    BY <1>1, <1>2, PTL DEF Spec

\* Every variable keeps its type; a call has one row at most; no count passes the
\* failures there have been, and no history the rate.
THEOREM CountersTypeCorrect == Spec => []TypeOK
  <1>1. TypeInvariant => TypeOK
    BY DEF TypeInvariant
  <1>2. QED
    BY <1>1, TypeInvariantAlways, PTL
-----------------------------------------------------------------------------
\* A call goes on until it is recorded, or is given up with its thread.
LEMMA RecordsInductive ==
  ASSUME TypeInvariant, CallsRecorded, [Next]_vars
  PROVE  CallsRecorded'
  <1> TypeOK /\ CallsKnown
    BY DEF TypeInvariant
  <1> DEFINE Told(c) == \/ \E a \in audit : a.call = c
                        \/ \E t \in Threads : thread[t].call = c
                        \/ c \in ghost.lost
                        \/ c \in ghost.unread
  <1>0. /\ \A c \in Calls : c \in carried <=> [call |-> c, outcome |-> "success"] \in audit
        /\ \A c \in 1..(serial.call - 1) : Told(c)
    BY DEF CallsRecorded, Accounted
  <1> SUFFICES /\ \A c \in Calls :
                    c \in carried' <=> [call |-> c, outcome |-> "success"] \in audit'
               /\ \A c \in 1..(serial'.call - 1) : Told(c)'
    BY DEF CallsRecorded, Accounted
  <1>1. ASSUME NEW t \in Threads, StartCall(t)
        PROVE  /\ \A c \in Calls :
                    c \in carried' <=> [call |-> c, outcome |-> "success"] \in audit'
               /\ \A c \in 1..(serial'.call - 1) : Told(c)'
    <2>1. audit' = audit /\ carried' = carried /\ ghost' = ghost
      BY <1>1 DEF StartCall
    <2>2. /\ thread'[t] = [Idle EXCEPT !.op = "call", !.pc = "get_history", !.call = serial.call]
          /\ thread[t] = Idle /\ serial'.call = serial.call + 1
          /\ \A u \in Threads : u # t => thread'[u] = thread[u]
      BY <1>1, Destinations, OtherThreads DEF Step
    <2>3. thread'[t].call = serial.call /\ thread[t].call = 0
      BY <2>2 DEF Idle
    <2>4. \A c \in 1..(serial'.call - 1) : c = serial.call \/ c \in 1..(serial.call - 1)
      BY <2>2, FieldTypes
    <2>5. ASSUME NEW c \in 1..(serial.call - 1)
          PROVE  Told(c)'
      <3>1. Told(c) /\ c # 0
        BY <1>0
      <3>2. QED
        BY <2>1, <2>2, <2>3, <3>1
    <2>6. QED
      BY <1>0, <2>1, <2>3, <2>4, <2>5
  <1>2. ASSUME NEW t \in Threads,
               StartFailure(t) \/ GetCount(t) \/ SetCount(t) \/ RaiseAlert(t) \/ GetHistory(t)
                 \/ SetHistory(t)
        PROVE  /\ \A c \in Calls :
                    c \in carried' <=> [call |-> c, outcome |-> "success"] \in audit'
               /\ \A c \in 1..(serial'.call - 1) : Told(c)'
    <2>1. /\ audit' = audit /\ carried' = carried
          /\ ghost'.lost = ghost.lost /\ ghost'.unread = ghost.unread
      BY <1>2, HistoryTypes
      DEF StartFailure, GetCount, SetCount, RaiseAlert, GetHistory, SetHistory,
                  GhostState
    <2>2. serial'.call = serial.call /\ \A u \in Threads : u # t => thread'[u] = thread[u]
      BY <1>2, Destinations, OtherThreads DEF Step
    <2>3. thread[t].call = 0 \/ thread'[t].call = thread[t].call
      <3>1. CASE GetHistory(t) \/ SetHistory(t) \/ GetCount(t)
        BY <3>1, Destinations
      <3>2. CASE SetCount(t) \/ RaiseAlert(t)
        BY <3>2, Destinations DEF CallsKnown, InCall
      <3>3. CASE StartFailure(t)
        BY <3>3, Destinations DEF Idle
      <3>4. QED
        BY <1>2, <3>1, <3>2, <3>3
    <2>4. \A c \in 1..(serial.call - 1) : Told(c)'
      BY <1>0, <2>1, <2>2, <2>3
    <2>5. QED
      BY <1>0, <2>1, <2>2, <2>4
  <1>3. ASSUME NEW t \in Threads, RecordThrottled(t) \/ RefuseUnread(t) \/ RevokeAllKeys(t)
        PROVE  /\ \A c \in Calls :
                    c \in carried' <=> [call |-> c, outcome |-> "success"] \in audit'
               /\ \A c \in 1..(serial'.call - 1) : Told(c)'
    <2> DEFINE d == thread[t].call
    <2>1. /\ thread'[t] = Idle /\ InCall(t) /\ serial'.call = serial.call
          /\ \A u \in Threads : u # t => thread'[u] = thread[u]
      BY <1>3, Destinations, OtherThreads DEF Step, InCall
    <2>2. \/ /\ carried' = carried /\ audit' = audit
             /\ ghost'.lost = ghost.lost \cup {d} /\ ghost'.unread = ghost.unread
          \/ /\ carried' = carried /\ audit' = audit
             /\ ghost'.unread = ghost.unread \cup {d} /\ ghost'.lost = ghost.lost
          \/ /\ carried' = carried /\ ghost' = ghost
             /\ \E o \in {"denied", "throttled"} :
                  audit' = audit \cup {[call |-> d, outcome |-> o]}
          \/ /\ carried' = carried \cup {d} /\ ghost' = ghost
             /\ audit' = audit \cup {[call |-> d, outcome |-> "success"]}
      BY <1>3, HistoryTypes DEF RecordThrottled, RefuseUnread, RevokeAllKeys, GhostState
    <2>3. /\ \A c \in Calls : c \in carried' <=> [call |-> c, outcome |-> "success"] \in audit'
          /\ (\E a \in audit' : a.call = d) \/ d \in ghost'.lost \/ d \in ghost'.unread
      <3>1. CASE /\ carried' = carried /\ audit' = audit
                 /\ d \in ghost'.lost \/ d \in ghost'.unread
        BY <1>0, <3>1
      <3>2. ASSUME NEW o \in {"denied", "throttled"}, carried' = carried,
                   audit' = audit \cup {[call |-> d, outcome |-> o]}
            PROVE  /\ \A c \in Calls :
                        c \in carried' <=> [call |-> c, outcome |-> "success"] \in audit'
                   /\ \E a \in audit' : a.call = d
        <4>1. \A c \in Calls : [call |-> c, outcome |-> "success"] # [call |-> d, outcome |-> o]
          OBVIOUS
        <4>2. [call |-> d, outcome |-> o] \in audit' /\ [call |-> d, outcome |-> o].call = d
          BY <3>2
        <4>3. QED
          BY <1>0, <3>2, <4>1, <4>2
      <3>3. CASE /\ carried' = carried \cup {d}
                 /\ audit' = audit \cup {[call |-> d, outcome |-> "success"]}
        <4>1. \A c \in Calls :
                [call |-> c, outcome |-> "success"] = [call |-> d, outcome |-> "success"] <=> c = d
          OBVIOUS
        <4>2. /\ [call |-> d, outcome |-> "success"] \in audit'
              /\ [call |-> d, outcome |-> "success"].call = d
          BY <3>3
        <4>3. QED
          BY <1>0, <3>3, <4>1, <4>2
      <3>4. QED
        BY <2>2, <3>1, <3>2, <3>3
    <2>4. /\ audit \subseteq audit'
          /\ ghost.lost \subseteq ghost'.lost /\ ghost.unread \subseteq ghost'.unread
      BY <2>2
    <2>5. \A c \in 1..(serial.call - 1) : Told(c)'
      BY <1>0, <2>1, <2>3, <2>4
    <2>6. QED
      BY <2>1, <2>3, <2>5
  <1>4. ASSUME NEW p \in Processes, Crash(p)
        PROVE  /\ \A c \in Calls :
                    c \in carried' <=> [call |-> c, outcome |-> "success"] \in audit'
               /\ \A c \in 1..(serial'.call - 1) : Told(c)'
    <2> DEFINE calls == {thread[t].call : t \in {u \in Threads : ProcessOf[u] = p}} \ {0}
    <2>1. /\ audit' = audit /\ carried' = carried /\ serial' = serial
          /\ ghost'.lost = ghost.lost \cup calls /\ ghost'.unread = ghost.unread
      BY <1>4, HistoryTypes DEF Crash, GhostState
    <2>2. \A t \in Threads : thread'[t] = thread[t] \/ thread[t].call \in calls \cup {0}
      BY <1>4 DEF Crash
    <2>3. \A c \in 1..(serial.call - 1) : Told(c)'
      <3> HIDE DEF calls
      <3>1. QED
        BY <1>0, <2>1, <2>2
    <2>4. QED
      BY <1>0, <2>1, <2>3
  <1>5. ASSUME Loses \/ UNCHANGED vars
        PROVE  /\ \A c \in Calls :
                    c \in carried' <=> [call |-> c, outcome |-> "success"] \in audit'
               /\ \A c \in 1..(serial'.call - 1) : Told(c)'
    <2>1. /\ audit' = audit /\ carried' = carried /\ serial' = serial /\ thread' = thread
          /\ ghost'.lost = ghost.lost /\ ghost'.unread = ghost.unread
      BY <1>5, CacheLoses DEF vars
    <2>2. QED
      BY <1>0, <2>1
  <1>6. QED
    BY <1>1, <1>2, <1>3, <1>4, <1>5 DEF Next, Step, Loses

\* A call of the kill switch that was carried out is recorded as a success, and nothing
\* else is; what has no record is under way, could not be recorded, or was refused
\* before its body was read.
THEOREM CallsStayRecorded == Spec => []CallsRecorded
  <1>1. Init => CallsRecorded
    BY DEF Init, CallsRecorded, Accounted
  <1>2. TypeInvariant /\ CallsRecorded /\ [Next]_vars => CallsRecorded'
    BY RecordsInductive
  <1>3. QED
    BY <1>1, <1>2, TypeInvariantAlways, PTL DEF Spec
-----------------------------------------------------------------------------
\* A step that neither counts nor raises an alert in worker p.
LEMMA AlertStays ==
  ASSUME NEW p \in Processes, AlertTrue(p),
         p \in ghost.lapsed => p \in ghost'.lapsed, p \in ghost.mixed => p \in ghost'.mixed,
         failed'[p] = failed[p], ghost'.run[p] = ghost.run[p], ghost'.raised[p] = ghost.raised[p],
         \A t \in Threads : ProcessOf[t] = p =>
           \/ thread'[t] = thread[t]
           \/ thread[t].pc \notin {"set", "alert"} /\ thread'[t].pc \notin {"set", "alert"}
  PROVE  AlertTrue(p)'
  <1>1. Alerted(p) => Alerted(p)'
    BY DEF Alerted
  <1>2. \A t \in Threads : ProcessOf[t] = p /\ thread'[t].pc \in {"set", "alert"} =>
          thread'[t] = thread[t]
    OBVIOUS
  <1>3. QED
    BY <1>1, <1>2 DEF AlertTrue

LEMMA CountsAlert ==
  ASSUME TypeInvariant, AlertInvariant, NEW t \in Threads, SetCount(t), NEW p \in Processes,
         p = ProcessOf[t]
  PROVE  AlertTrue(p)'
  <1> TypeOK
    BY DEF TypeInvariant
  <1> DEFINE count == thread[t].count + 1
  <1> SUFFICES ASSUME p \notin ghost'.lapsed
               PROVE  AlertTrue(p)'
    BY DEF AlertTrue
  <1>1. ghost' = [ghost EXCEPT !.run[p] = @ + 1]
    BY DEF SetCount
  <1>2. /\ ghost'.run[p] = ghost.run[p] + 1 /\ ghost'.raised = ghost.raised
        /\ ghost'.mixed = ghost.mixed /\ ghost'.lapsed = ghost.lapsed
    BY <1>1, HistoryTypes DEF GhostState
  <1>3. failed'[p].count = count
    BY DEF SetCount, TypeOK
  <1>4. /\ thread[t].pc = "set" /\ thread'[t].pc \in {"idle", "alert"}
        /\ count = Threshold => thread'[t].pc = "alert"
        /\ thread'[t].pc = "alert" => count = Threshold
        /\ \A u \in Threads : u # t => thread'[u] = thread[u]
    <2>1. /\ thread[t].pc = "set" /\ thread[t] \in ThreadState
          /\ IF count = Threshold
               THEN thread' = [thread EXCEPT ![t].count = count, ![t].pc = "alert"]
               ELSE thread' = [thread EXCEPT ![t] = Idle]
      BY FieldTypes DEF SetCount, Finish
    <2>2. QED
      BY <2>1 DEF TypeOK, Idle, ThreadState
  <1>5. AlertTrue(p) /\ p \notin ghost.lapsed
    BY <1>2 DEF AlertInvariant
  <1>6. /\ count \in Nat /\ Threshold \in Nat /\ Threshold > 0 /\ ghost.run[p] \in Nat
        /\ \A u \in Threads : thread[u].count \in Nat
        /\ failed[p].count \in Nat
    BY FieldTypes, HistoryTypes, LimitAssumption
  <1>7. count <= ghost'.run[p]
    BY <1>2, <1>4, <1>5, <1>6 DEF AlertTrue
  <1>8. Alerted(p) => Alerted(p)'
    BY <1>2, <1>4 DEF Alerted
  <1>9. count >= Threshold => Alerted(p)'
    <2>1. CASE count = Threshold
      BY <1>4, <2>1 DEF Alerted
    <2>2. CASE count > Threshold
      <3>1. thread[t].count >= Threshold
        BY <1>6, <2>2
      <3>2. QED
        BY <1>4, <1>5, <1>8, <3>1 DEF AlertTrue
    <2>3. QED
      BY <1>6, <2>1, <2>2
  <1>10. ghost'.raised[p] => ghost'.run[p] >= Threshold
    BY <1>2, <1>5, <1>6 DEF AlertTrue
  <1>11. ASSUME NEW u \in Threads, ProcessOf[u] = p
         PROVE  /\ thread'[u].pc = "set" => /\ thread'[u].count <= ghost'.run[p]
                                            /\ thread'[u].count >= Threshold => Alerted(p)'
                /\ thread'[u].pc = "alert" => ghost'.run[p] >= Threshold
                /\ thread'[u].pc = "set" /\ p \notin ghost'.mixed => FALSE
    <2>1. CASE u = t
      BY <1>4, <1>6, <1>7, <2>1
    <2>2. CASE u # t
      <3>1. thread'[u] = thread[u]
        BY <1>4, <2>2
      <3>2. /\ thread[u].pc = "set" => /\ thread[u].count <= ghost.run[p]
                                       /\ thread[u].count >= Threshold => Alerted(p)
            /\ thread[u].pc = "alert" => ghost.run[p] >= Threshold
            /\ thread[u].pc = "set" /\ p \notin ghost.mixed => u = t
        BY <1>4, <1>5, <1>11 DEF AlertTrue
      <3>3. QED
        BY <1>2, <1>6, <1>8, <2>2, <3>1, <3>2
    <2>3. QED
      BY <2>1, <2>2
  <1>12. p \notin ghost'.mixed => count = ghost'.run[p]
    BY <1>2, <1>4, <1>5, <1>6 DEF AlertTrue
  <1>13. QED
    BY <1>3, <1>7, <1>9, <1>10, <1>11, <1>12 DEF AlertTrue

LEMMA ReadsCount ==
  ASSUME TypeInvariant, AlertInvariant, NEW t \in Threads, GetCount(t), NEW p \in Processes,
         p = ProcessOf[t]
  PROVE  AlertTrue(p)'
  <1> TypeOK
    BY DEF TypeInvariant
  <1>1. /\ thread[t].pc = "get" /\ thread'[t].pc = "set" /\ thread'[t].count = failed[p].count
        /\ \A u \in Threads : u # t => thread'[u] = thread[u]
        /\ failed' = failed
    BY Destinations, OtherThreads, ZenonT(40) DEF Step, GetCount
  <1>2. /\ ghost'.run = ghost.run /\ ghost'.raised = ghost.raised /\ ghost'.lapsed = ghost.lapsed
        /\ ghost'.mixed = IF Beside(t, {"set"}) THEN ghost.mixed \cup {p} ELSE ghost.mixed
    BY HistoryTypes DEF GetCount, GhostState
  <1> SUFFICES ASSUME p \notin ghost'.lapsed
               PROVE  AlertTrue(p)'
    BY DEF AlertTrue
  <1>3. AlertTrue(p) /\ p \notin ghost.lapsed
    BY <1>2 DEF AlertInvariant
  <1>4. Alerted(p) => Alerted(p)'
    BY <1>1, <1>2 DEF Alerted
  <1>5. ASSUME NEW u \in Threads, ProcessOf[u] = p
        PROVE  /\ thread'[u].pc = "set" => /\ thread'[u].count <= ghost'.run[p]
                                           /\ thread'[u].count >= Threshold => Alerted(p)'
               /\ thread'[u].pc = "alert" => ghost'.run[p] >= Threshold
               /\ thread'[u].pc = "set" /\ p \notin ghost'.mixed => u = t
    <2>1. CASE u = t
      BY <1>1, <1>2, <1>3, <1>4, <2>1 DEF AlertTrue
    <2>2. CASE u # t
      <3>1. thread'[u].pc = "set" => p \in ghost'.mixed
        BY <1>1, <1>2, <1>5, <2>2 DEF Beside
      <3>2. QED
        BY <1>1, <1>2, <1>3, <1>4, <1>5, <2>2, <3>1 DEF AlertTrue
    <2>3. QED
      BY <2>1, <2>2
  <1>6. p \notin ghost'.mixed => p \notin ghost.mixed
    BY <1>2
  <1>7. QED
    BY <1>1, <1>2, <1>3, <1>4, <1>5, <1>6 DEF AlertTrue

LEMMA RaisesAlert ==
  ASSUME TypeInvariant, AlertInvariant, NEW t \in Threads, RaiseAlert(t), NEW p \in Processes,
         p = ProcessOf[t]
  PROVE  AlertTrue(p)'
  <1> TypeOK
    BY DEF TypeInvariant
  <1>1. /\ thread[t].pc = "alert" /\ thread'[t].pc = "idle" /\ failed' = failed
        /\ \A u \in Threads : u # t => thread'[u] = thread[u]
    <2>1. thread'[t] = Idle /\ \A u \in Threads : u # t => thread'[u] = thread[u]
      BY Destinations, OtherThreads DEF Step
    <2>2. QED
      BY <2>1 DEF RaiseAlert, Idle
  <1>2. /\ ghost'.run = ghost.run /\ ghost'.raised[p] /\ ghost'.lapsed = ghost.lapsed
        /\ ghost'.mixed = ghost.mixed
    BY HistoryTypes DEF RaiseAlert, GhostState
  <1>3. Alerted(p)'
    BY <1>2 DEF Alerted
  <1>4. QED
    BY <1>1, <1>2, <1>3 DEF AlertTrue, AlertInvariant

LEMMA AlertsInductive ==
  ASSUME TypeInvariant, AlertInvariant, [Next]_vars
  PROVE  AlertInvariant'
  <1> TypeOK
    BY DEF TypeInvariant
  <1> SUFFICES ASSUME NEW p \in Processes
               PROVE  AlertTrue(p)'
    BY DEF AlertInvariant
  <1>0. AlertTrue(p)
    BY DEF AlertInvariant
  <1>1. ASSUME NEW t \in Threads, SetCount(t) \/ GetCount(t) \/ RaiseAlert(t)
        PROVE  AlertTrue(p)'
    <2>1. CASE ProcessOf[t] = p
      BY <1>1, <2>1, CountsAlert, ReadsCount, RaisesAlert
    <2>2. CASE ProcessOf[t] # p
      <3>1. failed'[p] = failed[p]
        BY <1>1, <2>2 DEF SetCount, GetCount, RaiseAlert, TypeOK
      <3>2. /\ ghost'.run[p] = ghost.run[p] /\ ghost'.raised[p] = ghost.raised[p]
            /\ ghost.lapsed \subseteq ghost'.lapsed /\ ghost.mixed \subseteq ghost'.mixed
        BY <1>1, <2>2, HistoryTypes DEF SetCount, GetCount, RaiseAlert, GhostState
      <3>3. \A u \in Threads : ProcessOf[u] = p => thread'[u] = thread[u]
        BY <1>1, <2>2, OtherThreads DEF Step
      <3>4. QED
        BY <1>0, <3>1, <3>2, <3>3, AlertStays
    <2>3. QED
      BY <2>1, <2>2
  <1>2. ASSUME NEW t \in Threads,
               StartFailure(t) \/ StartCall(t) \/ GetHistory(t) \/ SetHistory(t)
                 \/ RecordThrottled(t) \/ RefuseUnread(t) \/ RevokeAllKeys(t)
        PROVE  AlertTrue(p)'
    <2>1. /\ failed' = failed /\ ghost'.run = ghost.run /\ ghost'.raised = ghost.raised
          /\ ghost'.lapsed = ghost.lapsed /\ ghost'.mixed = ghost.mixed
      BY <1>2, HistoryTypes DEF StartFailure, StartCall, GetHistory, SetHistory, RecordThrottled,
                                RefuseUnread, RevokeAllKeys, GhostState
    <2>2. \A u \in Threads : u # t => thread'[u] = thread[u]
      BY <1>2, OtherThreads DEF Step
    <2>3. thread[t].pc \notin {"set", "alert"} /\ thread'[t].pc \notin {"set", "alert"}
      <3>1. CASE StartFailure(t)
        <4>1. thread'[t] = [Idle EXCEPT !.op = "fail", !.pc = "get"] /\ thread[t] = Idle
          BY <3>1, Destinations
        <4>2. QED
          BY <4>1 DEF Idle
      <3>2. CASE StartCall(t)
        <4>1. /\ thread'[t] = [Idle EXCEPT !.op = "call", !.pc = "get_history",
                                           !.call = serial.call]
              /\ thread[t] = Idle
          BY <3>2, Destinations
        <4>2. QED
          BY <4>1 DEF Idle
      <3>3. CASE GetHistory(t) \/ SetHistory(t)
        BY <3>3, Destinations
      <3>4. CASE RecordThrottled(t) \/ RefuseUnread(t) \/ RevokeAllKeys(t)
        BY <3>4, Destinations DEF Idle
      <3>5. QED
        BY <1>2, <3>1, <3>2, <3>3, <3>4
    <2>4. QED
      BY <1>0, <2>1, <2>2, <2>3, AlertStays
  <1>3. ASSUME NEW q \in Processes, Crash(q)
        PROVE  AlertTrue(p)'
    <2>1. thread' = [t \in Threads |-> IF ProcessOf[t] = q THEN Idle ELSE thread[t]]
      BY <1>3 DEF Crash
    <2>2. CASE p = q
      <3>1. failed'[p].count = 0
        BY <1>3, <2>2 DEF Crash, TypeOK, NoCounter
      <3>2. ghost'.run[p] = 0 /\ ghost'.raised[p] = FALSE
        BY <1>3, <2>2, HistoryTypes DEF Crash, GhostState
      <3>3. \A t \in Threads : ProcessOf[t] = p => thread'[t].pc = "idle"
        BY <2>1, <2>2 DEF Idle
      <3>4. QED
        BY <3>1, <3>2, <3>3, LimitAssumption DEF AlertTrue
    <2>3. CASE p # q
      <3>1. failed'[p] = failed[p]
        BY <1>3, <2>3 DEF Crash, TypeOK
      <3>2. /\ ghost'.run[p] = ghost.run[p] /\ ghost'.raised[p] = ghost.raised[p]
            /\ ghost'.lapsed = ghost.lapsed \ {q} /\ ghost'.mixed = ghost.mixed \ {q}
        BY <1>3, <2>3, HistoryTypes DEF Crash, GhostState
      <3>3. \A t \in Threads : ProcessOf[t] = p => thread'[t] = thread[t]
        BY <2>1, <2>3
      <3>4. QED
        BY <1>0, <2>3, <3>1, <3>2, <3>3, AlertStays
    <2>4. QED
      BY <2>2, <2>3
  <1>4. ASSUME NEW S \in SUBSET Processes, DropCounters(S), thread' = thread
        PROVE  AlertTrue(p)'
    <2>1. PICK under \in SUBSET S :
            /\ failed'[p] = IF p \in S THEN NoCounter ELSE failed[p]
            /\ ghost'.run[p] = IF p \in S THEN 0 ELSE ghost.run[p]
            /\ ghost'.raised[p] = (ghost.raised[p] /\ p \notin S)
            /\ ghost'.mixed = ghost.mixed \ (S \ under)
            /\ ghost'.lapsed = (ghost.lapsed \ S) \cup under
            /\ \A t \in Threads :
                 ProcessOf[t] \in S \ under => thread[t].pc \notin {"set", "alert"}
      BY <1>4, Drops
    <2>2. CASE p \notin S
      <3>1. failed'[p] = failed[p] /\ ghost'.run[p] = ghost.run[p]
        BY <2>1, <2>2
      <3>2. ghost'.raised[p] = ghost.raised[p]
        BY <2>1, <2>2, HistoryTypes
      <3>3. (p \in ghost.lapsed => p \in ghost'.lapsed) /\ (p \in ghost.mixed => p \in ghost'.mixed)
        BY <2>1, <2>2
      <3>4. QED
        BY <1>0, <1>4, <3>1, <3>2, <3>3, AlertStays
    <2>3. CASE p \in under
      BY <2>1, <2>3 DEF AlertTrue
    <2>4. CASE p \in S \ under
      <3>1. failed'[p] = NoCounter /\ ghost'.run[p] = 0
        BY <2>1, <2>4
      <3>2. ghost'.raised[p] = FALSE
        BY <2>1, <2>4, Zenon
      <3>3. \A t \in Threads : ProcessOf[t] = p => thread'[t].pc \notin {"set", "alert"}
        BY <1>4, <2>1, <2>4
      <3>4. failed'[p].count = 0
        BY <3>1 DEF NoCounter
      <3>5. QED
        BY <3>1, <3>2, <3>3, <3>4, LimitAssumption DEF AlertTrue
    <2>5. QED
      BY <2>2, <2>3, <2>4
  <1>5. ASSUME UNCHANGED <<failed, thread>>,
               ghost'.run = ghost.run, ghost'.raised = ghost.raised,
               ghost'.mixed = ghost.mixed, ghost'.lapsed = ghost.lapsed
        PROVE  AlertTrue(p)'
    BY <1>0, <1>5, AlertStays
  <1>6. CASE Loses
    BY <1>4, <1>5, <1>6, CacheLoses
  <1>7. CASE UNCHANGED vars
    BY <1>5, <1>7 DEF vars
  <1>8. QED
    BY <1>1, <1>2, <1>3, <1>6, <1>7 DEF Next, Step, Loses

\* No run of failures that one worker counts passes the threshold without an alert, and
\* none is raised before it, unless the counter was dropped under a thread; a counter
\* that expired or was culled begins a new run.
THEOREM AlertsStayRaised == Spec => []AlertsRaised
  <1>1. Init => AlertInvariant
    BY LimitAssumption DEF Init, AlertInvariant, AlertTrue, NoCounter, Idle
  <1>2. TypeInvariant /\ AlertInvariant /\ [Next]_vars => AlertInvariant'
    BY AlertsInductive
  <1>3. AlertInvariant => AlertsRaised
    BY DEF AlertInvariant, AlertTrue, Alerted, AlertsRaised
  <1>4. QED
    BY <1>1, <1>2, <1>3, TypeInvariantAlways, PTL DEF Spec
-----------------------------------------------------------------------------
\* A history that tells of the calls since one moment tells of those since a later one,
\* and of fewer calls.
LEMMA RemembersLess ==
  ASSUME NEW h, NEW let, NEW lo, NEW less, NEW hi, Remembers(h, let, lo), less \subseteq let,
         \A c \in less : c[2] > hi => c[2] > lo
  PROVE  Remembers(h, less, hi)
  BY DEF Remembers

\* What is recent is still told when the rest is dropped.
LEMMA RemembersRecent ==
  ASSUME TypeOK, NEW h \in Seq(Time), NEW let, Remembers(h, let, clock - Duration)
  PROVE  Remembers(Recent(h), let, clock - Duration)
  <1> DEFINE r == Recent(h)
             lo == clock - Duration
  <1>1. PICK f \in [1..Len(h) -> Calls \X Time] :
          \A c \in let : c[2] > lo => \E i \in 1..Len(h) : f[i] = c /\ h[i] = c[2]
    BY DEF Remembers
  <1>2. /\ Len(r) \in 0..Len(h) /\ Len(h) \in Nat
        /\ \A i \in 1..Len(r) : r[i] = h[i]
        /\ \A i \in 1..Len(h) : h[i] > lo => i \in 1..Len(r)
    BY RecentKeeps, LenProperties
  <1> DEFINE g == [i \in 1..Len(r) |-> f[i]]
  <1>3. g \in [1..Len(r) -> Calls \X Time]
    BY <1>1, <1>2
  <1>4. ASSUME NEW c \in let, c[2] > lo
        PROVE  \E i \in 1..Len(r) : g[i] = c /\ r[i] = c[2]
    <2>1. PICK i \in 1..Len(h) : f[i] = c /\ h[i] = c[2]
      BY <1>1, <1>4
    <2>2. i \in 1..Len(r) /\ r[i] = h[i]
      BY <1>2, <1>4, <2>1
    <2>3. QED
      BY <2>1, <2>2
  <1> HIDE DEF g, r, lo
  <1>5. Remembers(r, let, lo)
    BY <1>3, <1>4 DEF Remembers
  <1>6. QED
    BY <1>5 DEF r, lo

\* A call that is put in front is told of, with those that the history told of before.
LEMMA RemembersNewest ==
  ASSUME NEW h \in Seq(Time), NEW let, NEW lo, Remembers(h, let, lo),
         NEW c \in Calls \X Time
  PROVE  Remembers(<<c[2]>> \o h, let \cup {c}, lo)
  <1> DEFINE n == Len(h)
             k == <<c[2]>> \o h
  <1>1. PICK f \in [1..n -> Calls \X Time] :
          \A d \in let : d[2] > lo => \E i \in 1..n : f[i] = d /\ h[i] = d[2]
    BY DEF Remembers
  <1>2. /\ n \in Nat /\ Len(k) = n + 1 /\ k[1] = c[2]
        /\ \A i \in 1..n : k[i + 1] = h[i]
    <2>1. <<c[2]>> \in Seq(Time) /\ Len(<<c[2]>>) = 1 /\ <<c[2]>>[1] = c[2]
      OBVIOUS
    <2>2. n \in Nat
      BY LenProperties
    <2>3. /\ Len(k) = 1 + n
          /\ \A i \in 1..(1 + n) : k[i] = IF i <= 1 THEN <<c[2]>>[i] ELSE h[i - 1]
      BY <2>1, ConcatProperties
    <2>4. QED
      BY <2>1, <2>2, <2>3
  <1> DEFINE g == [i \in 1..(n + 1) |-> IF i = 1 THEN c ELSE f[i - 1]]
  <1>3. g \in [1..(n + 1) -> Calls \X Time] /\ g[1] = c /\ \A i \in 1..n : g[i + 1] = f[i]
    BY <1>1, <1>2
  <1>4. ASSUME NEW d \in let \cup {c}, d[2] > lo
        PROVE  \E i \in 1..Len(k) : g[i] = d /\ k[i] = d[2]
    <2>1. CASE d = c
      BY <1>2, <1>3, <2>1
    <2>2. CASE d \in let
      <3>1. PICK i \in 1..n : f[i] = d /\ h[i] = d[2]
        BY <1>1, <1>4, <2>2
      <3>2. i + 1 \in 1..Len(k) /\ g[i + 1] = d /\ k[i + 1] = d[2]
        BY <1>2, <1>3, <3>1
      <3>3. QED
        BY <3>2
    <2>3. QED
      BY <2>1, <2>2
  <1>5. g \in [1..Len(k) -> Calls \X Time]
    BY <1>2, <1>3
  <1> HIDE DEF g, k
  <1>6. Remembers(k, let \cup {c}, lo)
    BY <1>4, <1>5 DEF Remembers
  <1>7. QED
    BY <1>6 DEF k

\* No more calls are told of than the history has entries.
LEMMA RememberedFew ==
  ASSUME NEW h \in Seq(Time), NEW let, NEW lo, Remembers(h, let, lo),
         NEW S, S \subseteq let, \A c \in S : c[2] > lo
  PROVE  IsFiniteSet(S) /\ Cardinality(S) \in Nat /\ Cardinality(S) <= Len(h)
  <1> DEFINE n == Len(h)
  <1>1. PICK f \in [1..n -> Calls \X Time] :
          \A d \in let : d[2] > lo => \E i \in 1..n : f[i] = d /\ h[i] = d[2]
    BY DEF Remembers
  <1>2. n \in Nat
    BY LenProperties
  <1>3. \A c \in S : \E i \in 1..n : f[i] = c
    BY <1>1
  <1> DEFINE I == {i \in 1..n : f[i] \in S}
             g == [i \in I |-> f[i]]
  <1>4. IsFiniteSet(1..n) /\ Cardinality(1..n) = n
    <2>1. 1 \in Int /\ n \in Int
      BY <1>2
    <2> HIDE DEF n
    <2>2. IsFiniteSet(1..n) /\ Cardinality(1..n) = IF 1 > n THEN 0 ELSE n - 1 + 1
      BY <2>1, FS_Interval
    <2>3. QED
      BY <1>2, <2>2
  <1>5. IsFiniteSet(I) /\ Cardinality(I) <= n
    BY <1>4, FS_Subset, I \subseteq 1..n
  <1>6. g \in Surjection(I, S)
    BY <1>3 DEF Surjection
  <1> HIDE DEF I, g
  <1>7. IsFiniteSet(S) /\ Cardinality(S) <= Cardinality(I)
    BY <1>5, <1>6, FS_Surjection
  <1>8. QED
    BY <1>2, <1>5, <1>7, FS_CardinalityType

LEMMA RemembersNone ==
  ASSUME NEW lo
  PROVE  Remembers(<<>>, {}, lo)
  <1>1. Len(<<>>) = 0
    BY EmptySeq
  <1>2. [i \in 1..0 |-> <<1, 0>>] \in [1..0 -> Calls \X Time]
    OBVIOUS
  <1>3. QED
    BY <1>1, <1>2 DEF Remembers

\* A step that neither checks a call in worker p nor lets one through.
LEMMA RateStays ==
  ASSUME TypeOK, TypeOK', NEW p \in Processes, RateTrue(p),
         p \in ghost.crowded => p \in ghost'.crowded, ghost'.let[p] = ghost.let[p],
         history'[p] = history[p], clock <= clock',
         \A t \in Threads : ProcessOf[t] = p /\ thread'[t].pc = "set_history" =>
           thread'[t] = thread[t]
  PROVE  RateTrue(p)'
  <1>1. /\ clock \in Nat /\ clock' \in Nat /\ Duration \in Nat
        /\ \A c \in ghost.let[p] : c[2] \in Nat /\ c[2] <= clock
        /\ \A t \in Threads : thread[t].now \in Nat
    <2>1. \A c \in ghost.let[p] : c[2] <= clock
      BY DEF RateTrue
    <2>2. clock \in Nat /\ clock' \in Nat
      BY FieldTypes DEF TypeOK, Time
    <2>3. QED
      BY <2>1, <2>2, FieldTypes, HistoryTypes, TimeAssumption
  <1>2. \A c \in ghost'.let[p] : c[2] <= clock'
    BY <1>1
  <1>3. \A t \in Threads : ProcessOf[t] = p /\ thread'[t].pc = "set_history" =>
          thread'[t].now <= clock'
    BY <1>1 DEF RateTrue
  <1> SUFFICES ASSUME p \notin ghost'.crowded
               PROVE  RateTrue(p)'
    BY <1>2, <1>3 DEF RateTrue
  <1>4. Remembers(history[p], ghost.let[p], clock - Duration)
    BY DEF RateTrue
  <1>5. Remembers(history'[p], ghost'.let[p], clock' - Duration)
    <2>1. \A c \in ghost.let[p] : c[2] > clock' - Duration => c[2] > clock - Duration
      BY <1>1
    <2>2. QED
      BY <1>4, <2>1, RemembersLess
  <1>6. QED
    BY <1>2, <1>3, <1>5 DEF RateTrue

\* A step after which nothing is left to be told of in worker p.
LEMMA RateEmpty ==
  ASSUME TypeOK, TypeOK', NEW p \in Processes, RateTrue(p),
         history'[p] = <<>>, ghost'.let[p] = {}, clock <= clock',
         p \in ghost.crowded => p \in ghost'.crowded \/ ~\E t \in Threads :
           ProcessOf[t] = p /\ thread'[t].pc = "set_history",
         \A t \in Threads : ProcessOf[t] = p /\ thread'[t].pc = "set_history" =>
           thread'[t] = thread[t]
  PROVE  RateTrue(p)'
  <1>1. Remembers(history'[p], ghost'.let[p], clock' - Duration)
    BY RemembersNone
  <1>2. \A now \in Time :
          Cardinality({c \in ghost'.let[p] : now - Duration < c[2] /\ c[2] <= now}) <= Rate
    <2>1. \A now \in Time : {c \in ghost'.let[p] : now - Duration < c[2] /\ c[2] <= now} = {}
      OBVIOUS
    <2>2. QED
      BY <2>1, FS_EmptySet, LimitAssumption
  <1>3. /\ clock \in Nat /\ clock' \in Nat /\ Duration \in Nat
        /\ \A t \in Threads : thread[t].now \in Nat
    BY FieldTypes, TimeAssumption DEF TypeOK, Time
  <1>4. ASSUME NEW t \in Threads, ProcessOf[t] = p, thread'[t].pc = "set_history"
        PROVE  thread'[t].now <= clock'
    BY <1>3, <1>4 DEF RateTrue
  <1>5. ASSUME NEW t \in Threads, ProcessOf[t] = p, thread'[t].pc = "set_history",
               p \notin ghost'.crowded
        PROVE  /\ Remembers(thread'[t].history, ghost'.let[p], thread'[t].now - Duration)
               /\ \A u \in Threads : ProcessOf[u] = p /\ thread'[u].pc = "set_history" => u = t
    <2>1. /\ Remembers(thread[t].history, ghost.let[p], thread[t].now - Duration)
          /\ \A u \in Threads : ProcessOf[u] = p /\ thread[u].pc = "set_history" => u = t
      BY <1>5 DEF RateTrue
    <2>2. Remembers(thread[t].history, {}, thread[t].now - Duration)
      BY <2>1, RemembersLess
    <2>3. QED
      BY <1>5, <2>1, <2>2
  <1>6. QED
    BY <1>1, <1>2, <1>4, <1>5 DEF RateTrue

\* A call is checked against all that were let through lately.
LEMMA ChecksRate ==
  ASSUME TypeInvariant, TypeOK', RateInvariant, NEW t \in Threads, GetHistory(t),
         NEW p \in Processes, p = ProcessOf[t]
  PROVE  RateTrue(p)'
  <1> TypeOK
    BY DEF TypeInvariant
  <1>1. /\ thread'[t].history = Recent(history[p]) /\ thread'[t].now = clock
        /\ \A u \in Threads : u # t => thread'[u] = thread[u]
        /\ history' = history /\ clock' = clock
    <2>1. thread[t] \in ThreadState
      BY FieldTypes
    <2>2. \A u \in Threads : u # t => thread'[u] = thread[u]
      BY OtherThreads DEF Step
    <2>3. \E pc \in Pcs : thread' =
            [thread EXCEPT ![t].history = Recent(history[p]), ![t].now = clock, ![t].pc = pc]
      BY DEF GetHistory, Pcs
    <2>4. QED
      BY <2>1, <2>2, <2>3 DEF GetHistory, ThreadState, TypeOK
  <1>2. /\ ghost'.let = ghost.let
        /\ ghost'.crowded = IF Beside(t, {"set_history"}) THEN ghost.crowded \cup {p}
                                                          ELSE ghost.crowded
    BY HistoryTypes DEF GetHistory, GhostState
  <1>3. RateTrue(p)
    BY DEF RateInvariant
  <1>4. \A c \in ghost'.let[p] : c[2] <= clock'
    BY <1>1, <1>2, <1>3 DEF RateTrue
  <1>5. clock <= clock
    BY FieldTypes
  <1>6. \A u \in Threads : ProcessOf[u] = p /\ thread'[u].pc = "set_history" =>
           thread'[u].now <= clock'
    BY <1>1, <1>3, <1>5 DEF RateTrue
  <1> SUFFICES ASSUME p \notin ghost'.crowded
               PROVE  RateTrue(p)'
    BY <1>4, <1>6 DEF RateTrue
  <1>7. p \notin ghost.crowded /\ ~Beside(t, {"set_history"})
    BY <1>2
  <1>8. Remembers(thread'[t].history, ghost'.let[p], clock - Duration)
    BY <1>1, <1>2, <1>3, <1>7, FieldTypes, RemembersRecent DEF RateTrue
  <1>9. ASSUME NEW u \in Threads, ProcessOf[u] = p, thread'[u].pc = "set_history"
        PROVE  u = t
    BY <1>1, <1>7, <1>9 DEF Beside
  <1>10. QED
    BY <1>1, <1>2, <1>3, <1>4, <1>7, <1>8, <1>9, <1>6 DEF RateTrue

\* And is let through as one more, if they were fewer than the rate allows.
LEMMA LetsThrough ==
  ASSUME TypeInvariant, TypeOK', RateInvariant, NEW t \in Threads, SetHistory(t),
         NEW p \in Processes, p = ProcessOf[t]
  PROVE  RateTrue(p)'
  <1> TypeOK /\ HistoriesShort /\ CallsKnown
    BY DEF TypeInvariant
  <1> DEFINE h == thread[t].history
             let == ghost.let[p]
             new == <<thread[t].call, thread[t].now>>
  <1>1. /\ thread[t].pc = "set_history" /\ thread'[t].pc = "view"
        /\ \A u \in Threads : u # t => thread'[u] = thread[u]
        /\ clock' = clock
    BY Destinations, OtherThreads DEF Step, SetHistory
  <1>2. history'[p] = <<thread[t].now>> \o h
    BY DEF SetHistory, TypeOK
  <1>3. ghost'.let[p] = let \cup {new} /\ ghost'.crowded = ghost.crowded
    BY HistoryTypes DEF SetHistory, GhostState
  <1>4. /\ new \in Calls \X Time /\ new[2] = thread[t].now /\ h \in Seq(Time) /\ Len(h) \in Nat
        /\ Len(h) < Rate /\ clock \in Nat /\ thread[t].now \in Nat
        /\ Duration \in Nat /\ Rate \in Nat
        /\ \A c \in let : c[2] \in Nat
    <2>1. thread[t].call \in Calls
      BY <1>1, FieldTypes DEF CallsKnown, InCall
    <2>2. QED
      BY <1>1, <2>1, FieldTypes, HistoryTypes, LenProperties, TimeAssumption, LimitAssumption
         DEF HistoriesShort
  <1>5. RateTrue(p)
    BY DEF RateInvariant
  <1>6. \A c \in let : c[2] <= clock
    BY <1>5 DEF RateTrue
  <1>7. thread[t].now <= clock /\ \A c \in ghost'.let[p] : c[2] <= clock'
    BY <1>1, <1>3, <1>4, <1>5 DEF RateTrue
  <1>8. \A u \in Threads : ProcessOf[u] = p /\ thread'[u].pc = "set_history" =>
          thread'[u].now <= clock'
    BY <1>1, <1>5 DEF RateTrue
  <1> SUFFICES ASSUME p \notin ghost'.crowded
               PROVE  RateTrue(p)'
    BY <1>7, <1>8 DEF RateTrue
  <1>9. /\ Remembers(h, let, thread[t].now - Duration)
        /\ \A c \in let : c[2] <= thread[t].now
        /\ \A u \in Threads : ProcessOf[u] = p /\ thread[u].pc = "set_history" => u = t
        /\ \A now \in Time : Cardinality({c \in let : now - Duration < c[2] /\ c[2] <= now}) <= Rate
    BY <1>1, <1>3, <1>5 DEF RateTrue
  <1>10. \A u \in Threads : ProcessOf[u] = p => thread'[u].pc # "set_history"
    BY <1>1, <1>9
  <1>11. Remembers(history'[p], ghost'.let[p], clock' - Duration)
    <2>1. Remembers(<<new[2]>> \o h, let \cup {new}, thread[t].now - Duration)
      BY <1>4, <1>9, RemembersNewest
    <2>2. \A c \in let \cup {new} : c[2] > clock - Duration => c[2] > thread[t].now - Duration
      BY <1>4, <1>7
    <2>3. Remembers(<<new[2]>> \o h, let \cup {new}, clock - Duration)
      BY <2>1, <2>2, RemembersLess
    <2>4. QED
      BY <1>1, <1>2, <1>3, <1>4, <2>3
  <1>12. ASSUME NEW now \in Time
         PROVE  Cardinality({c \in ghost'.let[p] : now - Duration < c[2] /\ c[2] <= now}) <= Rate
    <2> DEFINE Then(S) == {c \in S : now - Duration < c[2] /\ c[2] <= now}
    <2>1. now \in Nat
      BY FieldTypes
    <2>2. CASE now < thread[t].now
      <3>1. Then(let \cup {new}) = Then(let)
        BY <1>4, <2>1, <2>2
      <3>2. QED
        BY <1>3, <1>9, <3>1
    <2>3. CASE thread[t].now <= now
      <3>1. /\ Then(let) \subseteq let
            /\ \A c \in Then(let) : c[2] > thread[t].now - Duration
        BY <1>4, <2>1, <2>3
      <3>2. /\ IsFiniteSet(Then(let)) /\ Cardinality(Then(let)) \in Nat
            /\ Cardinality(Then(let)) <= Len(h)
        <4> HIDE DEF Then
        <4>1. QED
          BY <1>4, <1>9, <3>1, RememberedFew
      <3>3. Then(let \cup {new}) \subseteq Then(let) \cup {new}
        OBVIOUS
      <3>4. /\ Cardinality(Then(let \cup {new})) \in Nat
            /\ Cardinality(Then(let \cup {new})) <= Cardinality(Then(let)) + 1
        <4> HIDE DEF Then
        <4>1. QED
          BY <3>2, <3>3, Joins
      <3>5. Cardinality(Then(let \cup {new})) <= Rate
        <4> HIDE DEF Then
        <4>1. QED
          BY <1>4, <3>2, <3>4
      <3>6. QED
        BY <1>3, <3>5
    <2>4. QED
      BY <1>4, <2>1, <2>2, <2>3
  <1>13. QED
    BY <1>7, <1>8, <1>10, <1>11, <1>12 DEF RateTrue

LEMMA RatesInductive ==
  ASSUME TypeInvariant, TypeOK', RateInvariant, [Next]_vars
  PROVE  RateInvariant'
  <1> TypeOK
    BY DEF TypeInvariant
  <1> SUFFICES ASSUME NEW p \in Processes
               PROVE  RateTrue(p)'
    BY DEF RateInvariant
  <1>0. RateTrue(p) /\ clock <= clock
    BY FieldTypes DEF RateInvariant
  <1>1. ASSUME NEW t \in Threads, GetHistory(t) \/ SetHistory(t)
        PROVE  RateTrue(p)'
    <2>1. CASE ProcessOf[t] = p
      BY <1>1, <2>1, ChecksRate, LetsThrough
    <2>2. CASE ProcessOf[t] # p
      <3>1. history'[p] = history[p] /\ clock' = clock
        BY <1>1, <2>2 DEF GetHistory, SetHistory, TypeOK
      <3>2. ghost'.let[p] = ghost.let[p] /\ ghost.crowded \subseteq ghost'.crowded
        BY <1>1, <2>2, HistoryTypes, ZenonT(40) DEF GetHistory, SetHistory, GhostState
      <3>3. \A u \in Threads : ProcessOf[u] = p => thread'[u] = thread[u]
        BY <1>1, <2>2, OtherThreads DEF Step
      <3>4. QED
        BY <1>0, <3>1, <3>2, <3>3, RateStays
    <2>3. QED
      BY <2>1, <2>2
  <1>2. ASSUME NEW t \in Threads, Step(t), ~GetHistory(t), ~SetHistory(t)
        PROVE  RateTrue(p)'
    <2>1. /\ history' = history /\ clock' = clock
          /\ ghost'.let = ghost.let /\ ghost'.crowded = ghost.crowded
      BY <1>2, HistoryTypes DEF Step, StartFailure, GetCount, SetCount, RaiseAlert, StartCall,
                                RecordThrottled, RefuseUnread, RevokeAllKeys, GhostState
    <2>2. thread'[t].pc # "set_history"
      <3>1. CASE StartFailure(t)
        <4>1. thread'[t] = [Idle EXCEPT !.op = "fail", !.pc = "get"]
          BY <3>1, Destinations
        <4>2. QED
          BY <4>1 DEF Idle
      <3>2. CASE StartCall(t)
        <4>1. thread'[t] = [Idle EXCEPT !.op = "call", !.pc = "get_history",
                                        !.call = serial.call]
          BY <3>2, Destinations
        <4>2. QED
          BY <4>1 DEF Idle
      <3>3. CASE GetCount(t) \/ SetCount(t) \/ RaiseAlert(t) \/ RecordThrottled(t)
                   \/ RefuseUnread(t) \/ RevokeAllKeys(t)
        BY <3>3, Destinations DEF Idle
      <3>4. QED
        BY <1>2, <3>1, <3>2, <3>3 DEF Step
    <2>3. \A u \in Threads : thread'[u].pc = "set_history" => thread'[u] = thread[u]
      BY <1>2, <2>2, OtherThreads
    <2>4. QED
      BY <1>0, <2>1, <2>3, RateStays
  <1>3. ASSUME NEW q \in Processes, Crash(q)
        PROVE  RateTrue(p)'
    <2>1. /\ thread' = [t \in Threads |-> IF ProcessOf[t] = q THEN Idle ELSE thread[t]]
          /\ clock' = clock
      BY <1>3 DEF Crash
    <2>2. CASE p = q
      <3>1. history'[p] = <<>> /\ ghost'.let[p] = {}
        <4>1. history' = [history EXCEPT ![q] = <<>>]
          BY <1>3 DEF Crash
        <4>2. ghost'.let = [ghost.let EXCEPT ![q] = {}]
          BY <1>3, HistoryTypes DEF Crash, GhostState
        <4>3. QED
          BY <2>2, <4>1, <4>2, HistoryTypes DEF TypeOK
      <3>2. \A t \in Threads : ProcessOf[t] = p => thread'[t].pc = "idle"
        BY <2>1, <2>2 DEF Idle
      <3>3. QED
        BY <1>0, <2>1, <3>1, <3>2, RateEmpty
    <2>3. CASE p # q
      <3>1. history'[p] = history[p]
        BY <1>3, <2>3 DEF Crash, TypeOK
      <3>2. ghost'.let[p] = ghost.let[p] /\ ghost'.crowded = ghost.crowded \ {q}
        BY <1>3, <2>3, HistoryTypes DEF Crash, GhostState
      <3>3. \A t \in Threads : ProcessOf[t] = p => thread'[t] = thread[t]
        BY <2>1, <2>3
      <3>4. QED
        BY <1>0, <2>1, <2>3, <3>1, <3>2, <3>3, RateStays
    <2>4. QED
      BY <2>2, <2>3
  <1>4. ASSUME NEW q \in Processes, history' = [history EXCEPT ![q] = <<>>],
               ghost'.let = [ghost.let EXCEPT ![q] = {}], ghost'.crowded = ghost.crowded,
               thread' = thread, clock <= clock'
        PROVE  RateTrue(p)'
    <2>1. CASE p = q
      <3>1. history'[p] = <<>> /\ ghost'.let[p] = {}
        BY <1>4, <2>1, HistoryTypes DEF TypeOK
      <3>2. QED
        BY <1>0, <1>4, <3>1, RateEmpty
    <2>2. CASE p # q
      <3>1. history'[p] = history[p] /\ ghost'.let[p] = ghost.let[p]
        BY <1>4, <2>2, HistoryTypes DEF TypeOK
      <3>2. QED
        BY <1>0, <1>4, <3>1, RateStays
    <2>3. QED
      BY <2>1, <2>2
  <1>5. CASE Loses
    <2>1. thread' = thread /\ ghost'.crowded = ghost.crowded /\ clock <= clock'
      BY <1>5, CacheLoses
    <2>2. CASE history' = history /\ ghost'.let = ghost.let
      BY <1>0, <2>1, <2>2, RateStays
    <2>3. CASE \E q \in Processes : /\ history' = [history EXCEPT ![q] = <<>>]
                                    /\ ghost'.let = [ghost.let EXCEPT ![q] = {}]
      BY <1>4, <2>1, <2>3
    <2>4. QED
      BY <1>5, <2>2, <2>3, CacheLoses
  <1>6. CASE UNCHANGED vars
    BY <1>0, <1>6, RateStays DEF vars
  <1>7. QED
    BY <1>1, <1>2, <1>3, <1>5, <1>6 DEF Next, Loses

\* Each worker, while it lives and its cache keeps the history, lets no more calls
\* through of those it checks in any stretch of time than the rate allows, unless two
\* were checked side by side.
THEOREM RateStaysKept == Spec => []RateKept
  <1>1. Init => RateInvariant
    <2> SUFFICES ASSUME Init, NEW p \in Processes
                 PROVE  RateTrue(p)
      BY DEF RateInvariant
    <2>1. history[p] = <<>> /\ ghost.let[p] = {} /\ \A t \in Threads : thread[t].pc = "idle"
      BY DEF Init, Idle
    <2>2. Remembers(history[p], ghost.let[p], clock - Duration)
      BY <2>1, RemembersNone
    <2>3. \A now \in Time :
            Cardinality({c \in ghost.let[p] : now - Duration < c[2] /\ c[2] <= now}) <= Rate
      <3>1. \A now \in Time : {c \in ghost.let[p] : now - Duration < c[2] /\ c[2] <= now} = {}
        BY <2>1
      <3>2. QED
        BY <3>1, FS_EmptySet, LimitAssumption
    <2>4. QED
      BY <2>1, <2>2, <2>3 DEF RateTrue
  <1>2. TypeInvariant /\ TypeInvariant' /\ RateInvariant /\ [Next]_vars => RateInvariant'
    BY RatesInductive DEF TypeInvariant
  <1>3. RateInvariant => RateKept
    BY DEF RateInvariant, RateTrue, RateKept
  <1>4. QED
    BY <1>1, <1>2, <1>3, TypeInvariantAlways, PTL DEF Spec
=============================================================================
