------------------------------- MODULE MfaProof -------------------------------
(***************************************************************************)
(* Proofs about Mfa, for any browsers and threads, any number of backup    *)
(* codes and any bounds.                                                   *)
(***************************************************************************)
EXTENDS Mfa, FiniteSetTheorems, TLAPS

(***************************************************************************)
(* What types alone do not say: what a request has got where it is, and    *)
(* that a primary key is left for each request that will take one.         *)
(***************************************************************************)
Copying(t) == thread[t].pc \in {"verify_token", "confirm"}

Known(t) ==
  /\ Enrolling(t) => thread[t].op = "enroll"
  /\ Issuing(t) => thread[t].op \in {"enroll", "reset"}
  /\ thread[t].op = "reset" => Issuing(t)
  /\ thread[t].pc = "match" => thread[t].op = "verify"
  /\ thread[t].pc = "respond" => thread[t].op \in {"enroll", "verify"}
  /\ thread[t].op \in {"enroll", "verify"} => thread[t].browser \in Browsers
  /\ Copying(t) \/ (thread[t].op = "enroll" /\ (Issuing(t) \/ thread[t].pc = "respond")) =>
       thread[t].device # 0
  /\ thread[t].op = "enroll" /\ thread[t].pc = "respond" =>
       thread[t].factor = [kind |-> "totp", id |-> thread[t].device]
  /\ thread[t].pc = "create_token" => thread[t].count < CodeCount
  /\ thread[t].count # 0 => \/ thread[t].pc = "create_token"
                            \/ thread[t].op = "enroll" /\ thread[t].pc = "respond"
  /\ thread[t].set # 0 <=> \/ thread[t].pc = "create_token"
                           \/ thread[t].op = "enroll" /\ thread[t].pc = "respond"

RequestsKnown == \A t \in Threads : Known(t)

WantDevice == {t \in Threads : thread[t].pc \in {"get_device", "create_device"}}
WantSet ==
  {t \in Threads : Enrolling(t) \/ thread[t].pc \in {"select_backup", "delete_backup", "create_backup"}}

RoomKept ==
  /\ serial.device + Cardinality(WantDevice) <= MaxDevices + 1
  /\ serial.set + Cardinality(WantSet) <= MaxSets + 1

TypeInvariant == TypeOK /\ RequestsKnown /\ RoomKept

(***************************************************************************)
(* Primary keys are never used twice: what exists, is held or is known has *)
(* a key already given, and a set of codes is one request's until shown.   *)
(***************************************************************************)
KeysGiven ==
  /\ \A d \in Devices : totp[d] # "absent" => d < serial.device
  /\ \A s \in backup \cup ghost.shown : s < serial.set
  /\ \A b \in Browsers : session[b].factor.kind = "backup" => session[b].factor.id < serial.set
  /\ \A t \in Threads :
       /\ thread[t].device < serial.device /\ thread[t].set < serial.set
       /\ thread[t].factor.kind = "backup" => thread[t].factor.id < serial.set

SetsOwned ==
  /\ \A t, u \in Threads : t # u /\ thread[t].set # 0 => thread[t].set # thread[u].set
  /\ \A t \in Threads : thread[t].set \notin ghost.shown
  /\ \A c \in tokens : c[1] \in backup
  /\ \A c \in ghost.spent : c[1] \in ghost.shown

KeyInvariant == KeysGiven /\ SetsOwned

(***************************************************************************)
(* While enrolments do not overlap, the one under way finds no confirmed   *)
(* device, and no other device than the one it has a copy of.              *)
(***************************************************************************)
OneDevice == \A d, e \in Devices : totp[d] # "absent" /\ totp[e] # "absent" => d = e

EnrolsAlone(t) ==
  /\ \A u \in Threads : Enrolling(u) => u = t
  /\ ~Enrolled
  /\ thread[t].pc = "create_device" => \A d \in Devices : totp[d] = "absent"
  /\ Copying(t) => \A d \in Devices : totp[d] # "absent" => d = thread[t].device

DeviceInvariant ==
  ~ghost.contested =>
    /\ OneDevice
    /\ ghost.enrolled => Enrolled
    /\ \A t \in Threads : Enrolling(t) => EnrolsAlone(t)

(***************************************************************************)
(* A device a session signs in with is confirmed until a reset removes it, *)
(* and nobody has a copy to save of one that was removed; the backup sets  *)
(* a reset found are selected, or gone.                                    *)
(***************************************************************************)
Lasting(d) == totp[d] = "confirmed" \/ d \in ghost.removed

FactorsLast ==
  /\ \A b \in Browsers : session[b].factor.kind = "totp" => Lasting(session[b].factor.id)
  /\ \A t \in Threads :
       /\ thread[t].factor.kind = "totp" => Lasting(thread[t].factor.id)
       /\ thread[t].op = "enroll" /\ Issuing(t) => Lasting(thread[t].device)

RemovedGone ==
  /\ \A d \in ghost.removed : totp[d] = "absent" /\ d < serial.device
  /\ \A t \in Threads : Copying(t) => thread[t].device \notin ghost.removed

DeviceGone(b) == session[b].factor.kind = "totp" => session[b].factor.id \in ghost.removed
CodesGone(b) == session[b].factor.kind = "backup" => session[b].factor.id \notin backup

SignedOut(t) ==
  thread[t].op = "reset" =>
    \A b \in ghost.before[t] :
      /\ DeviceGone(b)
      /\ thread[t].pc = "delete_backup" =>
           CodesGone(b) \/ session[b].factor.id \in thread[t].ids
      /\ thread[t].pc \in {"create_backup", "create_token"} => CodesGone(b)

ResetInvariant ==
  ~ghost.contested =>
    /\ FactorsLast /\ RemovedGone
    /\ \A t \in Threads : SignedOut(t)
    /\ \A b \in ghost.out : DeviceGone(b) /\ CodesGone(b)

(***************************************************************************)
(* A thread that issues codes alone has seen all of the backup devices,    *)
(* then deleted them, then created its own and the tokens so far.          *)
(***************************************************************************)
IssuesAlone(t) ==
  /\ \A u \in Threads : Issuing(u) => u = t
  /\ thread[t].pc = "delete_backup" => thread[t].ids = backup
  /\ thread[t].pc = "create_backup" => backup = {}
  /\ thread[t].pc = "create_token" => /\ backup = {thread[t].set}
                                      /\ tokens = {thread[t].set} \X (1..thread[t].count)

CodesInvariant ==
  /\ \A t \in ghost.alone : Issuing(t) => IssuesAlone(t)
  /\ ghost.good # 0 => \A t \in Threads : ~Issuing(t)
  /\ CodesReplaced

-----------------------------------------------------------------------------
\* Counting: a set that gains one element at most, none, or loses one.
LEMMA Joins ==
  ASSUME NEW S, NEW T, NEW x, IsFiniteSet(S), T \subseteq S \cup {x}
  PROVE  Cardinality(T) \in Nat /\ Cardinality(T) <= Cardinality(S) + 1
  <1> Cardinality(S) \in Nat
    BY FS_CardinalityType
  <1>1. IsFiniteSet(S \cup {x}) /\ Cardinality(S \cup {x}) <= Cardinality(S) + 1
    BY FS_AddElement
  <1>2. IsFiniteSet(T) /\ Cardinality(T) <= Cardinality(S \cup {x})
    BY <1>1, FS_Subset
  <1>3. QED
    BY <1>1, <1>2, FS_CardinalityType

LEMMA Stays ==
  ASSUME NEW S, NEW T, IsFiniteSet(S), T \subseteq S
  PROVE  Cardinality(T) \in Nat /\ Cardinality(S) \in Nat /\ Cardinality(T) <= Cardinality(S)
  BY FS_Subset, FS_CardinalityType

LEMMA Leaves ==
  ASSUME NEW S, NEW T, NEW x \in S, IsFiniteSet(S), T \subseteq S \ {x}
  PROVE  Cardinality(T) \in Nat /\ Cardinality(S) \in Nat /\ Cardinality(T) + 1 <= Cardinality(S)
  <1>1. IsFiniteSet(S \ {x}) /\ Cardinality(S \ {x}) = Cardinality(S) - 1
    BY FS_RemoveElement
  <1>2. IsFiniteSet(T) /\ Cardinality(T) <= Cardinality(S \ {x})
    BY <1>1, FS_Subset
  <1>3. QED
    BY <1>1, <1>2, FS_CardinalityType

LEMMA ThreadsFinite ==
  /\ IsFiniteSet(WantDevice) /\ IsFiniteSet(WantSet)
  /\ Cardinality(WantDevice) \in Nat /\ Cardinality(WantSet) \in Nat
  /\ \A ops : IsFiniteSet({t \in Threads : thread[t].op \in ops})
  <1>1. /\ WantDevice \subseteq Threads /\ WantSet \subseteq Threads
        /\ \A ops : {t \in Threads : thread[t].op \in ops} \subseteq Threads
    BY DEF WantDevice, WantSet
  <1>2. \A S \in SUBSET Threads : IsFiniteSet(S)
    BY ThreadsAssumption, FS_Subset
  <1>3. QED
    BY <1>1, <1>2, FS_CardinalityType

\* A request may begin: the keys it will take are left for it.
LEMMA RoomToBegin ==
  ASSUME TypeInvariant
  PROVE  /\ DeviceRoom => serial.device + Cardinality(WantDevice) <= MaxDevices
         /\ SetRoom => serial.set + Cardinality(WantSet) <= MaxSets
  <1>1. /\ WantDevice \subseteq {t \in Threads : thread[t].op \in {"enroll"}}
        /\ WantSet \subseteq {t \in Threads : thread[t].op \in {"enroll", "reset"}}
    BY DEF TypeInvariant, RequestsKnown, Known, WantDevice, WantSet, Enrolling, Issuing
  <1>2. /\ Cardinality(WantDevice) <= Doing({"enroll"})
        /\ Cardinality(WantSet) <= Doing({"enroll", "reset"})
        /\ Doing({"enroll"}) \in Nat /\ Doing({"enroll", "reset"}) \in Nat
    BY <1>1, ThreadsFinite, Stays DEF Doing
  <1>3. serial.device \in Nat /\ serial.set \in Nat
    BY BoundsAssumption DEF TypeInvariant, TypeOK
  <1>4. QED
    BY <1>2, <1>3, ThreadsFinite, BoundsAssumption DEF DeviceRoom, SetRoom

\* A request that is going to take a primary key finds one left.
LEMMA RoomToTake ==
  ASSUME TypeInvariant, NEW t \in Threads
  PROVE  /\ t \in WantDevice => serial.device \in Devices
         /\ t \in WantSet => serial.set \in Sets
  <1>1. \A S : IsFiniteSet(S) /\ t \in S => 1 <= Cardinality(S)
    BY FS_EmptySet, FS_CardinalityType
  <1>2. serial.device \in 1..(MaxDevices + 1) /\ serial.set \in 1..(MaxSets + 1)
    BY DEF TypeInvariant, TypeOK
  <1>3. QED
    BY <1>1, <1>2, ThreadsFinite, BoundsAssumption DEF TypeInvariant, RoomKept, Devices, Sets
-----------------------------------------------------------------------------
\* The records a thread and a session start from have their types.
LEMMA InitialRecords ==
  /\ Idle \in ThreadState /\ Anonymous \in Signed /\ NoFactor \in Factor
  /\ Idle.op = "idle" /\ Idle.pc = "idle" /\ Idle.device = 0 /\ Idle.set = 0 /\ Idle.count = 0
  /\ Idle.factor.kind = "none"
  /\ Anonymous.factor.kind = "none"
  <1>1. NoFactor \in Factor
    BY DEF NoFactor, Factor
  <1>2. QED
    BY <1>1, CountAssumption
    DEF Idle, ThreadState, OpNames, Pcs, NoFactor, Anonymous, Signed

\* Fields read from well-typed records.
LEMMA FieldTypes ==
  ASSUME TypeOK
  PROVE  /\ serial.device \in 1..(MaxDevices + 1) /\ serial.set \in 1..(MaxSets + 1)
         /\ \A t \in Threads :
              /\ thread[t] \in ThreadState
              /\ thread[t].op \in OpNames /\ thread[t].pc \in Pcs
              /\ thread[t].browser \in Browsers \cup {NoBrowser}
              /\ thread[t].device \in Devices \cup {0} /\ thread[t].ids \subseteq Sets
              /\ thread[t].set \in Sets \cup {0} /\ thread[t].count \in 0..CodeCount
              /\ thread[t].factor \in Factor
         /\ \A b \in Browsers : session[b] \in Signed /\ session[b].factor \in Factor
  <1>1. /\ \A t \in Threads : thread[t] \in ThreadState
        /\ \A b \in Browsers : session[b] \in Signed
    BY DEF TypeOK
  <1>2. QED
    BY <1>1 DEF TypeOK, ThreadState, Signed

LEMMA FactorTypes ==
  ASSUME NEW f \in Factor
  PROVE  /\ f.kind = "totp" => f.id \in Devices
         /\ f.kind = "backup" => f.id \in Sets
  BY DEF Factor

\* The fields of the history have their types.
LEMMA HistoryTypes ==
  ASSUME TypeOK
  PROVE  /\ ghost \in GhostState
         /\ ghost.contested \in BOOLEAN /\ ghost.enrolled \in BOOLEAN
         /\ ghost.removed \in SUBSET Devices /\ ghost.alone \in SUBSET Threads
         /\ ghost.good \in Sets \cup {0} /\ ghost.shown \in SUBSET Sets
         /\ ghost.spent \in SUBSET AllCodes
         /\ ghost.before \in [Threads -> SUBSET Browsers] /\ ghost.out \in SUBSET Browsers
  BY DEF TypeOK, GhostState

LEMMA NumberTypes ==
  /\ Devices \subseteq Nat /\ Sets \subseteq Nat /\ 0 \notin Devices /\ 0 \notin Sets
  /\ \A s \in Sets, n \in 1..CodeCount : <<s, n>> \in AllCodes
  /\ \A c \in AllCodes : c[1] \in Sets /\ c[2] \in 1..CodeCount /\ c = <<c[1], c[2]>>
  BY BoundsAssumption DEF Devices, Sets, AllCodes, Codes
-----------------------------------------------------------------------------
\* What a step leaves of a request and of the history.
SameRequest(t) ==
  /\ thread'[t].op = thread[t].op /\ thread'[t].browser = thread[t].browser
  /\ thread'[t].device = thread[t].device

SameCodes(t) ==
  /\ thread'[t].ids = thread[t].ids /\ thread'[t].set = thread[t].set
  /\ thread'[t].count = thread[t].count

Goes(t, pc) ==
  /\ thread'[t].pc = pc /\ thread'[t].factor = thread[t].factor
  /\ SameRequest(t) /\ SameCodes(t)

DeviceHistorySame ==
  /\ ghost'.contested = ghost.contested /\ ghost'.enrolled = ghost.enrolled
  /\ ghost'.removed = ghost.removed
ResetHistorySame == ghost'.before = ghost.before /\ ghost'.out = ghost.out
CodesHistorySame ==
  /\ ghost'.alone = ghost.alone /\ ghost'.good = ghost.good
  /\ ghost'.shown = ghost.shown /\ ghost'.spent = ghost.spent

Begins(t, op, pc) ==
  /\ thread[t] = Idle
  /\ thread'[t].op = op /\ thread'[t].pc = pc
  /\ thread'[t].device = 0 /\ thread'[t].set = 0 /\ thread'[t].count = 0
  /\ thread'[t].factor = NoFactor

LEMMA GotoMoves ==
  ASSUME TypeOK, NEW t \in Threads, NEW pc \in Pcs, Goto(t, pc)
  PROVE  Goes(t, pc) /\ thread' \in [Threads -> ThreadState]
  <1>1. thread' = [thread EXCEPT ![t] = [thread[t] EXCEPT !.pc = pc]]
    BY DEF Goto
  <1>2. [thread[t] EXCEPT !.pc = pc] \in ThreadState
    BY FieldTypes DEF ThreadState
  <1>3. thread'[t] = [thread[t] EXCEPT !.pc = pc] /\ thread' \in [Threads -> ThreadState]
    BY <1>1, <1>2 DEF TypeOK
  <1>4. thread[t] \in ThreadState
    BY FieldTypes
  <1>5. QED
    BY <1>3, <1>4 DEF ThreadState, Goes, SameRequest, SameCodes

LEMMA FinishMoves ==
  ASSUME TypeOK, NEW t \in Threads, Finish(t)
  PROVE  thread'[t] = Idle /\ thread' \in [Threads -> ThreadState]
  BY InitialRecords DEF TypeOK, Finish

LEMMA BeginMoves ==
  ASSUME TypeOK, NEW t \in Threads, NEW op \in OpNames, NEW pc \in Pcs,
         NEW b \in Browsers \cup {NoBrowser}, Begin(t, op, pc, b), thread[t] = Idle
  PROVE  /\ Begins(t, op, pc) /\ thread'[t].browser = b /\ thread' \in [Threads -> ThreadState]
  <1>1. thread'[t] = [Idle EXCEPT !.op = op, !.pc = pc, !.browser = b]
    BY DEF Begin, TypeOK
  <1>2. [Idle EXCEPT !.op = op, !.pc = pc, !.browser = b] \in ThreadState
    BY InitialRecords DEF ThreadState
  <1>3. thread' \in [Threads -> ThreadState]
    BY <1>2 DEF Begin, TypeOK
  <1>4. QED
    BY <1>1, <1>3 DEF Idle, Begins

\* A step of one thread leaves the others as they are.
LEMMA OtherThreads ==
  ASSUME TypeOK, NEW t \in Threads, Step(t)
  PROVE  /\ \A u \in Threads : u # t => thread'[u] = thread[u]
         /\ DOMAIN thread' = Threads
  BY DEF TypeOK, Step, StartEnroll, GetDevice, CreateDevice, VerifyToken, Confirm, StartReset,
         SelectBackups, DeleteBackups, CreateBackup, CreateToken, IssueDone, StartVerify, Match,
         Respond, Crash, Finish, Goto, Begin
-----------------------------------------------------------------------------
\* Enrolling, statement by statement.
LEMMA EnrollMoves ==
  ASSUME TypeOK, NEW t \in Threads, StartEnroll(t)
  PROVE  /\ Begins(t, "enroll", "get_device") /\ thread'[t].browser \in Browsers
         /\ DeviceRoom /\ SetRoom /\ ~Enrolled
         /\ ghost'.contested = (ghost.contested \/ \E u \in Threads : Enrolling(u))
         /\ ghost'.enrolled = ghost.enrolled /\ ghost'.removed = ghost.removed
         /\ ResetHistorySame /\ CodesHistorySame
         /\ UNCHANGED <<totp, backup, tokens, serial, session>>
         /\ TypeOK'
  <1>1. PICK b \in Browsers : Begin(t, "enroll", "get_device", b)
    BY DEF StartEnroll
  <1>2. /\ Begins(t, "enroll", "get_device") /\ thread'[t].browser \in Browsers
        /\ thread' \in [Threads -> ThreadState]
    <2>1. thread[t] = Idle /\ "enroll" \in OpNames /\ "get_device" \in Pcs
      BY DEF StartEnroll, IsIdle, OpNames, Pcs
    <2>2. QED
      BY <1>1, <2>1, BeginMoves
  <1>3. ghost' = [ghost EXCEPT !.contested = ghost.contested \/ \E u \in Threads : Enrolling(u)]
    BY DEF StartEnroll
  <1>4. /\ ghost'.contested = (ghost.contested \/ \E u \in Threads : Enrolling(u))
        /\ ghost'.enrolled = ghost.enrolled /\ ghost'.removed = ghost.removed
        /\ ResetHistorySame /\ CodesHistorySame /\ ghost' \in GhostState
    BY <1>3, HistoryTypes DEF GhostState, ResetHistorySame, CodesHistorySame
  <1>5. QED
    BY <1>2, <1>4 DEF StartEnroll, TypeOK

LEMMA GetMoves ==
  ASSUME TypeOK, NEW t \in Threads, GetDevice(t)
  PROVE  /\ thread[t].pc = "get_device"
         /\ \/ thread'[t] = Idle
            \/ Goes(t, "create_device") /\ WithStatus("unconfirmed") = {}
            \/ /\ WithStatus("unconfirmed") = {thread'[t].device} /\ thread'[t].pc = "verify_token"
               /\ thread'[t].op = thread[t].op /\ thread'[t].browser = thread[t].browser
               /\ thread'[t].factor = thread[t].factor /\ SameCodes(t)
         /\ ghost' = ghost
         /\ UNCHANGED <<totp, backup, tokens, serial, session>>
         /\ TypeOK'
  <1>0. /\ thread[t].pc = "get_device" /\ ghost' = ghost
        /\ UNCHANGED <<totp, backup, tokens, serial, session>>
    BY DEF GetDevice
  <1>1. CASE WithStatus("unconfirmed") = {} /\ Goto(t, "create_device")
    BY <1>0, <1>1, GotoMoves DEF Pcs, TypeOK
  <1>2. ASSUME NEW d \in WithStatus("unconfirmed"), WithStatus("unconfirmed") = {d},
               thread' = [thread EXCEPT ![t].device = d, ![t].pc = "verify_token"]
        PROVE  /\ thread'[t].device = d /\ thread'[t].pc = "verify_token"
               /\ thread'[t].op = thread[t].op /\ thread'[t].browser = thread[t].browser
               /\ thread'[t].factor = thread[t].factor /\ SameCodes(t)
               /\ thread' \in [Threads -> ThreadState]
    <2>1. thread[t] \in ThreadState /\ d \in Devices
      BY FieldTypes DEF WithStatus
    <2>2. [thread[t] EXCEPT !.device = d, !.pc = "verify_token"] \in ThreadState
      BY <2>1 DEF ThreadState, Pcs
    <2>3. /\ thread'[t] = [thread[t] EXCEPT !.device = d, !.pc = "verify_token"]
          /\ thread' \in [Threads -> ThreadState]
      BY <1>2, <2>2 DEF TypeOK
    <2>4. QED
      BY <2>1, <2>3 DEF ThreadState, SameCodes
  <1>3. CASE Finish(t)
    BY <1>0, <1>3, FinishMoves DEF TypeOK
  <1>4. CASE \E d \in WithStatus("unconfirmed") :
               /\ WithStatus("unconfirmed") = {d}
               /\ thread' = [thread EXCEPT ![t].device = d, ![t].pc = "verify_token"]
    <2>1. PICK d \in WithStatus("unconfirmed") :
               /\ WithStatus("unconfirmed") = {d}
               /\ thread' = [thread EXCEPT ![t].device = d, ![t].pc = "verify_token"]
      BY <1>4
    <2>2. QED
      BY <1>0, <1>2, <2>1 DEF TypeOK
  <1>5. QED
    BY <1>1, <1>3, <1>4 DEF GetDevice

LEMMA CreateMoves ==
  ASSUME TypeInvariant, NEW t \in Threads, CreateDevice(t)
  PROVE  /\ thread[t].pc = "create_device" /\ serial.device \in Devices
         /\ totp' = [totp EXCEPT ![serial.device] = "unconfirmed"]
         /\ serial'.device = serial.device + 1 /\ serial'.set = serial.set
         /\ thread'[t].device = serial.device /\ thread'[t].pc = "verify_token"
         /\ thread'[t].op = thread[t].op /\ thread'[t].browser = thread[t].browser
         /\ thread'[t].factor = thread[t].factor /\ SameCodes(t)
         /\ ghost' = ghost
         /\ UNCHANGED <<backup, tokens, session>>
         /\ TypeOK'
  <1>0. /\ thread[t].pc = "create_device" /\ ghost' = ghost /\ TypeOK
        /\ totp' = [totp EXCEPT ![serial.device] = "unconfirmed"]
        /\ serial' = [serial EXCEPT !.device = @ + 1]
        /\ thread' = [thread EXCEPT ![t].device = serial.device, ![t].pc = "verify_token"]
        /\ UNCHANGED <<backup, tokens, session>>
    BY DEF CreateDevice, TypeInvariant
  <1>1. serial.device \in Devices
    BY <1>0, RoomToTake DEF WantDevice
  <1>2. /\ serial'.device = serial.device + 1 /\ serial'.set = serial.set
        /\ serial' \in [device: 1..(MaxDevices + 1), set: 1..(MaxSets + 1)]
    <2>1. serial.device + 1 \in 1..(MaxDevices + 1)
      BY <1>1, BoundsAssumption DEF Devices
    <2>2. QED
      BY <1>0, <2>1 DEF TypeOK
  <1>3. /\ thread'[t].device = serial.device /\ thread'[t].pc = "verify_token"
        /\ thread'[t].op = thread[t].op /\ thread'[t].browser = thread[t].browser
        /\ thread'[t].factor = thread[t].factor /\ SameCodes(t)
        /\ thread' \in [Threads -> ThreadState]
    <2>1. thread[t] \in ThreadState
      BY <1>0, FieldTypes
    <2>2. [thread[t] EXCEPT !.device = serial.device, !.pc = "verify_token"] \in ThreadState
      BY <1>1, <2>1 DEF ThreadState, Pcs
    <2>3. /\ thread'[t] = [thread[t] EXCEPT !.device = serial.device, !.pc = "verify_token"]
          /\ thread' \in [Threads -> ThreadState]
      BY <1>0, <2>2 DEF TypeOK
    <2>4. QED
      BY <2>1, <2>3 DEF ThreadState, SameCodes
  <1>4. totp' \in [Devices -> Status]
    BY <1>0 DEF TypeOK, Status
  <1>5. QED
    BY <1>0, <1>1, <1>2, <1>3, <1>4 DEF TypeOK

LEMMA VerifyMoves ==
  ASSUME TypeOK, NEW t \in Threads, VerifyToken(t)
  PROVE  /\ thread[t].pc = "verify_token"
         /\ totp' = totp \/ totp' = [totp EXCEPT ![thread[t].device] = "unconfirmed"]
         /\ thread'[t] = Idle \/ Goes(t, "confirm")
         /\ ghost' = ghost
         /\ UNCHANGED <<backup, tokens, serial, session>>
         /\ TypeOK'
  <1>1. thread' \in [Threads -> ThreadState] /\ (thread'[t] = Idle \/ Goes(t, "confirm"))
    BY FinishMoves, GotoMoves DEF VerifyToken, Pcs
  <1>2. totp' \in [Devices -> Status]
    BY DEF VerifyToken, TypeOK, Status
  <1>3. QED
    BY <1>1, <1>2 DEF VerifyToken, TypeOK

LEMMA ConfirmMoves ==
  ASSUME TypeOK, NEW t \in Threads, Confirm(t)
  PROVE  /\ thread[t].pc = "confirm" /\ Goes(t, "select_backup")
         /\ totp' = [totp EXCEPT ![thread[t].device] = "confirmed"]
         /\ ghost'.enrolled = TRUE /\ ghost'.contested = ghost.contested
         /\ ghost'.removed = ghost.removed /\ ResetHistorySame
         /\ ghost'.good = 0 /\ ghost'.shown = ghost.shown /\ ghost'.spent = ghost.spent
         /\ ghost'.alone = IF \E u \in Threads \ {t} : Issuing(u) THEN {} ELSE {t}
         /\ UNCHANGED <<backup, tokens, serial, session>>
         /\ TypeOK'
  <1>1. thread' \in [Threads -> ThreadState] /\ Goes(t, "select_backup")
    BY GotoMoves DEF Confirm, Pcs
  <1>2. totp' \in [Devices -> Status]
    BY DEF Confirm, TypeOK, Status
  <1>3. PICK alone : alone = IF \E u \in Threads \ {t} : Issuing(u) THEN {} ELSE {t}
    OBVIOUS
  <1>4. ghost' = [ghost EXCEPT !.enrolled = TRUE, !.good = 0, !.alone = alone]
    BY <1>3, HistoryTypes DEF Confirm, BeginIssue, GhostState
  <1>5. alone \subseteq Threads
    BY <1>3
  <1>6. /\ ghost'.enrolled = TRUE /\ ghost'.contested = ghost.contested
        /\ ghost'.removed = ghost.removed /\ ResetHistorySame
        /\ ghost'.good = 0 /\ ghost'.shown = ghost.shown /\ ghost'.spent = ghost.spent
        /\ ghost'.alone = alone /\ ghost' \in GhostState
    BY <1>4, <1>5, HistoryTypes DEF GhostState, ResetHistorySame
  <1>7. QED
    BY <1>1, <1>2, <1>3, <1>6 DEF Confirm, TypeOK
-----------------------------------------------------------------------------
\* A reset, and the codes that follow it or an enrolment.
LEMMA ResetMoves ==
  ASSUME TypeOK, NEW t \in Threads, StartReset(t)
  PROVE  /\ Begins(t, "reset", "select_backup") /\ SetRoom
         /\ totp' = [d \in Devices |-> IF totp[d] = "confirmed" THEN "absent" ELSE totp[d]]
         /\ ghost'.enrolled = FALSE /\ ghost'.contested = ghost.contested
         /\ ghost'.removed = ghost.removed \cup WithStatus("confirmed")
         /\ ghost'.before = [ghost.before EXCEPT ![t] = {b \in Browsers : Verified(b)}]
         /\ ghost'.out = ghost.out
         /\ ghost'.good = 0 /\ ghost'.shown = ghost.shown /\ ghost'.spent = ghost.spent
         /\ ghost'.alone = IF \E u \in Threads \ {t} : Issuing(u) THEN {} ELSE {t}
         /\ UNCHANGED <<backup, tokens, serial, session>>
         /\ TypeOK'
  <1>1. thread' \in [Threads -> ThreadState] /\ Begins(t, "reset", "select_backup")
    <2>1. /\ thread[t] = Idle /\ "reset" \in OpNames /\ "select_backup" \in Pcs
          /\ Begin(t, "reset", "select_backup", NoBrowser)
      BY DEF StartReset, IsIdle, OpNames, Pcs
    <2>2. QED
      BY <2>1, BeginMoves
  <1>2. totp' \in [Devices -> Status]
    BY DEF StartReset, TypeOK, Status
  <1>3. PICK alone, removed, before :
          /\ alone = IF \E u \in Threads \ {t} : Issuing(u) THEN {} ELSE {t}
          /\ removed = ghost.removed \cup WithStatus("confirmed")
          /\ before = [ghost.before EXCEPT ![t] = {b \in Browsers : Verified(b)}]
    OBVIOUS
  <1>4. ghost' = [ghost EXCEPT !.enrolled = FALSE, !.removed = removed, !.before = before,
                               !.good = 0, !.alone = alone]
    BY <1>3, HistoryTypes DEF StartReset, BeginIssue, GhostState
  <1>5. /\ alone \subseteq Threads /\ removed \subseteq Devices
        /\ before \in [Threads -> SUBSET Browsers]
    BY <1>3, HistoryTypes DEF WithStatus
  <1>6. /\ ghost'.enrolled = FALSE /\ ghost'.contested = ghost.contested
        /\ ghost'.removed = removed /\ ghost'.before = before /\ ghost'.out = ghost.out
        /\ ghost'.good = 0 /\ ghost'.shown = ghost.shown /\ ghost'.spent = ghost.spent
        /\ ghost'.alone = alone /\ ghost' \in GhostState
    BY <1>4, <1>5, HistoryTypes DEF GhostState
  <1>7. QED
    BY <1>1, <1>2, <1>3, <1>6 DEF StartReset, TypeOK

LEMMA SelectMoves ==
  ASSUME TypeOK, NEW t \in Threads, SelectBackups(t)
  PROVE  /\ thread[t].pc = "select_backup" /\ thread'[t].pc = "delete_backup"
         /\ thread'[t].ids = backup /\ thread'[t].set = thread[t].set
         /\ thread'[t].count = thread[t].count /\ thread'[t].factor = thread[t].factor
         /\ SameRequest(t) /\ ghost' = ghost
         /\ UNCHANGED <<totp, backup, tokens, serial, session>>
         /\ TypeOK'
  <1>1. thread[t] \in ThreadState /\ backup \in SUBSET Sets
    BY FieldTypes DEF TypeOK
  <1>2. [thread[t] EXCEPT !.ids = backup, !.pc = "delete_backup"] \in ThreadState
    BY <1>1 DEF ThreadState, Pcs
  <1>3. /\ thread'[t] = [thread[t] EXCEPT !.ids = backup, !.pc = "delete_backup"]
        /\ thread' \in [Threads -> ThreadState]
    BY <1>2 DEF SelectBackups, TypeOK
  <1>4. /\ thread'[t].pc = "delete_backup"
        /\ thread'[t].ids = backup /\ thread'[t].set = thread[t].set
        /\ thread'[t].count = thread[t].count /\ thread'[t].factor = thread[t].factor
        /\ SameRequest(t)
    BY <1>1, <1>3 DEF ThreadState, SameRequest
  <1>5. QED
    BY <1>3, <1>4 DEF SelectBackups, TypeOK

LEMMA DeleteMoves ==
  ASSUME TypeOK, NEW t \in Threads, DeleteBackups(t)
  PROVE  /\ thread[t].pc = "delete_backup"
         /\ DeviceHistorySame /\ ghost'.out = ghost.out
         /\ ghost'.alone = ghost.alone /\ ghost'.good = ghost.good
         /\ \/ /\ Goes(t, "create_backup") /\ ghost'.before = ghost.before
               /\ backup' = backup \ thread[t].ids
               /\ tokens' = {c \in tokens : c[1] \notin thread[t].ids}
               /\ ghost'.shown = ghost.shown \ thread[t].ids
               /\ ghost'.spent = {c \in ghost.spent : c[1] \notin thread[t].ids}
            \/ /\ thread'[t] = Idle /\ ghost'.before = [ghost.before EXCEPT ![t] = {}]
               /\ backup' = backup /\ tokens' = tokens
               /\ ghost'.shown = ghost.shown /\ ghost'.spent = ghost.spent
         /\ UNCHANGED <<totp, serial, session>>
         /\ TypeOK'
  <1> DEFINE ids == thread[t].ids
  <1>0. thread[t].pc = "delete_backup" /\ UNCHANGED <<totp, serial, session>>
    BY DEF DeleteBackups
  <1>1. CASE /\ backup' = backup \ ids
             /\ tokens' = {c \in tokens : c[1] \notin ids}
             /\ Goto(t, "create_backup")
             /\ ghost' = [ghost EXCEPT !.shown = @ \ ids, !.spent = {c \in @ : c[1] \notin ids}]
    <2>1. Goes(t, "create_backup") /\ thread' \in [Threads -> ThreadState]
      BY <1>1, GotoMoves DEF Pcs
    <2>2. PICK shown, spent : /\ shown = ghost.shown \ ids
                              /\ spent = {c \in ghost.spent : c[1] \notin ids}
      OBVIOUS
    <2>3. ghost' = [ghost EXCEPT !.shown = shown, !.spent = spent]
      BY <1>1, <2>2
    <2>4. shown \subseteq Sets /\ spent \subseteq AllCodes
      BY <2>2, HistoryTypes
    <2>5. /\ DeviceHistorySame /\ ResetHistorySame /\ ghost'.alone = ghost.alone
          /\ ghost'.good = ghost.good /\ ghost'.shown = shown /\ ghost'.spent = spent
          /\ ghost' \in GhostState
      BY <2>3, <2>4, HistoryTypes DEF GhostState, DeviceHistorySame, ResetHistorySame
    <2>6. TypeOK'
      BY <1>0, <1>1, <2>1, <2>5 DEF TypeOK
    <2>7. QED
      BY <1>0, <1>1, <2>1, <2>2, <2>5, <2>6 DEF ResetHistorySame
  <1>2. CASE /\ Finish(t) /\ ghost' = [ghost EXCEPT !.before[t] = {}]
             /\ UNCHANGED <<backup, tokens>>
    <2>1. thread'[t] = Idle /\ thread' \in [Threads -> ThreadState]
      BY <1>2, FinishMoves
    <2>2. /\ DeviceHistorySame /\ CodesHistorySame /\ ghost'.out = ghost.out
          /\ ghost'.before = [ghost.before EXCEPT ![t] = {}] /\ ghost' \in GhostState
      BY <1>2, HistoryTypes DEF GhostState, DeviceHistorySame, CodesHistorySame
    <2>3. TypeOK'
      BY <1>0, <1>2, <2>1, <2>2 DEF TypeOK
    <2>4. QED
      BY <1>0, <1>2, <2>1, <2>2, <2>3 DEF CodesHistorySame
  <1>3. QED
    BY <1>1, <1>2 DEF DeleteBackups

LEMMA CreateBackupMoves ==
  ASSUME TypeInvariant, NEW t \in Threads, CreateBackup(t)
  PROVE  /\ thread[t].pc = "create_backup" /\ serial.set \in Sets
         /\ backup' = backup \cup {serial.set}
         /\ serial'.set = serial.set + 1 /\ serial'.device = serial.device
         /\ thread'[t].pc = "create_token" /\ thread'[t].set = serial.set
         /\ thread'[t].ids = thread[t].ids /\ thread'[t].count = thread[t].count
         /\ thread'[t].factor = thread[t].factor /\ SameRequest(t)
         /\ ghost' = ghost
         /\ UNCHANGED <<totp, tokens, session>>
         /\ TypeOK'
  <1>0. /\ thread[t].pc = "create_backup" /\ ghost' = ghost /\ TypeOK
        /\ backup' = backup \cup {serial.set}
        /\ serial' = [serial EXCEPT !.set = @ + 1]
        /\ thread' = [thread EXCEPT ![t].set = serial.set, ![t].pc = "create_token"]
        /\ UNCHANGED <<totp, tokens, session>>
    BY DEF CreateBackup, TypeInvariant
  <1>1. serial.set \in Sets
    BY <1>0, RoomToTake DEF WantSet
  <1>2. /\ serial'.set = serial.set + 1 /\ serial'.device = serial.device
        /\ serial' \in [device: 1..(MaxDevices + 1), set: 1..(MaxSets + 1)]
    <2>1. serial.set + 1 \in 1..(MaxSets + 1)
      BY <1>1, BoundsAssumption DEF Sets
    <2>2. QED
      BY <1>0, <2>1 DEF TypeOK
  <1>3. /\ thread'[t].pc = "create_token" /\ thread'[t].set = serial.set
        /\ thread'[t].ids = thread[t].ids /\ thread'[t].count = thread[t].count
        /\ thread'[t].factor = thread[t].factor /\ SameRequest(t)
        /\ thread' \in [Threads -> ThreadState]
    <2>1. thread[t] \in ThreadState
      BY <1>0, FieldTypes
    <2>2. [thread[t] EXCEPT !.set = serial.set, !.pc = "create_token"] \in ThreadState
      BY <1>1, <2>1 DEF ThreadState, Pcs
    <2>3. /\ thread'[t] = [thread[t] EXCEPT !.set = serial.set, !.pc = "create_token"]
          /\ thread' \in [Threads -> ThreadState]
      BY <1>0, <2>2 DEF TypeOK
    <2>4. QED
      BY <2>1, <2>3 DEF ThreadState, SameRequest
  <1>4. QED
    BY <1>0, <1>1, <1>2, <1>3 DEF TypeOK

\* The last token: the codes are complete.
LEMMA DoneMoves ==
  ASSUME TypeInvariant, NEW t \in Threads, thread[t].pc = "create_token", IssueDone(t)
  PROVE  /\ IF thread[t].op = "enroll"
              THEN /\ thread'[t].pc = "respond" /\ SameRequest(t)
                   /\ thread'[t].factor = [kind |-> "totp", id |-> thread[t].device]
                   /\ thread'[t].ids = thread[t].ids /\ thread'[t].set = thread[t].set
              ELSE thread'[t] = Idle
         /\ ghost'.good = IF t \in ghost.alone THEN thread[t].set ELSE ghost.good
         /\ ghost'.shown = IF thread[t].op = "reset" THEN ghost.shown \cup {thread[t].set}
                                                     ELSE ghost.shown
         /\ ghost'.out = IF thread[t].op = "reset" THEN ghost.out \cup ghost.before[t]
                                                   ELSE ghost.out
         /\ ghost'.before = [ghost.before EXCEPT ![t] = {}]
         /\ ghost'.alone = ghost.alone /\ ghost'.spent = ghost.spent /\ DeviceHistorySame
         /\ thread' \in [Threads -> ThreadState] /\ ghost' \in GhostState
  <1>0. TypeOK /\ RequestsKnown /\ Known(t) /\ thread[t] \in ThreadState
    BY FieldTypes DEF TypeInvariant, RequestsKnown
  <1>1. thread[t].set \in Sets
    BY <1>0, FieldTypes DEF Known
  <1>2. /\ thread' \in [Threads -> ThreadState]
        /\ IF thread[t].op = "enroll"
             THEN /\ thread'[t].pc = "respond" /\ SameRequest(t)
                  /\ thread'[t].factor = [kind |-> "totp", id |-> thread[t].device]
                  /\ thread'[t].ids = thread[t].ids /\ thread'[t].set = thread[t].set
             ELSE thread'[t] = Idle
    <2>1. CASE thread[t].op = "enroll"
      <3>1. PICK factor : factor = [kind |-> "totp", id |-> thread[t].device]
        OBVIOUS
      <3>2. factor \in Factor /\ CodeCount \in 0..CodeCount
        BY <1>0, <2>1, <3>1, FieldTypes, CountAssumption DEF Known, Issuing, Factor
      <3>3. [thread[t] EXCEPT !.count = CodeCount, !.pc = "respond", !.factor = factor]
              \in ThreadState
        BY <1>0, <3>2 DEF ThreadState, Pcs
      <3>4. /\ thread'[t] = [thread[t] EXCEPT !.count = CodeCount, !.pc = "respond",
                                              !.factor = factor]
            /\ thread' \in [Threads -> ThreadState]
        BY <1>0, <2>1, <3>1, <3>3 DEF IssueDone, TypeOK
      <3>5. /\ thread'[t].pc = "respond" /\ SameRequest(t) /\ thread'[t].factor = factor
            /\ thread'[t].ids = thread[t].ids /\ thread'[t].set = thread[t].set
        BY <1>0, <3>4 DEF ThreadState, SameRequest
      <3>6. QED
        BY <2>1, <3>1, <3>4, <3>5
    <2>2. CASE thread[t].op # "enroll"
      BY <1>0, <2>2, FinishMoves DEF IssueDone
    <2>3. QED
      BY <2>1, <2>2
  <1>3. PICK good, shown, out, before :
          /\ good = IF t \in ghost.alone THEN thread[t].set ELSE ghost.good
          /\ shown = IF thread[t].op = "reset" THEN ghost.shown \cup {thread[t].set}
                                               ELSE ghost.shown
          /\ out = IF thread[t].op = "reset" THEN ghost.out \cup ghost.before[t] ELSE ghost.out
          /\ before = [ghost.before EXCEPT ![t] = {}]
    OBVIOUS
  <1>4. ghost' = [ghost EXCEPT !.good = good, !.shown = shown, !.out = out, !.before = before]
    BY <1>0, <1>3, HistoryTypes DEF IssueDone, GhostState
  <1>5. /\ good \in Sets \cup {0} /\ shown \subseteq Sets /\ out \subseteq Browsers
        /\ before \in [Threads -> SUBSET Browsers]
    BY <1>0, <1>1, <1>3, HistoryTypes
  <1>6. /\ ghost'.good = good /\ ghost'.shown = shown /\ ghost'.out = out
        /\ ghost'.before = before /\ ghost'.alone = ghost.alone /\ ghost'.spent = ghost.spent
        /\ DeviceHistorySame /\ ghost' \in GhostState
    BY <1>0, <1>4, <1>5, HistoryTypes DEF GhostState, DeviceHistorySame
  <1>7. QED
    BY <1>2, <1>3, <1>6

LEMMA TokenMoves ==
  ASSUME TypeInvariant, NEW t \in Threads, CreateToken(t)
  PROVE  /\ thread[t].pc = "create_token"
         /\ \/ /\ thread[t].set \notin backup /\ thread'[t] = Idle
               /\ tokens' = tokens /\ ghost' = ghost
            \/ /\ thread[t].set \in backup
               /\ tokens' = tokens \cup {<<thread[t].set, thread[t].count + 1>>}
               /\ \/ /\ thread[t].count + 1 = CodeCount /\ IssueDone(t)
                  \/ /\ thread[t].count + 1 # CodeCount /\ ghost' = ghost
                     /\ thread'[t].count = thread[t].count + 1
                     /\ thread'[t].pc = "create_token" /\ thread'[t].ids = thread[t].ids
                     /\ thread'[t].set = thread[t].set /\ SameRequest(t)
                     /\ thread'[t].factor = thread[t].factor
         /\ UNCHANGED <<totp, backup, serial, session>>
         /\ TypeOK'
  <1>0. /\ TypeOK /\ Known(t) /\ thread[t] \in ThreadState /\ thread[t].pc = "create_token"
        /\ UNCHANGED <<totp, backup, serial, session>>
    BY FieldTypes DEF TypeInvariant, RequestsKnown, CreateToken
  <1>1. CASE /\ thread[t].set \notin backup /\ Finish(t) /\ UNCHANGED <<tokens, ghost>>
    BY <1>0, <1>1, FinishMoves DEF TypeOK
  <1>2. CASE /\ thread[t].set \in backup
             /\ tokens' = tokens \cup {<<thread[t].set, thread[t].count + 1>>}
             /\ IF thread[t].count + 1 = CodeCount
                  THEN IssueDone(t)
                  ELSE thread' = [thread EXCEPT ![t].count = thread[t].count + 1] /\ UNCHANGED ghost
    <2>1. thread[t].count + 1 \in 1..CodeCount /\ thread[t].set \in Sets
      BY <1>0, FieldTypes, CountAssumption DEF Known
    <2>2. tokens' \subseteq AllCodes
      BY <1>0, <1>2, <2>1, NumberTypes DEF TypeOK
    <2>3. CASE thread[t].count + 1 = CodeCount
      <3>1. thread' \in [Threads -> ThreadState] /\ ghost' \in GhostState
        BY <1>0, <1>2, <2>3, DoneMoves
      <3>2. QED
        BY <1>0, <1>2, <2>2, <2>3, <3>1 DEF TypeOK
    <2>4. CASE thread[t].count + 1 # CodeCount
      <3>1. PICK n \in 0..CodeCount : n = thread[t].count + 1
        BY <2>1
      <3>2. [thread[t] EXCEPT !.count = n] \in ThreadState
        BY <1>0 DEF ThreadState
      <3>3. /\ thread'[t] = [thread[t] EXCEPT !.count = n]
            /\ thread' \in [Threads -> ThreadState]
        BY <1>0, <1>2, <2>4, <3>1, <3>2 DEF TypeOK
      <3>4. /\ thread'[t].count = n
            /\ thread'[t].pc = thread[t].pc /\ thread'[t].ids = thread[t].ids
            /\ thread'[t].set = thread[t].set /\ SameRequest(t)
            /\ thread'[t].factor = thread[t].factor
        BY <1>0, <3>3 DEF ThreadState, SameRequest
      <3>5. TypeOK'
        BY <1>0, <1>2, <2>2, <2>4, <3>3 DEF TypeOK
      <3>6. QED
        BY <1>0, <1>2, <2>4, <3>1, <3>4, <3>5
    <2>5. QED
      BY <2>3, <2>4
  <1>3. QED
    BY <1>1, <1>2 DEF CreateToken
-----------------------------------------------------------------------------
\* Signing in: the second factor, and the response.
LEMMA StartVerifyMoves ==
  ASSUME TypeOK, NEW t \in Threads, StartVerify(t)
  PROVE  /\ Begins(t, "verify", "match") /\ thread'[t].browser \in Browsers /\ ghost' = ghost
         /\ UNCHANGED <<totp, backup, tokens, serial, session>>
         /\ TypeOK'
  <1>1. PICK b \in Browsers : Begin(t, "verify", "match", b)
    BY DEF StartVerify
  <1>2. thread[t] = Idle /\ "verify" \in OpNames /\ "match" \in Pcs
    BY DEF StartVerify, IsIdle, OpNames, Pcs
  <1>3. /\ Begins(t, "verify", "match") /\ thread'[t].browser \in Browsers
        /\ thread' \in [Threads -> ThreadState]
    BY <1>1, <1>2, BeginMoves
  <1>4. QED
    BY <1>3 DEF StartVerify, TypeOK

\* A thread that accepts a factor.
Accepts(t, f) ==
  /\ thread'[t].pc = "respond" /\ thread'[t].factor = f /\ SameRequest(t) /\ SameCodes(t)

LEMMA AcceptMoves ==
  ASSUME TypeOK, NEW t \in Threads, NEW f \in Factor,
         thread' = [thread EXCEPT ![t].factor = f, ![t].pc = "respond"]
  PROVE  Accepts(t, f) /\ thread' \in [Threads -> ThreadState]
  <1>1. thread[t] \in ThreadState
    BY FieldTypes
  <1>2. [thread[t] EXCEPT !.factor = f, !.pc = "respond"] \in ThreadState
    BY <1>1 DEF ThreadState, Pcs
  <1>3. /\ thread'[t] = [thread[t] EXCEPT !.factor = f, !.pc = "respond"]
        /\ thread' \in [Threads -> ThreadState]
    BY <1>2 DEF TypeOK
  <1>4. QED
    BY <1>1, <1>3 DEF ThreadState, Accepts, SameRequest, SameCodes

LEMMA MatchMoves ==
  ASSUME TypeOK, NEW t \in Threads, Match(t)
  PROVE  /\ thread[t].pc = "match"
         /\ \/ thread'[t] = Idle /\ tokens' = tokens /\ ghost' = ghost
            \/ \E d \in WithStatus("confirmed") :
                 /\ Accepts(t, [kind |-> "totp", id |-> d]) /\ tokens' = tokens /\ ghost' = ghost
            \/ \E c \in tokens :
                 /\ c[1] \in ghost.shown
                 /\ Accepts(t, [kind |-> "backup", id |-> c[1]]) /\ tokens' = tokens \ {c}
                 /\ ghost'.spent = ghost.spent \cup {c} /\ ghost'.shown = ghost.shown
                 /\ ghost'.alone = ghost.alone /\ ghost'.good = ghost.good
                 /\ DeviceHistorySame /\ ResetHistorySame
         /\ UNCHANGED <<totp, backup, serial, session>>
         /\ TypeOK'
  <1>0. thread[t].pc = "match" /\ UNCHANGED <<totp, backup, serial, session>>
    BY DEF Match
  <1>1. CASE Finish(t) /\ UNCHANGED <<tokens, ghost>>
    BY <1>0, <1>1, FinishMoves DEF TypeOK
  <1>2. CASE \E d \in WithStatus("confirmed") :
               /\ thread' = [thread EXCEPT ![t].factor = [kind |-> "totp", id |-> d],
                                           ![t].pc = "respond"]
               /\ UNCHANGED <<tokens, ghost>>
    <2>1. PICK d \in WithStatus("confirmed") :
               /\ thread' = [thread EXCEPT ![t].factor = [kind |-> "totp", id |-> d],
                                           ![t].pc = "respond"]
               /\ UNCHANGED <<tokens, ghost>>
      BY <1>2
    <2>2. [kind |-> "totp", id |-> d] \in Factor
      BY DEF Factor, WithStatus
    <2>3. /\ Accepts(t, [kind |-> "totp", id |-> d]) /\ thread' \in [Threads -> ThreadState]
      BY <2>1, <2>2, AcceptMoves
    <2>4. TypeOK'
      BY <1>0, <2>1, <2>3 DEF TypeOK
    <2>5. QED
      BY <1>0, <2>1, <2>3, <2>4
  <1>3. CASE \E c \in tokens :
               /\ c[1] \in ghost.shown
               /\ tokens' = tokens \ {c}
               /\ thread' = [thread EXCEPT ![t].factor = [kind |-> "backup", id |-> c[1]],
                                           ![t].pc = "respond"]
               /\ ghost' = [ghost EXCEPT !.spent = @ \cup {c}]
    <2>1. PICK c \in tokens :
               /\ c[1] \in ghost.shown
               /\ tokens' = tokens \ {c}
               /\ thread' = [thread EXCEPT ![t].factor = [kind |-> "backup", id |-> c[1]],
                                           ![t].pc = "respond"]
               /\ ghost' = [ghost EXCEPT !.spent = @ \cup {c}]
      BY <1>3
    <2>2. c \in AllCodes /\ c[1] \in Sets
      BY NumberTypes DEF TypeOK
    <2>3. [kind |-> "backup", id |-> c[1]] \in Factor
      BY <2>2 DEF Factor
    <2>4. /\ Accepts(t, [kind |-> "backup", id |-> c[1]]) /\ thread' \in [Threads -> ThreadState]
      BY <2>1, <2>3, AcceptMoves
    <2>5. PICK spent : spent = ghost.spent \cup {c}
      OBVIOUS
    <2>6. ghost' = [ghost EXCEPT !.spent = spent] /\ spent \subseteq AllCodes
      BY <2>1, <2>2, <2>5, HistoryTypes
    <2>7. /\ ghost'.spent = spent /\ ghost'.shown = ghost.shown
          /\ ghost'.alone = ghost.alone /\ ghost'.good = ghost.good
          /\ DeviceHistorySame /\ ResetHistorySame /\ ghost' \in GhostState
      BY <2>6, HistoryTypes DEF GhostState, DeviceHistorySame, ResetHistorySame
    <2>8. TypeOK'
      BY <1>0, <2>1, <2>4, <2>7 DEF TypeOK
    <2>9. QED
      BY <1>0, <2>1, <2>4, <2>5, <2>7, <2>8
  <1>4. QED
    BY <1>1, <1>2, <1>3 DEF Match

\* A browser signs in or out: what the history says of it.
Anew(b) ==
  /\ ghost'.out = ghost.out \ {b}
  /\ \A u \in Threads : ghost'.before[u] = ghost.before[u] \ {b}
  /\ ghost'.alone = ghost.alone /\ ghost'.good = ghost.good /\ ghost'.spent = ghost.spent
  /\ DeviceHistorySame

LEMMA AnewTypes ==
  ASSUME TypeOK, NEW b \in Browsers, NEW shown \in SUBSET Sets,
         ghost' = SignedAnew(b, [ghost EXCEPT !.shown = shown])
  PROVE  Anew(b) /\ ghost'.shown = shown /\ ghost' \in GhostState
  <1>1. PICK out, before : /\ out = ghost.out \ {b}
                           /\ before = [u \in Threads |-> ghost.before[u] \ {b}]
    OBVIOUS
  <1>2. ghost' = [ghost EXCEPT !.shown = shown, !.out = out, !.before = before]
    BY <1>1, HistoryTypes DEF SignedAnew, GhostState
  <1>3. out \subseteq Browsers /\ before \in [Threads -> SUBSET Browsers]
    BY <1>1, HistoryTypes
  <1>4. /\ ghost'.out = out /\ ghost'.before = before /\ ghost'.shown = shown
        /\ ghost'.alone = ghost.alone /\ ghost'.good = ghost.good /\ ghost'.spent = ghost.spent
        /\ DeviceHistorySame /\ ghost' \in GhostState
    BY <1>2, <1>3, HistoryTypes DEF GhostState, DeviceHistorySame
  <1>5. QED
    BY <1>1, <1>4 DEF Anew

LEMMA RespondMoves ==
  ASSUME TypeInvariant, NEW t \in Threads, Respond(t)
  PROVE  /\ thread[t].pc = "respond" /\ thread'[t] = Idle
         /\ \E b \in Browsers :
              /\ session' = [session EXCEPT ![b] = [pending |-> FALSE,
                                                    factor |-> thread[t].factor]]
              /\ Anew(b)
         /\ ghost'.shown = IF thread[t].op = "enroll" THEN ghost.shown \cup {thread[t].set}
                                                      ELSE ghost.shown
         /\ UNCHANGED <<totp, backup, tokens, serial>>
         /\ TypeOK'
  <1>0. TypeOK /\ Known(t) /\ thread[t].pc = "respond"
    BY DEF TypeInvariant, RequestsKnown, Respond
  <1>1. PICK b, shown : /\ b = thread[t].browser
                        /\ shown = IF thread[t].op = "enroll" THEN ghost.shown \cup {thread[t].set}
                                                              ELSE ghost.shown
    OBVIOUS
  <1>2. b \in Browsers
    BY <1>0, <1>1 DEF Known
  <1>3. shown \subseteq Sets
    <2>1. thread[t].op = "enroll" => thread[t].set \in Sets
      BY <1>0, FieldTypes DEF Known
    <2>2. QED
      BY <1>0, <1>1, <2>1, HistoryTypes
  <1>4. Anew(b) /\ ghost'.shown = shown /\ ghost' \in GhostState
    <2>1. ghost' = SignedAnew(b, [ghost EXCEPT !.shown = shown])
      BY <1>1 DEF Respond
    <2>2. QED
      BY <1>0, <1>2, <1>3, <2>1, AnewTypes
  <1>5. thread'[t] = Idle /\ thread' \in [Threads -> ThreadState]
    BY <1>0, FinishMoves DEF Respond
  <1>6. /\ session' = [session EXCEPT ![b] = [pending |-> FALSE, factor |-> thread[t].factor]]
        /\ session' \in [Browsers -> Signed]
    BY <1>0, <1>1, FieldTypes DEF Respond, TypeOK, Signed
  <1>7. TypeOK'
    BY <1>0, <1>4, <1>5, <1>6 DEF Respond, TypeOK
  <1>8. QED
    BY <1>0, <1>1, <1>2, <1>4, <1>5, <1>6, <1>7 DEF Respond

LEMMA CrashMoves ==
  ASSUME TypeOK, NEW t \in Threads, Crash(t)
  PROVE  /\ thread'[t] = Idle /\ ghost'.before = [ghost.before EXCEPT ![t] = {}]
         /\ ghost'.out = ghost.out /\ DeviceHistorySame /\ CodesHistorySame
         /\ UNCHANGED <<totp, backup, tokens, serial, session>>
         /\ TypeOK'
  <1>1. thread'[t] = Idle /\ thread' \in [Threads -> ThreadState]
    BY FinishMoves DEF Crash
  <1>2. /\ DeviceHistorySame /\ CodesHistorySame /\ ghost'.out = ghost.out
        /\ ghost'.before = [ghost.before EXCEPT ![t] = {}] /\ ghost' \in GhostState
    BY HistoryTypes DEF Crash, GhostState, DeviceHistorySame, CodesHistorySame
  <1>3. QED
    BY <1>1, <1>2 DEF Crash, TypeOK

LEMMA PasswordMoves ==
  ASSUME TypeOK, NEW b \in Browsers, Password(b)
  PROVE  /\ \A c \in Browsers : session'[c].factor = session[c].factor
         /\ UNCHANGED <<totp, backup, tokens, serial, thread, ghost>>
         /\ TypeOK'
  <1>1. [session[b] EXCEPT !.pending = TRUE] \in Signed
    BY FieldTypes DEF Signed
  <1>2. session' \in [Browsers -> Signed]
    BY <1>1 DEF Password, TypeOK
  <1>3. session'[b].factor = session[b].factor
    <2>1. session[b] \in Signed /\ session'[b] = [session[b] EXCEPT !.pending = TRUE]
      BY FieldTypes DEF Password, TypeOK
    <2>2. QED
      BY <2>1 DEF Signed
  <1>4. \A c \in Browsers \ {b} : session'[c] = session[c]
    BY DEF Password, TypeOK
  <1>5. QED
    BY <1>2, <1>3, <1>4 DEF Password, TypeOK

LEMMA LogoutMoves ==
  ASSUME TypeOK, NEW b \in Browsers, Logout(b)
  PROVE  /\ session' = [session EXCEPT ![b] = Anonymous] /\ Anew(b)
         /\ ghost'.shown = ghost.shown
         /\ UNCHANGED <<totp, backup, tokens, serial, thread>>
         /\ TypeOK'
  <1>1. Anew(b) /\ ghost'.shown = ghost.shown /\ ghost' \in GhostState
    <2>1. ghost' = SignedAnew(b, [ghost EXCEPT !.shown = ghost.shown])
      BY HistoryTypes DEF Logout, SignedAnew, GhostState
    <2>2. QED
      BY <2>1, HistoryTypes, AnewTypes
  <1>2. QED
    BY <1>1, InitialRecords DEF Logout, TypeOK
-----------------------------------------------------------------------------
\* What requests may be assumed to know, after a step.
LEMMA OthersKnown ==
  ASSUME TypeInvariant, NEW t \in Threads, Step(t), Known(t)'
  PROVE  RequestsKnown'
  <1>1. ASSUME NEW u \in Threads, u # t PROVE Known(u)'
    <2>1. thread'[u] = thread[u] /\ Known(u)
      BY <1>1, OtherThreads DEF TypeInvariant, RequestsKnown
    <2>2. QED
      BY <2>1 DEF Known, Enrolling, Issuing, Copying
  <1>2. QED
    BY <1>1 DEF RequestsKnown

LEMMA IdleKnown ==
  ASSUME NEW t \in Threads, thread'[t] = Idle
  PROVE  Known(t)'
  BY InitialRecords DEF Known, Enrolling, Issuing, Copying

LEMMA EnrollingKnown ==
  ASSUME TypeInvariant, NEW t \in Threads,
         StartEnroll(t) \/ GetDevice(t) \/ CreateDevice(t) \/ VerifyToken(t) \/ Confirm(t)
  PROVE  Known(t)'
  <1>0. TypeOK /\ Known(t)
    BY DEF TypeInvariant, RequestsKnown
  <1> USE DEF Known, Enrolling, Issuing, Copying
  <1>1. CASE StartEnroll(t)
    BY <1>0, <1>1, EnrollMoves DEF Begins
  <1>2. CASE GetDevice(t)
    <2>1. 0 \notin Devices /\ WithStatus("unconfirmed") \subseteq Devices
      BY NumberTypes DEF WithStatus
    <2>2. CASE Goes(t, "create_device")
      BY <1>0, <1>2, <2>2, GetMoves DEF Goes, SameRequest, SameCodes
    <2>3. CASE /\ WithStatus("unconfirmed") = {thread'[t].device} /\ thread'[t].pc = "verify_token"
               /\ thread'[t].op = thread[t].op /\ thread'[t].browser = thread[t].browser
               /\ SameCodes(t)
      BY <1>0, <1>2, <2>1, <2>3, GetMoves DEF SameCodes
    <2>4. QED
      BY <1>0, <1>2, <2>2, <2>3, GetMoves, IdleKnown
  <1>3. CASE CreateDevice(t)
    BY <1>0, <1>3, CreateMoves, NumberTypes DEF SameCodes
  <1>4. CASE VerifyToken(t)
    <2>1. CASE Goes(t, "confirm")
      BY <1>0, <1>4, <2>1, VerifyMoves DEF Goes, SameRequest, SameCodes
    <2>2. QED
      BY <1>0, <1>4, <2>1, VerifyMoves, IdleKnown
  <1>5. CASE Confirm(t)
    BY <1>0, <1>5, ConfirmMoves DEF Goes, SameRequest, SameCodes
  <1>6. QED
    BY <1>1, <1>2, <1>3, <1>4, <1>5

LEMMA IssuingKnown ==
  ASSUME TypeInvariant, NEW t \in Threads,
         StartReset(t) \/ SelectBackups(t) \/ DeleteBackups(t) \/ CreateBackup(t)
         \/ CreateToken(t)
  PROVE  Known(t)'
  <1>0. TypeOK /\ Known(t)
    BY DEF TypeInvariant, RequestsKnown
  <1> USE DEF Known, Enrolling, Issuing, Copying
  <1>1. CASE StartReset(t)
    BY <1>0, <1>1, ResetMoves DEF Begins
  <1>2. CASE SelectBackups(t)
    BY <1>0, <1>2, SelectMoves DEF SameRequest
  <1>3. CASE DeleteBackups(t)
    <2>1. CASE Goes(t, "create_backup")
      BY <1>0, <1>3, <2>1, DeleteMoves DEF Goes, SameRequest, SameCodes
    <2>2. QED
      BY <1>0, <1>3, <2>1, DeleteMoves, IdleKnown
  <1>4. CASE CreateBackup(t)
    <2>1. /\ thread[t].pc = "create_backup" /\ serial.set # 0 /\ thread[t].count = thread'[t].count
          /\ thread'[t].pc = "create_token" /\ thread'[t].set = serial.set /\ SameRequest(t)
      BY <1>0, <1>4, CreateBackupMoves, NumberTypes
    <2>2. thread'[t].count < CodeCount
      BY <1>0, <2>1, CountAssumption
    <2>3. QED
      BY <1>0, <2>1, <2>2 DEF SameRequest
  <1>5. CASE CreateToken(t)
    <2>1. CASE thread'[t] = Idle
      BY <2>1, IdleKnown
    <2>2. CASE IssueDone(t) /\ thread[t].op = "enroll"
      <3>1. /\ thread'[t].pc = "respond" /\ SameRequest(t) /\ thread[t].pc = "create_token"
            /\ thread'[t].factor = [kind |-> "totp", id |-> thread[t].device]
            /\ thread'[t].set = thread[t].set
        BY <1>0, <1>5, <2>2, TokenMoves, DoneMoves
      <3>2. QED
        BY <1>0, <2>2, <3>1 DEF SameRequest
    <2>3. CASE IssueDone(t) /\ thread[t].op # "enroll"
      BY <1>5, <2>3, TokenMoves, DoneMoves, IdleKnown
    <2>4. CASE ~IssueDone(t) /\ thread'[t] # Idle
      <3>1. /\ thread[t].count + 1 # CodeCount /\ thread'[t].count = thread[t].count + 1
            /\ thread[t].pc = "create_token" /\ thread'[t].pc = "create_token"
            /\ thread'[t].set = thread[t].set /\ SameRequest(t)
        BY <1>5, <2>4, TokenMoves
      <3>2. thread'[t].count < CodeCount
        BY <1>0, <3>1, FieldTypes, CountAssumption
      <3>3. QED
        BY <1>0, <3>1, <3>2 DEF SameRequest
    <2>5. QED
      BY <2>1, <2>2, <2>3, <2>4
  <1>6. QED
    BY <1>1, <1>2, <1>3, <1>4, <1>5

LEMMA SigningKnown ==
  ASSUME TypeInvariant, NEW t \in Threads, StartVerify(t) \/ Match(t) \/ Respond(t) \/ Crash(t)
  PROVE  Known(t)'
  <1>0. TypeOK /\ Known(t)
    BY DEF TypeInvariant, RequestsKnown
  <1>1. CASE StartVerify(t)
    BY <1>0, <1>1, StartVerifyMoves DEF Begins, Known, Enrolling, Issuing, Copying
  <1>2. CASE Match(t)
    <2>1. ASSUME NEW f, Accepts(t, f) PROVE Known(t)'
      BY <1>0, <1>2, <2>1, MatchMoves DEF Accepts, SameRequest, SameCodes, Known, Enrolling,
         Issuing, Copying
    <2>2. QED
      BY <1>0, <1>2, <2>1, MatchMoves, IdleKnown
  <1>3. CASE Respond(t) \/ Crash(t)
    BY <1>0, <1>3, RespondMoves, CrashMoves, IdleKnown
  <1>4. QED
    BY <1>1, <1>2, <1>3

LEMMA StepKnown ==
  ASSUME TypeInvariant, NEW t \in Threads, Step(t)
  PROVE  RequestsKnown'
  BY EnrollingKnown, IssuingKnown, SigningKnown, OthersKnown DEF Step
-----------------------------------------------------------------------------
\* A step that takes no key leaves room, if no request comes to want one.
LEMMA RoomStays ==
  ASSUME TypeInvariant, serial' = serial, WantDevice' \subseteq WantDevice,
         WantSet' \subseteq WantSet
  PROVE  RoomKept'
  <1>1. serial.device \in Nat /\ serial.set \in Nat
    BY FieldTypes DEF TypeInvariant
  <1>2. /\ Cardinality(WantDevice') \in Nat /\ Cardinality(WantDevice') <= Cardinality(WantDevice)
        /\ Cardinality(WantSet') \in Nat /\ Cardinality(WantSet') <= Cardinality(WantSet)
        /\ Cardinality(WantDevice) \in Nat /\ Cardinality(WantSet) \in Nat
    BY ThreadsFinite, Stays
  <1>3. QED
    BY <1>1, <1>2, BoundsAssumption DEF TypeInvariant, RoomKept

LEMMA StepKeepsRoom ==
  ASSUME TypeInvariant, NEW t \in Threads, Step(t)
  PROVE  RoomKept'
  <1>0. /\ TypeOK /\ RoomKept /\ serial.device \in Nat /\ serial.set \in Nat
        /\ \A u \in Threads : u # t => thread'[u] = thread[u]
        /\ Cardinality(WantDevice) \in Nat /\ Cardinality(WantSet) \in Nat
    BY FieldTypes, OtherThreads, ThreadsFinite DEF TypeInvariant
  <1>1. /\ WantDevice' \subseteq WantDevice \cup {t} /\ WantSet' \subseteq WantSet \cup {t}
        /\ thread'[t].pc \notin {"get_device", "create_device"} =>
             WantDevice' \subseteq WantDevice \ {t}
        /\ ~Enrolling(t)' /\ thread'[t].pc \notin {"select_backup", "delete_backup", "create_backup"}
             => WantSet' \subseteq WantSet \ {t}
    BY <1>0 DEF WantDevice, WantSet, Enrolling
  <1>2. CASE StartEnroll(t)
    <2>1. /\ serial.device + Cardinality(WantDevice) <= MaxDevices
          /\ serial.set + Cardinality(WantSet) <= MaxSets /\ serial' = serial
      BY <1>0, <1>2, EnrollMoves, RoomToBegin
    <2>2. /\ Cardinality(WantDevice') \in Nat /\ Cardinality(WantSet') \in Nat
          /\ Cardinality(WantDevice') <= Cardinality(WantDevice) + 1
          /\ Cardinality(WantSet') <= Cardinality(WantSet) + 1
      BY <1>1, ThreadsFinite, Joins
    <2>3. QED
      BY <1>0, <2>1, <2>2, BoundsAssumption DEF RoomKept
  <1>3. CASE StartReset(t)
    <2>1. /\ serial.set + Cardinality(WantSet) <= MaxSets /\ serial' = serial
          /\ WantDevice' \subseteq WantDevice
      BY <1>0, <1>1, <1>3, ResetMoves, RoomToBegin DEF Begins
    <2>2. /\ Cardinality(WantDevice') \in Nat /\ Cardinality(WantSet') \in Nat
          /\ Cardinality(WantDevice') <= Cardinality(WantDevice)
          /\ Cardinality(WantSet') <= Cardinality(WantSet) + 1
      BY <1>1, <2>1, ThreadsFinite, Joins, Stays
    <2>3. QED
      BY <1>0, <2>1, <2>2, BoundsAssumption DEF RoomKept
  <1>4. CASE CreateDevice(t)
    <2>1. /\ serial'.device = serial.device + 1 /\ serial'.set = serial.set
          /\ thread[t].pc = "create_device" /\ thread'[t].pc = "verify_token"
      BY <1>4, CreateMoves
    <2>2. /\ t \in WantDevice /\ WantDevice' \subseteq WantDevice \ {t} /\ WantSet' \subseteq WantSet
      BY <1>1, <2>1 DEF WantDevice, WantSet, Enrolling
    <2>3. /\ Cardinality(WantDevice') \in Nat /\ Cardinality(WantSet') \in Nat
          /\ Cardinality(WantDevice') + 1 <= Cardinality(WantDevice)
          /\ Cardinality(WantSet') <= Cardinality(WantSet)
      BY <2>2, ThreadsFinite, Leaves, Stays
    <2>4. QED
      BY <1>0, <2>1, <2>3, BoundsAssumption DEF RoomKept
  <1>5. CASE CreateBackup(t)
    <2>1. /\ serial'.device = serial.device /\ serial'.set = serial.set + 1
          /\ thread[t].pc = "create_backup" /\ thread'[t].pc = "create_token"
      BY <1>5, CreateBackupMoves
    <2>2. /\ t \in WantSet /\ WantDevice' \subseteq WantDevice /\ WantSet' \subseteq WantSet \ {t}
      BY <1>1, <2>1 DEF WantDevice, WantSet, Enrolling
    <2>3. /\ Cardinality(WantDevice') \in Nat /\ Cardinality(WantSet') \in Nat
          /\ Cardinality(WantDevice') <= Cardinality(WantDevice)
          /\ Cardinality(WantSet') + 1 <= Cardinality(WantSet)
      BY <2>2, ThreadsFinite, Leaves, Stays
    <2>4. QED
      BY <1>0, <2>1, <2>3, BoundsAssumption DEF RoomKept
  <1>6. ASSUME serial' = serial,
               thread'[t].pc \in {"get_device", "create_device"} => t \in WantDevice,
               Enrolling(t)' \/ thread'[t].pc \in {"select_backup", "delete_backup", "create_backup"}
                 => t \in WantSet
        PROVE  RoomKept'
    <2>1. WantDevice' \subseteq WantDevice /\ WantSet' \subseteq WantSet
      BY <1>1, <1>6
    <2>2. QED
      BY <1>6, <2>1, RoomStays
  <1> USE DEF WantDevice, WantSet, Enrolling, Goes
  <1>7. CASE GetDevice(t) \/ VerifyToken(t) \/ Confirm(t)
    BY <1>0, <1>6, <1>7, GetMoves, VerifyMoves, ConfirmMoves, InitialRecords
  <1>8. CASE SelectBackups(t) \/ DeleteBackups(t)
    BY <1>0, <1>6, <1>8, SelectMoves, DeleteMoves, InitialRecords
  <1>9. CASE CreateToken(t)
    <2>1. serial' = serial /\ thread'[t].pc \in {"idle", "create_token", "respond"}
      BY <1>9, TokenMoves, DoneMoves, InitialRecords
    <2>2. QED
      BY <1>6, <2>1
  <1>10. CASE StartVerify(t) \/ Match(t) \/ Respond(t) \/ Crash(t)
    <2>1. serial' = serial /\ thread'[t].pc \in {"idle", "match", "respond"}
      BY <1>0, <1>10, StartVerifyMoves, MatchMoves, RespondMoves, CrashMoves, InitialRecords
      DEF Begins, Accepts
    <2>2. QED
      BY <1>6, <2>1
  <1>11. QED
    BY <1>2, <1>3, <1>4, <1>5, <1>7, <1>8, <1>9, <1>10 DEF Step

LEMMA StepKeepsTypes ==
  ASSUME TypeInvariant, NEW t \in Threads, Step(t)
  PROVE  TypeInvariant'
  <1>0. TypeOK
    BY DEF TypeInvariant
  <1>1. TypeOK'
    BY <1>0, EnrollMoves, GetMoves, CreateMoves, VerifyMoves, ConfirmMoves, ResetMoves, SelectMoves,
       DeleteMoves, CreateBackupMoves, TokenMoves, StartVerifyMoves, MatchMoves, RespondMoves,
       CrashMoves DEF Step
  <1>2. QED
    BY <1>1, StepKnown, StepKeepsRoom DEF TypeInvariant

\* A step of no thread.
LEMMA RestKeepsTypes ==
  ASSUME TypeInvariant, (\E b \in Browsers : Password(b) \/ Logout(b)) \/ UNCHANGED vars
  PROVE  TypeInvariant'
  <1>1. TypeOK' /\ thread' = thread /\ serial' = serial
    <2>1. CASE \E b \in Browsers : Password(b) \/ Logout(b)
      BY <2>1, PasswordMoves, LogoutMoves DEF TypeInvariant
    <2>2. CASE UNCHANGED vars
      BY <2>2 DEF TypeInvariant, TypeOK, vars
    <2>3. QED
      BY <2>1, <2>2
  <1>2. RequestsKnown'
    BY <1>1 DEF TypeInvariant, RequestsKnown, Known, Enrolling, Issuing, Copying
  <1>3. WantDevice' = WantDevice /\ WantSet' = WantSet
    BY <1>1 DEF WantDevice, WantSet, Enrolling
  <1>4. QED
    BY <1>1, <1>2, <1>3, RoomStays DEF TypeInvariant

LEMMA InitTypes ==
  ASSUME Init
  PROVE  TypeInvariant
  <1>1. \A t \in Threads : thread[t] = Idle
    BY DEF Init
  <1>2. TypeOK
    <2>1. serial \in [device: 1..(MaxDevices + 1), set: 1..(MaxSets + 1)]
      BY BoundsAssumption DEF Init
    <2>2. ghost \in GhostState
      BY DEF Init, GhostState
    <2>3. QED
      BY <2>1, <2>2, InitialRecords DEF Init, TypeOK, Status
  <1>3. RequestsKnown
    BY <1>1, InitialRecords DEF RequestsKnown, Known, Enrolling, Issuing, Copying
  <1>4. RoomKept
    <2>1. WantDevice = {} /\ WantSet = {} /\ serial.device = 1 /\ serial.set = 1
      BY <1>1, InitialRecords DEF Init, WantDevice, WantSet, Enrolling
    <2>2. QED
      BY <2>1, FS_EmptySet, BoundsAssumption DEF RoomKept
  <1>5. QED
    BY <1>2, <1>3, <1>4 DEF TypeInvariant

LEMMA TypesStay ==
  Spec => []TypeInvariant
  <1>1. Init => TypeInvariant
    BY InitTypes
  <1>2. TypeInvariant /\ [Next]_vars => TypeInvariant'
    BY StepKeepsTypes, RestKeepsTypes DEF Next
  <1>3. QED
    BY <1>1, <1>2, PTL DEF Spec

(***************************************************************************)
(* The types of all the variables: every request that has begun finds the  *)
(* primary keys it will take, whichever requests interleave with it.       *)
(***************************************************************************)
THEOREM MfaTypeCorrect == Spec => []TypeOK
  <1>1. TypeInvariant => TypeOK
    BY DEF TypeInvariant
  <1>2. QED
    BY <1>1, TypesStay, PTL
-----------------------------------------------------------------------------
\* Keys already given stay so.
LEMMA SerialGrows ==
  ASSUME TypeInvariant, NEW t \in Threads, Step(t)
  PROVE  /\ serial.device \in Nat /\ serial.set \in Nat
         /\ serial'.device \in Nat /\ serial'.set \in Nat
         /\ serial.device <= serial'.device /\ serial.set <= serial'.set
         /\ serial' # serial => CreateDevice(t) \/ CreateBackup(t)
  <1>0. serial.device \in Nat /\ serial.set \in Nat /\ TypeOK
    BY FieldTypes DEF TypeInvariant
  <1>1. CASE CreateDevice(t) \/ CreateBackup(t)
    BY <1>0, <1>1, CreateMoves, CreateBackupMoves
  <1>2. CASE ~(CreateDevice(t) \/ CreateBackup(t))
    <2>1. serial' = serial
      BY <1>2 DEF Step, StartEnroll, GetDevice, VerifyToken, Confirm, StartReset, SelectBackups,
         DeleteBackups, CreateToken, StartVerify, Match, Respond, Crash
    <2>2. QED
      BY <1>0, <2>1
  <1>3. QED
    BY <1>1, <1>2

LEMMA GivenStays ==
  ASSUME TypeInvariant, NEW t \in Threads, Step(t)
  PROVE  /\ \A n \in Nat : n < serial.device => n < serial'.device
         /\ \A n \in Nat : n < serial.set => n < serial'.set
  <1>1. /\ serial.device \in Nat /\ serial.set \in Nat
        /\ serial'.device \in Nat /\ serial'.set \in Nat
        /\ serial.device <= serial'.device /\ serial.set <= serial'.set
    BY SerialGrows
  <1>2. QED
    BY <1>1

\* What a step writes has a key given.
LEMMA DevicesGiven ==
  ASSUME TypeInvariant, KeyInvariant, NEW t \in Threads, Step(t)
  PROVE  \A d \in Devices : totp'[d] # "absent" => d < serial'.device
  <1>0. /\ TypeOK /\ Devices \subseteq Nat /\ thread[t].device < serial.device
        /\ \A d \in Devices : totp[d] # "absent" => d < serial.device
        /\ totp \in [Devices -> Status]
    BY NumberTypes DEF TypeInvariant, TypeOK, KeyInvariant, KeysGiven
  <1>1. CASE totp' = totp
    BY <1>0, <1>1, GivenStays
  <1>2. CASE CreateDevice(t)
    BY <1>0, <1>2, CreateMoves, SerialGrows
  <1>3. CASE VerifyToken(t) \/ Confirm(t) \/ StartReset(t)
    <2>1. \A d \in Devices : totp'[d] # "absent" => totp[d] # "absent" \/ d = thread[t].device
      <3>1. CASE VerifyToken(t)
        BY <1>0, <3>1, VerifyMoves
      <3>2. CASE Confirm(t)
        BY <1>0, <3>2, ConfirmMoves
      <3>3. CASE StartReset(t)
        BY <1>0, <3>3, ResetMoves
      <3>4. QED
        BY <1>3, <3>1, <3>2, <3>3
    <2>2. QED
      BY <1>0, <2>1, GivenStays
  <1>4. QED
    BY <1>1, <1>2, <1>3 DEF Step, StartEnroll, GetDevice, SelectBackups, DeleteBackups,
       CreateBackup, CreateToken, StartVerify, Match, Respond, Crash

LEMMA SetsGiven ==
  ASSUME TypeInvariant, KeyInvariant, NEW t \in Threads, Step(t)
  PROVE  \A s \in backup' \cup ghost'.shown : s < serial'.set
  <1>0. /\ TypeOK /\ Sets \subseteq Nat /\ backup \cup ghost.shown \subseteq Sets
        /\ thread[t].set < serial.set
        /\ \A s \in backup \cup ghost.shown : s < serial.set
    BY NumberTypes, HistoryTypes DEF TypeInvariant, TypeOK, KeyInvariant, KeysGiven
  <1>1. CASE backup' \subseteq backup /\ ghost'.shown \subseteq ghost.shown \cup ({thread[t].set} \ {0})
    <2>1. thread[t].set # 0 => thread[t].set \in Sets
      BY <1>0, FieldTypes
    <2>2. \A s \in backup' \cup ghost'.shown : s \in Sets /\ s < serial.set
      BY <1>0, <1>1, <2>1
    <2>3. QED
      BY <1>0, <2>2, GivenStays
  <1>2. CASE CreateBackup(t)
    <2>1. /\ backup' = backup \cup {serial.set} /\ ghost'.shown = ghost.shown
          /\ serial'.set = serial.set + 1 /\ serial.set \in Nat
      BY <1>0, <1>2, CreateBackupMoves
    <2>2. \A s \in backup \cup ghost.shown : s \in Nat /\ s < serial'.set
      BY <1>0, GivenStays
    <2>3. QED
      BY <2>1, <2>2
  <1>3. CASE DeleteBackups(t)
    BY <1>0, <1>1, <1>3, DeleteMoves
  <1>4. CASE CreateToken(t)
    <2>1. thread[t].set # 0
      BY <1>4 DEF CreateToken, TypeInvariant, RequestsKnown, Known
    <2>2. backup' = backup
      BY <1>4, TokenMoves
    <2>3. ghost'.shown \subseteq ghost.shown \cup {thread[t].set}
      BY <1>4, TokenMoves, DoneMoves
    <2>4. QED
      BY <1>1, <2>1, <2>2, <2>3
  <1>5. CASE Respond(t)
    <2>1. thread[t].op = "enroll" => thread[t].set # 0
      BY <1>5 DEF Respond, TypeInvariant, RequestsKnown, Known
    <2>2. QED
      BY <1>0, <1>1, <1>5, <2>1, RespondMoves
  <1>6. CASE \/ StartEnroll(t) \/ GetDevice(t) \/ CreateDevice(t) \/ VerifyToken(t) \/ Confirm(t)
             \/ StartReset(t)
    BY <1>0, <1>1, <1>6, EnrollMoves, GetMoves, CreateMoves, VerifyMoves, ConfirmMoves, ResetMoves
    DEF CodesHistorySame
  <1>7. CASE SelectBackups(t) \/ StartVerify(t) \/ Match(t) \/ Crash(t)
    BY <1>0, <1>1, <1>7, SelectMoves, StartVerifyMoves, MatchMoves, CrashMoves
    DEF CodesHistorySame
  <1>8. QED
    BY <1>2, <1>3, <1>4, <1>5, <1>6, <1>7 DEF Step

LEMMA FactorsGiven ==
  ASSUME TypeInvariant, KeyInvariant, NEW t \in Threads, Step(t)
  PROVE  /\ \A b \in Browsers :
              session'[b].factor.kind = "backup" => session'[b].factor.id < serial'.set
         /\ thread'[t].factor.kind = "backup" => thread'[t].factor.id < serial'.set
  <1>0. /\ TypeOK /\ Sets \subseteq Nat
        /\ \A b \in Browsers : /\ session[b].factor \in Factor
                               /\ session[b].factor.kind = "backup" => session[b].factor.id < serial.set
        /\ thread[t].factor \in Factor
        /\ thread[t].factor.kind = "backup" => thread[t].factor.id < serial.set
    BY NumberTypes, FieldTypes DEF TypeInvariant, KeyInvariant, KeysGiven
  <1>1. \A b \in Browsers :
          session'[b].factor.kind = "backup" => session'[b].factor.id < serial'.set
    <2>1. CASE session' = session
      BY <1>0, <2>1, FactorTypes, GivenStays
    <2>2. CASE Respond(t)
      <3>1. PICK b \in Browsers :
              session' = [session EXCEPT ![b] = [pending |-> FALSE, factor |-> thread[t].factor]]
        BY <2>2, RespondMoves
      <3>2. /\ session'[b].factor = thread[t].factor
            /\ \A c \in Browsers \ {b} : session'[c] = session[c]
        BY <1>0, <3>1 DEF TypeOK
      <3>3. QED
        BY <1>0, <3>2, FactorTypes, GivenStays
    <2>3. QED
      BY <2>1, <2>2 DEF Step, StartEnroll, GetDevice, CreateDevice, VerifyToken, Confirm,
         StartReset, SelectBackups, DeleteBackups, CreateBackup, CreateToken, StartVerify, Match, Crash
  <1>2. thread'[t].factor.kind = "backup" => thread'[t].factor.id < serial'.set
    <2>1. CASE thread'[t].factor = thread[t].factor
      BY <1>0, <2>1, FactorTypes, GivenStays
    <2>2. CASE thread'[t].factor.kind # "backup"
      BY <2>2
    <2>3. CASE \E c \in tokens : Accepts(t, [kind |-> "backup", id |-> c[1]])
      <3>1. PICK c \in tokens : Accepts(t, [kind |-> "backup", id |-> c[1]])
        BY <2>3
      <3>2. c[1] \in Sets /\ c[1] < serial.set
        BY <1>0, NumberTypes DEF TypeOK, KeyInvariant, KeysGiven, SetsOwned
      <3>3. thread'[t].factor.id = c[1]
        BY <3>1 DEF Accepts
      <3>4. QED
        BY <1>0, <3>2, <3>3, GivenStays
    <2>4. NoFactor.kind = "none"
      BY DEF NoFactor
    <2>5. CASE \/ StartEnroll(t) \/ GetDevice(t) \/ CreateDevice(t) \/ VerifyToken(t) \/ Confirm(t)
               \/ StartReset(t)
      BY <1>0, <2>1, <2>2, <2>4, <2>5, InitialRecords, EnrollMoves, GetMoves, CreateMoves,
         VerifyMoves, ConfirmMoves, ResetMoves DEF Begins, Goes
    <2>6. CASE SelectBackups(t) \/ DeleteBackups(t) \/ CreateBackup(t) \/ StartVerify(t)
      BY <1>0, <2>1, <2>2, <2>4, <2>6, InitialRecords, SelectMoves, DeleteMoves, CreateBackupMoves,
         StartVerifyMoves DEF Begins, Goes
    <2>7. CASE CreateToken(t)
      <3>1. IssueDone(t) /\ thread[t].op = "enroll" => thread'[t].factor.kind = "totp"
        <4>1. SUFFICES ASSUME IssueDone(t), thread[t].op = "enroll"
                       PROVE  thread'[t].factor.kind = "totp"
          OBVIOUS
        <4>2. thread'[t].factor = [kind |-> "totp", id |-> thread[t].device]
          BY <2>7, <4>1, TokenMoves, DoneMoves
        <4>3. QED
          BY <4>2
      <3>2. IssueDone(t) /\ thread[t].op # "enroll" => thread'[t] = Idle
        BY <2>7, TokenMoves, DoneMoves
      <3>3. QED
        BY <2>1, <2>2, <2>7, <3>1, <3>2, InitialRecords, TokenMoves
    <2>8. CASE Match(t)
      <3>1. \A d : Accepts(t, [kind |-> "totp", id |-> d]) => thread'[t].factor.kind # "backup"
        BY DEF Accepts
      <3>2. QED
        BY <1>0, <2>2, <2>3, <2>8, <3>1, InitialRecords, MatchMoves
    <2>9. CASE Respond(t) \/ Crash(t)
      BY <1>0, <2>2, <2>9, InitialRecords, RespondMoves, CrashMoves
    <2>10. QED
      BY <2>5, <2>6, <2>7, <2>8, <2>9 DEF Step
  <1>3. QED
    BY <1>1, <1>2

\* What a thread holds has a key given.
LEMMA HeldGiven ==
  ASSUME TypeInvariant, KeyInvariant, NEW t \in Threads, Step(t)
  PROVE  thread'[t].device < serial'.device /\ thread'[t].set < serial'.set
  <1>0. /\ TypeOK /\ Sets \subseteq Nat /\ Devices \subseteq Nat
        /\ thread[t].device < serial.device /\ thread[t].set < serial.set
        /\ thread[t].device \in Nat /\ thread[t].set \in Nat
        /\ \A d \in Devices : totp[d] # "absent" => d < serial.device
        /\ 0 < serial.device /\ 0 < serial.set
    BY NumberTypes, FieldTypes DEF TypeInvariant, KeyInvariant, KeysGiven
  <1>1. CASE /\ thread'[t].device \in {thread[t].device, 0}
             /\ thread'[t].set \in {thread[t].set, 0}
    BY <1>0, <1>1, GivenStays
  <1>2. CASE CreateDevice(t)
    <2>1. /\ thread'[t].device = serial.device /\ serial'.device = serial.device + 1
          /\ thread'[t].set = thread[t].set /\ serial.device \in Nat
      BY <1>0, <1>2, CreateMoves DEF SameCodes
    <2>2. QED
      BY <1>0, <2>1, GivenStays
  <1>3. CASE CreateBackup(t)
    <2>1. /\ thread'[t].set = serial.set /\ serial'.set = serial.set + 1
          /\ thread'[t].device = thread[t].device /\ serial.set \in Nat
      BY <1>0, <1>3, CreateBackupMoves DEF SameRequest
    <2>2. QED
      BY <1>0, <2>1, GivenStays
  <1>4. CASE GetDevice(t)
    <2>1. CASE WithStatus("unconfirmed") = {thread'[t].device} /\ SameCodes(t)
      <3>1. thread'[t].device \in Devices /\ thread'[t].device < serial.device
        BY <1>0, <2>1 DEF WithStatus
      <3>2. QED
        BY <1>0, <2>1, <3>1, GivenStays DEF SameCodes
    <2>2. QED
      BY <1>0, <1>1, <1>4, <2>1, GetMoves, InitialRecords DEF Goes, SameRequest, SameCodes
  <1>5. CASE StartEnroll(t) \/ VerifyToken(t) \/ Confirm(t) \/ StartReset(t)
    BY <1>0, <1>1, <1>5, InitialRecords, EnrollMoves, VerifyMoves, ConfirmMoves, ResetMoves
    DEF Begins, Goes, SameRequest, SameCodes
  <1>6. CASE SelectBackups(t) \/ DeleteBackups(t) \/ CreateToken(t)
    BY <1>0, <1>1, <1>6, InitialRecords, SelectMoves, DeleteMoves, TokenMoves, DoneMoves
    DEF Goes, SameRequest, SameCodes
  <1>7. CASE StartVerify(t) \/ Match(t) \/ Respond(t) \/ Crash(t)
    BY <1>0, <1>1, <1>7, InitialRecords, StartVerifyMoves, MatchMoves, RespondMoves, CrashMoves
    DEF Begins, Accepts, SameRequest, SameCodes
  <1>8. QED
    BY <1>2, <1>3, <1>4, <1>5, <1>6, <1>7 DEF Step

LEMMA KeysStayGiven ==
  ASSUME TypeInvariant, KeyInvariant, NEW t \in Threads, Step(t)
  PROVE  KeysGiven'
  <1>1. ASSUME NEW u \in Threads
        PROVE  /\ thread'[u].device < serial'.device /\ thread'[u].set < serial'.set
               /\ thread'[u].factor.kind = "backup" => thread'[u].factor.id < serial'.set
    <2>1. CASE u = t
      BY <2>1, HeldGiven, FactorsGiven
    <2>2. CASE u # t
      <3>1. thread'[u] = thread[u] /\ TypeOK
        BY <2>2, OtherThreads DEF TypeInvariant
      <3>2. /\ thread[u].device < serial.device /\ thread[u].set < serial.set
            /\ thread[u].factor.kind = "backup" => thread[u].factor.id < serial.set
        BY DEF KeyInvariant, KeysGiven
      <3>3. /\ thread[u].device \in Nat /\ thread[u].set \in Nat
            /\ thread[u].factor.kind = "backup" => thread[u].factor.id \in Nat
        BY <3>1, FieldTypes, FactorTypes, NumberTypes
      <3>4. QED
        BY <3>1, <3>2, <3>3, GivenStays
    <2>3. QED
      BY <2>1, <2>2
  <1>2. QED
    BY <1>1, DevicesGiven, SetsGiven, FactorsGiven DEF KeysGiven
-----------------------------------------------------------------------------
\* Where a set of codes is held, and when it is shown.
LEMMA SetsHeld ==
  ASSUME TypeInvariant, NEW t \in Threads, Step(t)
  PROVE  thread'[t].set \in {thread[t].set, 0} \/ (CreateBackup(t) /\ thread'[t].set = serial.set)
  <1>0. TypeOK
    BY DEF TypeInvariant
  <1>1. CASE CreateBackup(t)
    BY <1>1, CreateBackupMoves
  <1>2. CASE StartEnroll(t) \/ GetDevice(t) \/ CreateDevice(t) \/ VerifyToken(t) \/ Confirm(t)
    BY <1>0, <1>2, InitialRecords, EnrollMoves, GetMoves, CreateMoves, VerifyMoves, ConfirmMoves
    DEF Begins, Goes, SameCodes
  <1>3. CASE StartReset(t) \/ SelectBackups(t) \/ DeleteBackups(t) \/ CreateToken(t)
    BY <1>0, <1>3, InitialRecords, ResetMoves, SelectMoves, DeleteMoves, TokenMoves, DoneMoves
    DEF Begins, Goes, SameCodes
  <1>4. CASE StartVerify(t) \/ Match(t) \/ Respond(t) \/ Crash(t)
    BY <1>0, <1>4, InitialRecords, StartVerifyMoves, MatchMoves, RespondMoves, CrashMoves
    DEF Begins, Accepts, SameCodes
  <1>5. QED
    BY <1>1, <1>2, <1>3, <1>4 DEF Step

LEMMA SetsShown ==
  ASSUME TypeInvariant, NEW t \in Threads, Step(t)
  PROVE  \/ ghost'.shown \subseteq ghost.shown
         \/ /\ ghost'.shown = ghost.shown \cup {thread[t].set} /\ thread[t].set # 0
            /\ thread'[t].set = 0
  <1>0. TypeOK /\ Known(t)
    BY DEF TypeInvariant, RequestsKnown
  <1>1. CASE CreateToken(t)
    <2>1. CASE IssueDone(t)
      <3>1. thread[t].pc = "create_token" /\ thread[t].set # 0 /\ thread[t].op \in {"enroll", "reset"}
        BY <1>0, <1>1, TokenMoves DEF Known, Issuing
      <3>2. /\ ghost'.shown = IF thread[t].op = "reset" THEN ghost.shown \cup {thread[t].set}
                                                        ELSE ghost.shown
            /\ thread[t].op = "reset" => thread'[t] = Idle
        BY <2>1, <3>1, DoneMoves
      <3>3. QED
        BY <3>1, <3>2, InitialRecords
    <2>2. QED
      BY <1>1, <2>1, TokenMoves
  <1>2. CASE Respond(t)
    <2>1. thread[t].pc = "respond" /\ thread'[t].set = 0
      BY <1>2, RespondMoves, InitialRecords
    <2>2. thread[t].op = "enroll" => thread[t].set # 0
      BY <1>0, <2>1 DEF Known
    <2>3. QED
      BY <1>2, <2>1, <2>2, RespondMoves
  <1>3. CASE \/ StartEnroll(t) \/ GetDevice(t) \/ CreateDevice(t) \/ VerifyToken(t) \/ Confirm(t)
             \/ StartReset(t)
    BY <1>0, <1>3, EnrollMoves, GetMoves, CreateMoves, VerifyMoves, ConfirmMoves, ResetMoves
    DEF CodesHistorySame
  <1>4. CASE SelectBackups(t) \/ DeleteBackups(t) \/ CreateBackup(t)
    BY <1>0, <1>4, SelectMoves, DeleteMoves, CreateBackupMoves
  <1>5. CASE StartVerify(t) \/ Match(t) \/ Crash(t)
    BY <1>0, <1>5, StartVerifyMoves, MatchMoves, CrashMoves DEF CodesHistorySame
  <1>6. QED
    BY <1>1, <1>2, <1>3, <1>4, <1>5 DEF Step

\* What becomes of tokens and of spent codes.
LEMMA CodesFollow ==
  ASSUME TypeInvariant, KeyInvariant, NEW t \in Threads, Step(t)
  PROVE  /\ \A c \in tokens' : c[1] \in backup'
         /\ \A c \in ghost'.spent : c[1] \in ghost'.shown
  <1>0. /\ TypeOK /\ tokens \subseteq AllCodes
        /\ \A c \in tokens : c[1] \in backup
        /\ \A c \in ghost.spent : c[1] \in ghost.shown
    BY DEF TypeInvariant, TypeOK, KeyInvariant, SetsOwned
  <1>1. CASE DeleteBackups(t)
    BY <1>0, <1>1, DeleteMoves
  <1>2. CASE CreateBackup(t)
    BY <1>0, <1>2, CreateBackupMoves
  <1>3. CASE CreateToken(t)
    <2>1. \A c \in tokens' : c[1] \in backup'
      <3>1. <<thread[t].set, thread[t].count + 1>>[1] = thread[t].set
        OBVIOUS
      <3>2. QED
        BY <1>0, <1>3, <3>1, TokenMoves
    <2>2. ghost'.spent = ghost.spent /\ ghost.shown \subseteq ghost'.shown
      BY <1>3, TokenMoves, DoneMoves
    <2>3. QED
      BY <1>0, <2>1, <2>2
  <1>4. CASE Match(t)
    <2>1. tokens' \subseteq tokens /\ backup' = backup /\ ghost'.shown = ghost.shown
      BY <1>0, <1>4, MatchMoves
    <2>2. \/ ghost'.spent = ghost.spent
          \/ \E c \in tokens : c[1] \in ghost.shown /\ ghost'.spent = ghost.spent \cup {c}
      BY <1>0, <1>4, MatchMoves
    <2>3. QED
      BY <1>0, <2>1, <2>2
  <1>5. CASE Respond(t)
    BY <1>0, <1>5, RespondMoves DEF Anew
  <1>6. CASE \/ StartEnroll(t) \/ GetDevice(t) \/ CreateDevice(t) \/ VerifyToken(t) \/ Confirm(t)
             \/ StartReset(t)
    BY <1>0, <1>6, EnrollMoves, GetMoves, CreateMoves, VerifyMoves, ConfirmMoves, ResetMoves
    DEF CodesHistorySame
  <1>7. CASE SelectBackups(t) \/ StartVerify(t) \/ Crash(t)
    BY <1>0, <1>7, SelectMoves, StartVerifyMoves, CrashMoves DEF CodesHistorySame
  <1>8. QED
    BY <1>1, <1>2, <1>3, <1>4, <1>5, <1>6, <1>7 DEF Step

LEMMA SetsStayOwned ==
  ASSUME TypeInvariant, KeyInvariant, NEW t \in Threads, Step(t)
  PROVE  SetsOwned'
  <1>0. /\ TypeOK /\ serial.set \in Nat
        /\ \A u \in Threads : thread[u].set < serial.set /\ thread[u].set \in Nat
        /\ \A s \in ghost.shown : s < serial.set /\ s \in Nat /\ s # 0
        /\ \A u \in Threads : u # t => thread'[u] = thread[u]
    BY FieldTypes, HistoryTypes, NumberTypes, OtherThreads
    DEF TypeInvariant, KeyInvariant, KeysGiven
  <1>1. /\ \A u, v \in Threads : u # v /\ thread[u].set # 0 => thread[u].set # thread[v].set
        /\ \A u \in Threads : thread[u].set \notin ghost.shown
    BY DEF KeyInvariant, SetsOwned
  <1>2. ASSUME NEW u \in Threads, NEW v \in Threads, u # v, thread'[u].set # 0
        PROVE  thread'[u].set # thread'[v].set
    BY <1>0, <1>1, <1>2, SetsHeld
  <1>3. ASSUME NEW u \in Threads
        PROVE  thread'[u].set \notin ghost'.shown
    <2>1. CASE ghost'.shown \subseteq ghost.shown
      BY <1>0, <1>1, <1>3, <2>1, SetsHeld
    <2>2. CASE /\ ghost'.shown = ghost.shown \cup {thread[t].set} /\ thread[t].set # 0
               /\ thread'[t].set = 0
      BY <1>0, <1>1, <1>3, <2>2
    <2>3. QED
      BY <2>1, <2>2, SetsShown
  <1>4. QED
    BY <1>2, <1>3, CodesFollow DEF SetsOwned

LEMMA RestKeepsKeys ==
  ASSUME TypeInvariant, KeyInvariant,
         (\E b \in Browsers : Password(b) \/ Logout(b)) \/ UNCHANGED vars
  PROVE  KeyInvariant'
  <1>1. ASSUME thread' = thread, serial' = serial, totp' = totp, backup' = backup,
               tokens' = tokens, ghost'.shown = ghost.shown, ghost'.spent = ghost.spent,
               \A c \in Browsers :
                 session'[c].factor = session[c].factor \/ session'[c].factor.kind = "none"
        PROVE  KeyInvariant'
    BY <1>1 DEF KeyInvariant, KeysGiven, SetsOwned
  <1>2. ASSUME NEW b \in Browsers, Password(b)
        PROVE  KeyInvariant'
    BY <1>1, <1>2, PasswordMoves DEF TypeInvariant
  <1>3. ASSUME NEW b \in Browsers, Logout(b)
        PROVE  KeyInvariant'
    <2>1. \A c \in Browsers :
            session'[c].factor = session[c].factor \/ session'[c].factor.kind = "none"
      BY <1>3, LogoutMoves, InitialRecords DEF TypeInvariant, TypeOK
    <2>2. QED
      BY <1>1, <1>3, <2>1, LogoutMoves DEF Anew, TypeInvariant
  <1>4. CASE UNCHANGED vars
    BY <1>1, <1>4 DEF vars
  <1>5. QED
    BY <1>2, <1>3, <1>4

LEMMA KeysStay ==
  Spec => []KeyInvariant
  <1>1. Init => KeyInvariant
    BY InitialRecords DEF Init, KeyInvariant, KeysGiven, SetsOwned
  <1>2. TypeInvariant /\ KeyInvariant /\ [Next]_vars => KeyInvariant'
    BY KeysStayGiven, SetsStayOwned, RestKeepsKeys DEF Next, KeyInvariant
  <1>3. QED
    BY <1>1, <1>2, TypesStay, PTL DEF Spec
-----------------------------------------------------------------------------
(***************************************************************************)
(* The one enrolment and the one device, while enrolments do not overlap.  *)
(***************************************************************************)
LEMMA EnrolledMeans ==
  /\ Enrolled <=> \E d \in Devices : totp[d] = "confirmed"
  /\ Enrolled' <=> \E d \in Devices : totp'[d] = "confirmed"
  BY DEF Enrolled, WithStatus

\* A thread that is not enrolling after its step, which changes no device.
LEMMA NotEnrolling ==
  ASSUME DeviceInvariant, NEW t \in Threads, ~Enrolling(t)',
         \A u \in Threads : u # t => thread'[u] = thread[u],
         totp' = totp, ghost'.contested = ghost.contested, ghost'.enrolled = ghost.enrolled
  PROVE  DeviceInvariant'
  <1> SUFFICES ASSUME ~ghost'.contested
               PROVE  OneDevice' /\ (ghost'.enrolled => Enrolled')
                      /\ \A u \in Threads : Enrolling(u)' => EnrolsAlone(u)'
    BY DEF DeviceInvariant
  <1>1. OneDevice' /\ (ghost'.enrolled => Enrolled')
    BY DEF DeviceInvariant, OneDevice, Enrolled, WithStatus
  <1>2. ASSUME NEW u \in Threads, Enrolling(u)'
        PROVE  EnrolsAlone(u)'
    <2>1. u # t /\ thread'[u] = thread[u] /\ Enrolling(u)
      BY <1>2 DEF Enrolling
    <2>2. EnrolsAlone(u)
      BY <2>1 DEF DeviceInvariant
    <2>3. \A v \in Threads : Enrolling(v)' => v = u
      BY <2>2 DEF EnrolsAlone, Enrolling
    <2>4. QED
      BY <2>1, <2>2, <2>3 DEF EnrolsAlone, Enrolled, WithStatus, Copying
  <1>3. QED
    BY <1>1, <1>2

\* A thread that goes on enrolling, alone.
LEMMA EnrolsOn ==
  ASSUME NEW t \in Threads, OneDevice', ~Enrolled',
         \A u \in Threads : u # t => ~Enrolling(u)',
         thread'[t].pc = "create_device" => \A d \in Devices : totp'[d] = "absent",
         thread'[t].pc \in {"verify_token", "confirm"} =>
           \A d \in Devices : totp'[d] # "absent" => d = thread'[t].device,
         ~ghost'.contested => ~ghost'.enrolled
  PROVE  DeviceInvariant'
  <1>1. Enrolling(t)' => EnrolsAlone(t)'
    BY DEF EnrolsAlone, Copying
  <1>2. QED
    BY <1>1 DEF DeviceInvariant

LEMMA EnrolStepsAlone ==
  ASSUME TypeInvariant, DeviceInvariant, ~ghost'.contested, NEW t \in Threads,
         GetDevice(t) \/ CreateDevice(t) \/ VerifyToken(t) \/ Confirm(t)
  PROVE  DeviceInvariant'
  <1>0. /\ TypeOK /\ Known(t) /\ totp \in [Devices -> Status] /\ Enrolling(t)
        /\ ghost'.contested = ghost.contested
    BY GetMoves, CreateMoves, VerifyMoves, ConfirmMoves
    DEF TypeInvariant, TypeOK, RequestsKnown, Enrolling, DeviceHistorySame
  <1>1. /\ EnrolsAlone(t) /\ OneDevice /\ ~Enrolled /\ ~ghost.enrolled
        /\ \A d \in Devices : totp[d] # "confirmed"
    BY <1>0, EnrolledMeans DEF DeviceInvariant, EnrolsAlone
  <1>2. \A u \in Threads : u # t => thread'[u] = thread[u] /\ ~Enrolling(u)'
    <2>1. \A u \in Threads : u # t => thread'[u] = thread[u] /\ ~Enrolling(u)
      BY <1>0, <1>1, OtherThreads DEF EnrolsAlone, Step
    <2>2. QED
      BY <2>1 DEF Enrolling
  <1>3. CASE GetDevice(t)
    <2>0. totp' = totp /\ ghost' = ghost
      BY <1>0, <1>3, GetMoves
    <2>1. OneDevice' /\ ~Enrolled'
      BY <1>1, <2>0 DEF OneDevice, Enrolled, WithStatus
    <2>2. CASE thread'[t] = Idle
      BY <1>1, <1>2, <2>0, <2>1, <2>2, InitialRecords, EnrolsOn
    <2>3. CASE thread'[t].pc = "create_device" /\ WithStatus("unconfirmed") = {}
      <3>1. \A d \in Devices : totp[d] = "absent"
        BY <1>0, <1>1, <2>3 DEF WithStatus, Status
      <3>2. QED
        BY <1>1, <1>2, <2>0, <2>1, <2>3, <3>1, EnrolsOn
    <2>4. CASE thread'[t].pc = "verify_token" /\ WithStatus("unconfirmed") = {thread'[t].device}
      <3>1. \A d \in Devices : totp[d] # "absent" => d = thread'[t].device
        BY <1>0, <1>1, <2>4 DEF WithStatus, Status
      <3>2. QED
        BY <1>1, <1>2, <2>0, <2>1, <2>4, <3>1, EnrolsOn
    <2>5. QED
      BY <1>0, <1>3, <2>2, <2>3, <2>4, GetMoves DEF Goes
  <1>4. CASE CreateDevice(t)
    <2>1. /\ \A d \in Devices : totp[d] = "absent"
          /\ totp' = [totp EXCEPT ![serial.device] = "unconfirmed"] /\ ghost' = ghost
          /\ thread'[t].device = serial.device /\ thread'[t].pc = "verify_token"
      BY <1>0, <1>1, <1>4, CreateMoves DEF EnrolsAlone
    <2>2. \A d \in Devices : totp'[d] # "absent" => d = serial.device /\ totp'[d] = "unconfirmed"
      BY <1>0, <2>1
    <2>3. OneDevice' /\ ~Enrolled'
      BY <2>2, EnrolledMeans DEF OneDevice
    <2>4. QED
      BY <1>1, <1>2, <2>1, <2>2, <2>3, EnrolsOn
  <1>5. CASE VerifyToken(t)
    <2>1. /\ \A d \in Devices : totp[d] # "absent" => d = thread[t].device
          /\ totp' = totp \/ totp' = [totp EXCEPT ![thread[t].device] = "unconfirmed"]
          /\ (thread'[t] = Idle \/ Goes(t, "confirm")) /\ ghost' = ghost
      BY <1>0, <1>1, <1>5, VerifyMoves DEF EnrolsAlone, Copying
    <2>2. /\ \A d \in Devices : totp'[d] # "absent" => d = thread[t].device
          /\ \A d \in Devices : totp'[d] # "confirmed"
      BY <1>0, <1>1, <2>1
    <2>3. OneDevice' /\ ~Enrolled'
      BY <2>2, EnrolledMeans DEF OneDevice
    <2>4. CASE thread'[t] = Idle
      BY <1>1, <1>2, <1>5, <2>3, <2>4, InitialRecords, VerifyMoves, EnrolsOn, <1>0
    <2>5. CASE Goes(t, "confirm")
      <3>1. thread'[t].device = thread[t].device /\ thread'[t].pc = "confirm" /\ ghost' = ghost
        BY <1>0, <1>5, <2>5, VerifyMoves DEF Goes, SameRequest
      <3>2. QED
        BY <1>1, <1>2, <2>2, <2>3, <3>1, EnrolsOn
    <2>6. QED
      BY <2>1, <2>4, <2>5
  <1>6. CASE Confirm(t)
    <2>1. /\ \A d \in Devices : totp[d] # "absent" => d = thread[t].device
          /\ totp' = [totp EXCEPT ![thread[t].device] = "confirmed"]
          /\ thread'[t].pc = "select_backup" /\ thread[t].device \in Devices
      BY <1>0, <1>1, <1>6, ConfirmMoves, FieldTypes DEF EnrolsAlone, Copying, Goes, Known
    <2>2. \A u \in Threads : ~Enrolling(u)'
      BY <1>2, <2>1 DEF Enrolling
    <2>3. OneDevice' /\ Enrolled'
      <3>1. /\ \A d \in Devices : totp'[d] # "absent" => d = thread[t].device
            /\ totp'[thread[t].device] = "confirmed"
        BY <1>0, <2>1
      <3>2. QED
        BY <2>1, <3>1, EnrolledMeans DEF OneDevice
    <2>4. QED
      BY <2>2, <2>3 DEF DeviceInvariant
  <1>7. QED
    BY <1>3, <1>4, <1>5, <1>6

LEMMA DevicesStay ==
  Spec => []DeviceInvariant
  <1>1. Init => DeviceInvariant
    BY InitialRecords DEF Init, DeviceInvariant, OneDevice, Enrolling
  <1>2. TypeInvariant /\ DeviceInvariant /\ [Next]_vars => DeviceInvariant'
    <2> SUFFICES ASSUME TypeInvariant, DeviceInvariant, [Next]_vars
                 PROVE  DeviceInvariant'
      OBVIOUS
    <2>0. TypeOK /\ totp \in [Devices -> Status]
      BY DEF TypeInvariant, TypeOK
    <2>1. ASSUME NEW t \in Threads, Step(t), ~ghost'.contested
          PROVE  DeviceInvariant'
      <3>0. \A u \in Threads : u # t => thread'[u] = thread[u]
        BY <2>0, <2>1, OtherThreads
      <3>1. CASE StartEnroll(t)
        <4>1. /\ thread'[t].pc = "get_device" /\ ~Enrolled /\ totp' = totp
              /\ ghost'.contested = (ghost.contested \/ \E u \in Threads : Enrolling(u))
              /\ ghost'.enrolled = ghost.enrolled
          BY <2>0, <3>1, EnrollMoves DEF Begins
        <4>2. ~ghost.contested /\ \A u \in Threads : u # t => ~Enrolling(u)'
          BY <2>1, <3>0, <4>1 DEF Enrolling
        <4>3. OneDevice' /\ ~Enrolled' /\ ~ghost'.enrolled
          BY <4>1, <4>2, EnrolledMeans DEF DeviceInvariant, OneDevice
        <4>4. QED
          BY <4>1, <4>2, <4>3, EnrolsOn
      <3>2. CASE GetDevice(t) \/ CreateDevice(t) \/ VerifyToken(t) \/ Confirm(t)
        BY <2>1, <3>2, EnrolStepsAlone
      <3>3. CASE StartReset(t)
        <4>1. /\ totp' = [d \in Devices |-> IF totp[d] = "confirmed" THEN "absent" ELSE totp[d]]
              /\ ~ghost'.enrolled /\ thread'[t].pc = "select_backup"
              /\ ghost'.contested = ghost.contested
          BY <2>0, <3>3, ResetMoves DEF Begins
        <4>2. /\ \A d \in Devices : totp'[d] # "absent" => totp[d] # "absent"
              /\ \A d \in Devices : totp'[d] # "confirmed"
          BY <4>1
        <4>3. OneDevice'
          BY <2>1, <4>1, <4>2 DEF DeviceInvariant, OneDevice
        <4>4. ASSUME NEW u \in Threads, Enrolling(u)'
              PROVE  EnrolsAlone(u)'
          <5>1. u # t /\ thread'[u] = thread[u] /\ Enrolling(u)
            BY <3>0, <4>1, <4>4 DEF Enrolling
          <5>2. EnrolsAlone(u)
            BY <2>1, <4>1, <5>1 DEF DeviceInvariant
          <5>3. \A v \in Threads : Enrolling(v)' => v = u
            BY <3>0, <4>1, <5>2 DEF EnrolsAlone, Enrolling
          <5>4. QED
            BY <4>2, <5>1, <5>2, <5>3, EnrolledMeans DEF EnrolsAlone, Copying
        <4>5. QED
          BY <4>1, <4>3, <4>4 DEF DeviceInvariant
      <3>4. CASE SelectBackups(t) \/ DeleteBackups(t) \/ CreateBackup(t) \/ CreateToken(t)
        <4>1. /\ totp' = totp /\ DeviceHistorySame
              /\ thread'[t].pc \in {"idle", "delete_backup", "create_backup", "create_token", "respond"}
          BY <2>0, <3>4, SelectMoves, DeleteMoves, CreateBackupMoves, TokenMoves, DoneMoves,
             InitialRecords DEF Goes, DeviceHistorySame
        <4>2. QED
          BY <3>0, <4>1, NotEnrolling DEF Enrolling, DeviceHistorySame
      <3>5. CASE StartVerify(t) \/ Match(t) \/ Respond(t) \/ Crash(t)
        <4>1. /\ totp' = totp /\ DeviceHistorySame
              /\ thread'[t].pc \in {"idle", "match", "respond"}
          BY <2>0, <3>5, StartVerifyMoves, MatchMoves, RespondMoves, CrashMoves, InitialRecords
          DEF Begins, Accepts, Anew, DeviceHistorySame
        <4>2. QED
          BY <3>0, <4>1, NotEnrolling DEF Enrolling, DeviceHistorySame
      <3>6. QED
        BY <2>1, <3>1, <3>2, <3>3, <3>4, <3>5 DEF Step
    <2>2. CASE \/ UNCHANGED vars \/ \E b \in Browsers : Password(b) \/ Logout(b)
      <3>1. totp' = totp /\ thread' = thread /\ DeviceHistorySame
        BY <2>0, <2>2, PasswordMoves, LogoutMoves DEF vars, Anew, DeviceHistorySame
      <3>2. QED
        BY <3>1
        DEF DeviceInvariant, OneDevice, EnrolsAlone, Enrolling, Enrolled, WithStatus, Copying,
           DeviceHistorySame
    <2>3. CASE ghost'.contested
      BY <2>3 DEF DeviceInvariant
    <2>4. QED
      BY <2>1, <2>2, <2>3 DEF Next
  <1>3. QED
    BY <1>1, <1>2, TypesStay, PTL DEF Spec

(***************************************************************************)
(* The account never has two TOTP devices, and does not lose its confirmed *)
(* one before the next reset, whatever copies verify_token saves and       *)
(* wherever workers die, unless two enrolments overlap.                    *)
(***************************************************************************)
THEOREM DevicesStayConsistent == Spec => []DevicesConsistent
  <1>1. DeviceInvariant => DevicesConsistent
    <2> SUFFICES ASSUME DeviceInvariant, ~ghost.contested
                 PROVE  Cardinality({d \in Devices : totp[d] # "absent"}) <= 1
      BY DEF DeviceInvariant, DevicesConsistent
    <2>1. CASE {d \in Devices : totp[d] # "absent"} = {}
      BY <2>1, FS_EmptySet
    <2>2. CASE \E d \in Devices : totp[d] # "absent"
      <3>1. PICK d \in Devices : totp[d] # "absent"
        BY <2>2
      <3>2. {e \in Devices : totp[e] # "absent"} = {d}
        BY <3>1 DEF DeviceInvariant, OneDevice
      <3>3. QED
        BY <3>2, FS_Singleton
    <2>3. QED
      BY <2>1, <2>2
  <1>2. QED
    BY <1>1, DevicesStay, PTL
-----------------------------------------------------------------------------
(***************************************************************************)
(* The codes of the thread that issues them alone.                         *)
(***************************************************************************)
\* A thread that is not issuing after its step, which touches no codes.
LEMMA NotIssuing ==
  ASSUME CodesInvariant, NEW t \in Threads, ~Issuing(t)',
         \A u \in Threads : u # t => thread'[u] = thread[u],
         backup' = backup, tokens' = tokens, CodesHistorySame,
         ghost.alone \subseteq Threads
  PROVE  CodesInvariant'
  <1>1. ASSUME NEW u \in ghost'.alone, Issuing(u)'
        PROVE  IssuesAlone(u)'
    <2>1. u # t /\ u \in ghost.alone /\ u \in Threads
      BY <1>1 DEF CodesHistorySame
    <2>2. thread'[u] = thread[u] /\ Issuing(u)
      BY <1>1, <2>1 DEF Issuing
    <2>3. IssuesAlone(u)
      BY <2>1, <2>2 DEF CodesInvariant
    <2>4. \A v \in Threads : Issuing(v)' => v = u
      BY <2>3 DEF IssuesAlone, Issuing
    <2>5. QED
      BY <2>2, <2>3, <2>4 DEF IssuesAlone
  <1>2. ghost'.good # 0 => \A u \in Threads : ~Issuing(u)'
    BY DEF CodesInvariant, CodesHistorySame, Issuing
  <1>3. CodesReplaced'
    BY DEF CodesInvariant, CodesReplaced, CodesHistorySame
  <1>4. QED
    BY <1>1, <1>2, <1>3 DEF CodesInvariant

\* An issuing thread's step disturbs no other that issues alone.
LEMMA OnlyIssuer ==
  ASSUME CodesInvariant, NEW t \in Threads, Issuing(t),
         \A u \in Threads : u # t => thread'[u] = thread[u],
         ghost'.alone = ghost.alone, ghost.alone \subseteq Threads
  PROVE  /\ ghost.good = 0
         /\ \A u \in ghost'.alone : Issuing(u)' => u = t
         /\ t \in ghost.alone => /\ IssuesAlone(t)
                                 /\ \A u \in Threads : u # t => ~Issuing(u)'
  <1>1. ghost.good = 0
    BY DEF CodesInvariant
  <1>2. ASSUME NEW u \in ghost'.alone, Issuing(u)', u # t
        PROVE  FALSE
    <2>1. u \in ghost.alone /\ u \in Threads /\ Issuing(u)
      BY <1>2 DEF Issuing
    <2>2. IssuesAlone(u)
      BY <2>1 DEF CodesInvariant
    <2>3. QED
      BY <1>2, <2>2 DEF IssuesAlone
  <1>3. t \in ghost.alone => /\ IssuesAlone(t)
                             /\ \A u \in Threads : u # t => ~Issuing(u)'
    BY DEF CodesInvariant, IssuesAlone, Issuing
  <1>4. QED
    BY <1>1, <1>2, <1>3

\* Beginning to issue codes.
LEMMA BeginsToIssue ==
  ASSUME CodesInvariant, NEW t \in Threads, thread'[t].pc = "select_backup",
         \A u \in Threads : u # t => thread'[u] = thread[u],
         ghost'.good = 0,
         ghost'.alone = IF \E u \in Threads \ {t} : Issuing(u) THEN {} ELSE {t}
  PROVE  CodesInvariant'
  <1>1. ASSUME NEW u \in ghost'.alone
        PROVE  IssuesAlone(u)'
    <2>1. u = t /\ \A v \in Threads \ {t} : ~Issuing(v)
      BY <1>1
    <2>2. \A v \in Threads : Issuing(v)' => v = t
      BY <2>1 DEF Issuing
    <2>3. QED
      BY <2>1, <2>2 DEF IssuesAlone
  <1>2. QED
    BY <1>1 DEF CodesInvariant, CodesReplaced

LEMMA IssuingKeepsCodes ==
  ASSUME TypeInvariant, KeyInvariant, CodesInvariant, NEW t \in Threads,
         SelectBackups(t) \/ DeleteBackups(t) \/ CreateBackup(t) \/ CreateToken(t)
  PROVE  CodesInvariant'
  <1>0. /\ TypeOK /\ Known(t) /\ ghost.alone \subseteq Threads /\ Step(t)
        /\ \A u \in Threads : u # t => thread'[u] = thread[u]
    BY HistoryTypes, OtherThreads DEF TypeInvariant, RequestsKnown, Step
  <1>1. Issuing(t) /\ ghost'.alone = ghost.alone
    <2>1. thread[t].pc \in {"select_backup", "delete_backup", "create_backup", "create_token"}
      BY <1>0, SelectMoves, DeleteMoves, CreateBackupMoves, TokenMoves
    <2>2. ghost'.alone = ghost.alone
      BY <1>0, SelectMoves, DeleteMoves, CreateBackupMoves, TokenMoves, DoneMoves
    <2>3. QED
      BY <2>1, <2>2 DEF Issuing
  <1>2. /\ ghost.good = 0 /\ \A u \in ghost'.alone : Issuing(u)' => u = t
        /\ t \in ghost.alone => IssuesAlone(t) /\ \A u \in Threads : u # t => ~Issuing(u)'
    BY <1>0, <1>1, OnlyIssuer
  \* It is enough to look at this thread, if its codes are not complete.
  <1>3. ASSUME ghost'.good = 0,
               t \in ghost.alone =>
                 /\ thread'[t].pc = "delete_backup" => thread'[t].ids = backup'
                 /\ thread'[t].pc = "create_backup" => backup' = {}
                 /\ thread'[t].pc = "create_token" =>
                      /\ backup' = {thread'[t].set}
                      /\ tokens' = {thread'[t].set} \X (1..thread'[t].count)
        PROVE  CodesInvariant'
    <2>1. t \in ghost.alone => IssuesAlone(t)'
      BY <1>2, <1>3 DEF IssuesAlone
    <2>2. QED
      BY <1>1, <1>2, <1>3, <2>1 DEF CodesInvariant, CodesReplaced
  <1>4. CASE SelectBackups(t)
    BY <1>0, <1>2, <1>3, <1>4, SelectMoves
  <1>5. CASE DeleteBackups(t)
    <2>1. CASE Goes(t, "create_backup") /\ backup' = backup \ thread[t].ids
      <3>1. t \in ghost.alone => backup' = {}
        <4>1. thread[t].pc = "delete_backup"
          BY <1>0, <1>5, DeleteMoves
        <4>2. QED
          BY <1>2, <2>1, <4>1 DEF IssuesAlone
      <3>2. thread'[t].pc = "create_backup" /\ ghost'.good = 0
        BY <1>0, <1>2, <1>5, <2>1, DeleteMoves DEF Goes
      <3>3. QED
        BY <1>3, <3>1, <3>2
    <2>2. CASE thread'[t] = Idle
      BY <1>0, <1>2, <1>3, <1>5, <2>2, DeleteMoves, InitialRecords
    <2>3. QED
      BY <1>0, <1>5, <2>1, <2>2, DeleteMoves
  <1>6. CASE CreateBackup(t)
    <2>1. /\ thread[t].pc = "create_backup" /\ backup' = backup \cup {serial.set}
          /\ thread'[t].set = serial.set /\ thread'[t].pc = "create_token"
          /\ thread'[t].count = thread[t].count /\ tokens' = tokens /\ ghost' = ghost
      BY <1>6, CreateBackupMoves
    <2>2. thread[t].count = 0
      BY <1>0, <2>1 DEF Known
    <2>3. t \in ghost.alone => backup = {} /\ tokens = {}
      BY <1>2, <2>1 DEF IssuesAlone, KeyInvariant, SetsOwned
    <2>4. t \in ghost.alone => /\ backup' = {thread'[t].set}
                               /\ tokens' = {thread'[t].set} \X (1..thread'[t].count)
      BY <2>1, <2>2, <2>3
    <2>5. QED
      BY <1>2, <1>3, <2>1, <2>4
  <1>7. CASE CreateToken(t)
    <2>1. CASE thread'[t] = Idle /\ ghost' = ghost
      BY <1>2, <1>3, <2>1, InitialRecords
    <2>2. CASE /\ thread[t].set \in backup
               /\ tokens' = tokens \cup {<<thread[t].set, thread[t].count + 1>>}
      <3>1. /\ thread[t].pc = "create_token" /\ backup' = backup
            /\ thread[t].set \in Sets /\ thread[t].count \in Nat
        <4>1. thread[t].pc = "create_token" /\ backup' = backup
          BY <1>7, TokenMoves
        <4>2. thread[t].set \in Sets /\ thread[t].count \in Nat
          BY <1>0, <4>1, FieldTypes, CountAssumption DEF Known
        <4>3. QED
          BY <4>1, <4>2
      <3>2. t \in ghost.alone =>
              /\ backup = {thread[t].set}
              /\ tokens' = {thread[t].set} \X (1..(thread[t].count + 1))
        <4>1. SUFFICES ASSUME t \in ghost.alone
                       PROVE  /\ backup = {thread[t].set}
                              /\ tokens' = {thread[t].set} \X (1..(thread[t].count + 1))
          OBVIOUS
        <4>2. /\ backup = {thread[t].set}
              /\ tokens = {thread[t].set} \X (1..thread[t].count)
          BY <1>2, <3>1, <4>1 DEF IssuesAlone
        <4>3. 1..(thread[t].count + 1) = 1..thread[t].count \cup {thread[t].count + 1}
          BY <3>1
        <4>4. QED
          BY <2>2, <4>2, <4>3
      <3>3. CASE thread[t].count + 1 = CodeCount /\ IssueDone(t)
        <4>1. /\ ghost'.good = IF t \in ghost.alone THEN thread[t].set ELSE ghost.good
              /\ ghost'.spent = ghost.spent /\ thread'[t].pc \in {"idle", "respond"}
          BY <3>1, <3>3, DoneMoves, InitialRecords
        <4>2. CASE t \notin ghost.alone
          BY <1>2, <1>3, <4>1, <4>2
        <4>3. CASE t \in ghost.alone
          <5>1. \A u \in Threads : ~Issuing(u)'
            BY <1>2, <4>1, <4>3 DEF Issuing
          <5>2. ghost'.good = thread[t].set /\ backup' = {thread[t].set}
            BY <3>1, <3>2, <4>1, <4>3
          <5>3. tokens' = Codes(thread[t].set) \ ghost'.spent
            <6>1. tokens' = Codes(thread[t].set)
              BY <3>2, <3>3, <4>3 DEF Codes
            <6>2. \A c \in ghost'.spent : c[1] # thread[t].set
              BY <4>1 DEF KeyInvariant, SetsOwned
            <6>3. \A c \in Codes(thread[t].set) : c[1] = thread[t].set
              BY DEF Codes
            <6>4. QED
              BY <6>1, <6>2, <6>3
          <5>4. CodesReplaced'
            BY <5>2, <5>3 DEF CodesReplaced, Codes
          <5>5. QED
            BY <1>0, <1>1, <5>1, <5>4 DEF CodesInvariant
        <4>4. QED
          BY <4>2, <4>3
      <3>4. CASE /\ ghost' = ghost /\ thread'[t].set = thread[t].set
                 /\ thread'[t].count = thread[t].count + 1 /\ thread'[t].pc = "create_token"
        BY <1>2, <1>3, <3>1, <3>2, <3>4
      <3>5. QED
        BY <1>7, <2>2, <3>3, <3>4, TokenMoves
    <2>3. QED
      BY <1>7, <2>1, <2>2, TokenMoves
  <1>8. QED
    BY <1>4, <1>5, <1>6, <1>7

\* A backup code is deleted when it is accepted; no set half made has any to accept.
LEMMA MatchKeepsCodes ==
  ASSUME TypeInvariant, KeyInvariant, CodesInvariant, NEW t \in Threads, Match(t)
  PROVE  CodesInvariant'
  <1>0. /\ TypeOK /\ ghost.alone \subseteq Threads /\ Step(t) /\ backup' = backup
        /\ \A u \in Threads : u # t => thread'[u] = thread[u]
    BY HistoryTypes, OtherThreads, MatchMoves DEF TypeInvariant, Step
  <1>1. ~Issuing(t)'
    BY <1>0, MatchMoves, InitialRecords DEF Issuing, Accepts
  <1>2. CASE tokens' = tokens /\ ghost' = ghost
    BY <1>0, <1>1, <1>2, NotIssuing DEF CodesHistorySame
  <1>3. CASE \E c \in tokens : /\ c[1] \in ghost.shown /\ tokens' = tokens \ {c}
                               /\ ghost'.spent = ghost.spent \cup {c}
                               /\ ghost'.alone = ghost.alone /\ ghost'.good = ghost.good
    <2>1. PICK c \in tokens : /\ c[1] \in ghost.shown /\ tokens' = tokens \ {c}
                              /\ ghost'.spent = ghost.spent \cup {c}
                              /\ ghost'.alone = ghost.alone /\ ghost'.good = ghost.good
      BY <1>3
    <2>2. ASSUME NEW u \in ghost'.alone, Issuing(u)'
          PROVE  IssuesAlone(u)'
      <3>1. u \in ghost.alone /\ u \in Threads /\ u # t /\ thread'[u] = thread[u]
        BY <1>0, <1>1, <2>1, <2>2
      <3>2. IssuesAlone(u)
        BY <2>2, <3>1 DEF CodesInvariant, Issuing
      <3>3. thread[u].pc # "create_token"
        <4>1. SUFFICES ASSUME thread[u].pc = "create_token" PROVE FALSE
          OBVIOUS
        <4>2. c[1] \in backup /\ backup = {thread[u].set}
          BY <2>1, <3>2, <4>1 DEF IssuesAlone, KeyInvariant, SetsOwned
        <4>3. QED
          BY <2>1, <3>1, <4>2 DEF KeyInvariant, SetsOwned
      <3>4. \A v \in Threads : Issuing(v)' => v = u
        BY <1>0, <1>1, <3>2 DEF IssuesAlone, Issuing
      <3>5. QED
        BY <1>0, <3>1, <3>2, <3>3, <3>4 DEF IssuesAlone
    <2>3. ghost'.good # 0 => \A u \in Threads : ~Issuing(u)'
      BY <1>0, <1>1, <2>1 DEF CodesInvariant, Issuing
    <2>4. CodesReplaced'
      BY <1>0, <2>1 DEF CodesInvariant, CodesReplaced, Codes
    <2>5. QED
      BY <2>2, <2>3, <2>4 DEF CodesInvariant
  <1>4. QED
    BY <1>0, <1>2, <1>3, MatchMoves

LEMMA RestKeepsCodes ==
  ASSUME CodesInvariant, thread' = thread, backup' = backup, tokens' = tokens,
         ghost'.alone = ghost.alone, ghost'.good = ghost.good, ghost'.spent = ghost.spent
  PROVE  CodesInvariant'
  BY DEF CodesInvariant, CodesReplaced, IssuesAlone, Issuing, Codes

LEMMA CodesStay ==
  Spec => []CodesInvariant
  <1>1. Init => CodesInvariant
    BY InitialRecords DEF Init, CodesInvariant, CodesReplaced
  <1>2. TypeInvariant /\ KeyInvariant /\ CodesInvariant /\ [Next]_vars => CodesInvariant'
    <2> SUFFICES ASSUME TypeInvariant, KeyInvariant, CodesInvariant, [Next]_vars
                 PROVE  CodesInvariant'
      OBVIOUS
    <2>0. TypeOK /\ ghost.alone \subseteq Threads
      BY HistoryTypes DEF TypeInvariant
    <2>1. ASSUME NEW t \in Threads, Step(t)
          PROVE  CodesInvariant'
      <3>0. \A u \in Threads : u # t => thread'[u] = thread[u]
        BY <2>0, <2>1, OtherThreads
      <3>1. CASE StartEnroll(t) \/ GetDevice(t) \/ CreateDevice(t) \/ VerifyToken(t)
        <4>1. /\ CodesHistorySame /\ backup' = backup /\ tokens' = tokens
              /\ thread'[t].pc \in {"idle", "get_device", "create_device", "verify_token", "confirm"}
          BY <2>0, <3>1, EnrollMoves, GetMoves, CreateMoves, VerifyMoves, InitialRecords
          DEF Begins, Goes, CodesHistorySame
        <4>2. QED
          BY <2>0, <3>0, <4>1, NotIssuing DEF Issuing
      <3>2. CASE Confirm(t) \/ StartReset(t)
        <4>1. /\ thread'[t].pc = "select_backup" /\ ghost'.good = 0
              /\ ghost'.alone = IF \E u \in Threads \ {t} : Issuing(u) THEN {} ELSE {t}
          BY <2>0, <3>2, ConfirmMoves, ResetMoves DEF Begins, Goes
        <4>2. QED
          BY <3>0, <4>1, BeginsToIssue
      <3>3. CASE StartVerify(t) \/ Crash(t)
        <4>1. /\ CodesHistorySame /\ backup' = backup /\ tokens' = tokens
              /\ thread'[t].pc \in {"idle", "match"}
          BY <2>0, <3>3, StartVerifyMoves, CrashMoves, InitialRecords DEF Begins, CodesHistorySame
        <4>2. QED
          BY <2>0, <3>0, <4>1, NotIssuing DEF Issuing
      <3>4. CASE Respond(t)
        <4>1. /\ backup' = backup /\ tokens' = tokens /\ thread'[t].pc = "idle"
              /\ ghost'.alone = ghost.alone /\ ghost'.good = ghost.good
              /\ ghost'.spent = ghost.spent
          BY <3>4, RespondMoves, InitialRecords DEF Anew
        <4>2. thread[t].pc = "respond"
          BY <3>4, RespondMoves
        <4>3. QED
          BY <2>0, <3>0, <4>1, <4>2
          DEF CodesInvariant, CodesReplaced, IssuesAlone, Issuing, Codes
      <3>5. QED
        BY <2>1, <3>1, <3>2, <3>3, <3>4, IssuingKeepsCodes, MatchKeepsCodes DEF Step
    <2>2. ASSUME NEW b \in Browsers, Password(b) \/ Logout(b)
          PROVE  CodesInvariant'
      BY <2>0, <2>2, PasswordMoves, LogoutMoves, RestKeepsCodes DEF Anew
    <2>3. CASE UNCHANGED vars
      BY <2>3, RestKeepsCodes DEF vars
    <2>4. QED
      BY <2>1, <2>2, <2>3 DEF Next
  <1>3. QED
    BY <1>1, <1>2, TypesStay, KeysStay, PTL DEF Spec

(***************************************************************************)
(* A new set of codes replaces the old ones, statement by statement and    *)
(* next to any sign-in that uses one up, if no other issuance overlaps.    *)
(***************************************************************************)
THEOREM CodesStayReplaced == Spec => []CodesReplaced
  <1>1. CodesInvariant => CodesReplaced
    BY DEF CodesInvariant
  <1>2. QED
    BY <1>1, CodesStay, PTL
-----------------------------------------------------------------------------
(***************************************************************************)
(* What a reset removed stays removed, while enrolments do not overlap.    *)
(***************************************************************************)
\* Which step changes a device, and to what.
LEMMA DeviceSteps ==
  ASSUME TypeInvariant, NEW t \in Threads, Step(t)
  PROVE  \/ totp' = totp /\ ghost'.removed = ghost.removed
         \/ /\ CreateDevice(t) /\ totp' = [totp EXCEPT ![serial.device] = "unconfirmed"]
            /\ ghost'.removed = ghost.removed
         \/ /\ VerifyToken(t) \/ Confirm(t)
            /\ Copying(t) /\ thread[t].device \in Devices /\ ghost'.removed = ghost.removed
            /\ \E st \in {"unconfirmed", "confirmed"} : totp' = [totp EXCEPT ![thread[t].device] = st]
         \/ /\ StartReset(t)
            /\ totp' = [d \in Devices |-> IF totp[d] = "confirmed" THEN "absent" ELSE totp[d]]
            /\ ghost'.removed = ghost.removed \cup WithStatus("confirmed")
  <1>0. TypeOK /\ Known(t)
    BY DEF TypeInvariant, RequestsKnown
  <1>1. CASE StartReset(t)
    BY <1>0, <1>1, ResetMoves
  <1>2. CASE VerifyToken(t) \/ Confirm(t)
    <2>1. Copying(t) /\ thread[t].device \in Devices
      BY <1>0, <1>2, VerifyMoves, ConfirmMoves, FieldTypes DEF Known, Copying
    <2>2. QED
      BY <1>0, <1>2, <2>1, VerifyMoves, ConfirmMoves
  <1>3. CASE CreateDevice(t)
    BY <1>3, CreateMoves
  <1>4. CASE StartEnroll(t) \/ GetDevice(t) \/ SelectBackups(t) \/ DeleteBackups(t)
    BY <1>0, <1>4, EnrollMoves, GetMoves, SelectMoves, DeleteMoves DEF DeviceHistorySame
  <1>5. CASE CreateBackup(t) \/ CreateToken(t) \/ StartVerify(t)
    BY <1>0, <1>5, CreateBackupMoves, TokenMoves, DoneMoves, StartVerifyMoves DEF DeviceHistorySame
  <1>6. CASE Match(t) \/ Respond(t) \/ Crash(t)
    BY <1>0, <1>6, MatchMoves, RespondMoves, CrashMoves DEF Anew, DeviceHistorySame
  <1>7. QED
    BY <1>1, <1>2, <1>3, <1>4, <1>5, <1>6 DEF Step

\* An enrolment under way leaves no device confirmed.
LEMMA NoneConfirmed ==
  ASSUME DeviceInvariant, ~ghost.contested, NEW t \in Threads, Enrolling(t)
  PROVE  \A d \in Devices : totp[d] # "confirmed"
  BY EnrolledMeans DEF DeviceInvariant, EnrolsAlone

LEMMA LastingStays ==
  ASSUME TypeInvariant, KeyInvariant, DeviceInvariant, ~ghost.contested,
         NEW t \in Threads, Step(t), NEW d \in Devices, Lasting(d)
  PROVE  Lasting(d)'
  <1>0. /\ totp \in [Devices -> Status] /\ serial.device \in Nat /\ d \in Nat
        /\ totp[d] = "confirmed" => d < serial.device
    BY NumberTypes, FieldTypes DEF TypeInvariant, TypeOK, KeyInvariant, KeysGiven
  <1>1. CASE totp' = totp /\ ghost'.removed = ghost.removed
    BY <1>1 DEF Lasting
  <1>2. CASE totp' = [totp EXCEPT ![serial.device] = "unconfirmed"] /\ ghost'.removed = ghost.removed
    BY <1>0, <1>2 DEF Lasting
  <1>3. CASE Copying(t) /\ ghost'.removed = ghost.removed
    BY <1>3, NoneConfirmed DEF Lasting, Copying, Enrolling
  <1>4. CASE ghost'.removed = ghost.removed \cup WithStatus("confirmed")
    BY <1>4 DEF Lasting, WithStatus
  <1>5. QED
    BY <1>1, <1>2, <1>3, <1>4, DeviceSteps

\* Where the factors of a thread and of the sessions come from.
LEMMA ThreadFactors ==
  ASSUME TypeInvariant, NEW t \in Threads, Step(t)
  PROVE  thread'[t].factor.kind = "totp" =>
           \/ thread'[t].factor = thread[t].factor
           \/ totp[thread'[t].factor.id] = "confirmed"
           \/ /\ thread'[t].factor.id = thread[t].device
              /\ thread[t].op = "enroll" /\ Issuing(t)
  <1>0. TypeOK /\ NoFactor.kind = "none" /\ Known(t)
    BY DEF TypeInvariant, NoFactor, RequestsKnown
  <1>1. CASE \/ StartEnroll(t) \/ GetDevice(t) \/ CreateDevice(t) \/ VerifyToken(t) \/ Confirm(t)
             \/ StartReset(t)
    BY <1>0, <1>1, InitialRecords, EnrollMoves, GetMoves, CreateMoves, VerifyMoves, ConfirmMoves,
       ResetMoves DEF Begins, Goes
  <1>2. CASE SelectBackups(t) \/ DeleteBackups(t) \/ CreateBackup(t) \/ StartVerify(t)
    BY <1>0, <1>2, InitialRecords, SelectMoves, DeleteMoves, CreateBackupMoves, StartVerifyMoves
    DEF Begins, Goes
  <1>3. CASE CreateToken(t)
    <2>1. CASE IssueDone(t) /\ thread[t].op = "enroll"
      <3>1. /\ thread'[t].factor = [kind |-> "totp", id |-> thread[t].device]
            /\ thread[t].pc = "create_token"
        BY <1>3, <2>1, TokenMoves, DoneMoves
      <3>2. QED
        BY <2>1, <3>1 DEF Issuing
    <2>2. CASE IssueDone(t) /\ thread[t].op # "enroll"
      BY <1>3, <2>2, TokenMoves, DoneMoves, InitialRecords
    <2>3. QED
      BY <1>3, <2>1, <2>2, TokenMoves, InitialRecords
  <1>4. CASE Match(t)
    <2>1. CASE \E d \in WithStatus("confirmed") : Accepts(t, [kind |-> "totp", id |-> d])
      BY <2>1 DEF Accepts, WithStatus
    <2>2. CASE \E c \in tokens : Accepts(t, [kind |-> "backup", id |-> c[1]])
      BY <2>2 DEF Accepts
    <2>3. QED
      BY <1>0, <1>4, <2>1, <2>2, MatchMoves, InitialRecords
  <1>5. CASE Respond(t) \/ Crash(t)
    BY <1>0, <1>5, RespondMoves, CrashMoves, InitialRecords
  <1>6. QED
    BY <1>1, <1>2, <1>3, <1>4, <1>5 DEF Step

LEMMA SessionFactors ==
  ASSUME TypeInvariant, NEW t \in Threads, Step(t)
  PROVE  \/ session' = session
         \/ \E b \in Browsers :
              /\ Respond(t) /\ Anew(b) /\ session'[b].factor = thread[t].factor
              /\ \A c \in Browsers \ {b} : session'[c] = session[c]
  <1>1. CASE Respond(t)
    <2>1. PICK b \in Browsers :
            /\ session' = [session EXCEPT ![b] = [pending |-> FALSE, factor |-> thread[t].factor]]
            /\ Anew(b)
      BY <1>1, RespondMoves DEF TypeInvariant
    <2>2. /\ session'[b].factor = thread[t].factor
          /\ \A c \in Browsers \ {b} : session'[c] = session[c]
      BY <2>1 DEF TypeInvariant, TypeOK
    <2>3. QED
      BY <1>1, <2>1, <2>2
  <1>2. QED
    BY <1>1 DEF Step, StartEnroll, GetDevice, CreateDevice, VerifyToken, Confirm,
       StartReset, SelectBackups, DeleteBackups, CreateBackup, CreateToken, StartVerify, Match, Crash

\* A thread that issues codes for an enrolment after its step.
LEMMA EnrolIssues ==
  ASSUME TypeInvariant, NEW t \in Threads, Step(t), thread'[t].op = "enroll", Issuing(t)'
  PROVE  /\ thread'[t].device = thread[t].device
         /\ \/ Confirm(t)
            \/ thread[t].op = "enroll" /\ Issuing(t)
  <1>0. TypeOK
    BY DEF TypeInvariant
  <1>1. CASE StartEnroll(t) \/ GetDevice(t) \/ CreateDevice(t) \/ VerifyToken(t)
    <2>1. thread'[t].pc \in {"idle", "get_device", "create_device", "verify_token", "confirm"}
      BY <1>0, <1>1, InitialRecords, EnrollMoves, GetMoves, CreateMoves, VerifyMoves
      DEF Begins, Goes
    <2>2. QED
      BY <2>1 DEF Issuing
  <1>2. CASE Confirm(t)
    BY <1>0, <1>2, ConfirmMoves DEF Goes, SameRequest
  <1>3. CASE StartReset(t)
    BY <1>0, <1>3, ResetMoves DEF Begins
  <1>4. CASE SelectBackups(t) \/ DeleteBackups(t) \/ CreateBackup(t)
    BY <1>0, <1>4, InitialRecords, SelectMoves, DeleteMoves, CreateBackupMoves
    DEF Goes, SameRequest, Issuing
  <1>5. CASE CreateToken(t)
    <2>1. thread[t].pc = "create_token"
      BY <1>5, TokenMoves
    <2>2. IssueDone(t) => thread'[t].pc \in {"idle", "respond"}
      BY <1>5, <2>1, DoneMoves, InitialRecords
    <2>3. QED
      BY <1>5, <2>1, <2>2, TokenMoves, InitialRecords DEF Issuing, SameRequest
  <1>6. CASE StartVerify(t) \/ Match(t) \/ Respond(t) \/ Crash(t)
    <2>1. thread'[t].pc \in {"idle", "match", "respond"}
      BY <1>0, <1>6, InitialRecords, StartVerifyMoves, MatchMoves, RespondMoves, CrashMoves
      DEF Begins, Accepts
    <2>2. QED
      BY <2>1 DEF Issuing
  <1>7. QED
    BY <1>1, <1>2, <1>3, <1>4, <1>5, <1>6 DEF Step

LEMMA FactorsStay ==
  ASSUME TypeInvariant, KeyInvariant, DeviceInvariant, ~ghost.contested, FactorsLast,
         NEW t \in Threads, Step(t)
  PROVE  FactorsLast'
  <1>0. /\ TypeOK /\ \A u \in Threads : u # t => thread'[u] = thread[u]
        /\ \A d \in Devices : Lasting(d) => Lasting(d)'
        /\ \A u \in Threads : thread[u].factor.kind = "totp" => thread[u].factor.id \in Devices
        /\ \A b \in Browsers : session[b].factor.kind = "totp" => session[b].factor.id \in Devices
    BY OtherThreads, LastingStays, FieldTypes, FactorTypes DEF TypeInvariant
  <1>1. ASSUME NEW b \in Browsers, session'[b].factor.kind = "totp"
        PROVE  (Lasting(session[b].factor.id))'
    BY <1>0, <1>1, SessionFactors DEF FactorsLast
  <1>2. ASSUME NEW u \in Threads, thread'[u].factor.kind = "totp"
        PROVE  (Lasting(thread[u].factor.id))'
    <2>1. CASE u # t
      BY <1>0, <1>2, <2>1 DEF FactorsLast
    <2>2. CASE u = t
      <3>1. thread'[t].factor.id \in Devices
        BY <1>2, <2>2, StepKeepsTypes, FieldTypes, FactorTypes
        DEF TypeInvariant, TypeOK, ThreadState
      <3>2. Lasting(thread'[t].factor.id)
        BY <1>2, <2>2, ThreadFactors DEF FactorsLast, Lasting
      <3>3. QED
        BY <1>0, <2>2, <3>1, <3>2
    <2>3. QED
      BY <2>1, <2>2
  <1>3. ASSUME NEW u \in Threads, thread'[u].op = "enroll", Issuing(u)'
        PROVE  (Lasting(thread[u].device))'
    <2>1. CASE u # t
      <3>1. /\ thread'[u] = thread[u] /\ thread[u].op = "enroll" /\ Issuing(u)
            /\ thread[u].device \in Devices
        BY <1>0, <1>3, <2>1, FieldTypes DEF Issuing, TypeInvariant, RequestsKnown, Known
      <3>2. QED
        BY <1>0, <3>1 DEF FactorsLast
    <2>2. CASE u = t /\ Confirm(t)
      <3>1. totp'[thread[t].device] = "confirmed"
        <4>1. thread[t].device \in Devices
          BY <1>0, <2>2, ConfirmMoves, FieldTypes DEF TypeInvariant, RequestsKnown, Known, Copying
        <4>2. QED
          BY <1>0, <2>2, <4>1, ConfirmMoves DEF TypeOK
      <3>2. QED
        BY <1>3, <2>2, <3>1, EnrolIssues DEF Lasting
    <2>3. CASE u = t /\ thread[t].op = "enroll" /\ Issuing(t)
      <3>1. thread[t].device \in Devices
        BY <1>0, <2>3, FieldTypes DEF TypeInvariant, RequestsKnown, Known
      <3>2. QED
        BY <1>0, <1>3, <2>3, <3>1, EnrolIssues DEF FactorsLast
    <2>4. QED
      BY <1>3, <2>1, <2>2, <2>3, EnrolIssues
  <1>4. QED
    BY <1>1, <1>2, <1>3 DEF FactorsLast

\* No request has a copy of a device that a reset removed, or a key it had.
LEMMA CopiesNotRemoved ==
  ASSUME TypeInvariant, KeyInvariant, RemovedGone, NEW t \in Threads, Step(t), Copying(t)'
  PROVE  thread'[t].device \notin ghost'.removed
  <1>0. TypeOK /\ Known(t)
    BY DEF TypeInvariant, RequestsKnown
  <1>1. CASE GetDevice(t)
    <2>1. /\ ghost'.removed = ghost.removed
          /\ WithStatus("unconfirmed") = {thread'[t].device}
      BY <1>0, <1>1, GetMoves, InitialRecords DEF Copying, Goes
    <2>2. totp[thread'[t].device] = "unconfirmed"
      BY <2>1 DEF WithStatus
    <2>3. QED
      BY <2>1, <2>2 DEF RemovedGone
  <1>2. CASE CreateDevice(t)
    <2>1. /\ ghost'.removed = ghost.removed /\ thread'[t].device = serial.device
          /\ serial.device \in Nat
      BY <1>0, <1>2, CreateMoves, NumberTypes
    <2>2. QED
      BY <2>1 DEF RemovedGone
  <1>3. CASE VerifyToken(t)
    BY <1>0, <1>3, VerifyMoves, InitialRecords DEF RemovedGone, Copying, Goes, SameRequest
  <1>4. CASE StartEnroll(t) \/ Confirm(t) \/ StartReset(t) \/ StartVerify(t) \/ Respond(t) \/ Crash(t)
    <2>1. thread'[t].pc \in {"idle", "get_device", "select_backup", "match"}
      BY <1>0, <1>4, InitialRecords, EnrollMoves, ConfirmMoves, ResetMoves, StartVerifyMoves,
         RespondMoves, CrashMoves DEF Begins, Goes
    <2>2. QED
      BY <2>1 DEF Copying
  <1>5. CASE SelectBackups(t) \/ DeleteBackups(t) \/ CreateBackup(t) \/ Match(t)
    <2>1. thread'[t].pc \in {"idle", "delete_backup", "create_backup", "create_token", "respond"}
      BY <1>0, <1>5, InitialRecords, SelectMoves, DeleteMoves, CreateBackupMoves, MatchMoves
      DEF Goes, Accepts
    <2>2. QED
      BY <2>1 DEF Copying
  <1>6. CASE CreateToken(t)
    <2>1. thread'[t].pc \in {"idle", "create_token", "respond"}
      BY <1>6, InitialRecords, TokenMoves, DoneMoves
    <2>2. QED
      BY <2>1 DEF Copying
  <1>7. QED
    BY <1>1, <1>2, <1>3, <1>4, <1>5, <1>6 DEF Step

LEMMA RemovedStays ==
  ASSUME TypeInvariant, KeyInvariant, DeviceInvariant, ~ghost.contested, RemovedGone,
         NEW t \in Threads, Step(t)
  PROVE  RemovedGone'
  <1>0. /\ TypeOK /\ ghost.removed \subseteq Devices /\ serial.device \in Nat
        /\ totp \in [Devices -> Status] /\ Devices \subseteq Nat
        /\ \A u \in Threads : u # t => thread'[u] = thread[u]
        /\ \A n \in Nat : n < serial.device => n < serial'.device
    BY HistoryTypes, FieldTypes, NumberTypes, OtherThreads, GivenStays DEF TypeInvariant, TypeOK
  <1>1. ASSUME NEW d \in ghost'.removed
        PROVE  totp'[d] = "absent" /\ d < serial'.device
    <2>1. CASE totp' = totp /\ ghost'.removed = ghost.removed
      BY <1>0, <1>1, <2>1 DEF RemovedGone
    <2>2. CASE totp' = [totp EXCEPT ![serial.device] = "unconfirmed"] /\ ghost'.removed = ghost.removed
      <3>1. d \in Devices /\ d \in Nat /\ totp[d] = "absent" /\ d < serial.device
        BY <1>0, <1>1, <2>2 DEF RemovedGone
      <3>2. d # serial.device
        BY <1>0, <3>1
      <3>3. QED
        BY <1>0, <2>2, <3>1, <3>2
    <2>3. CASE /\ Copying(t) /\ ghost'.removed = ghost.removed
               /\ \E st \in {"unconfirmed", "confirmed"} :
                    totp' = [totp EXCEPT ![thread[t].device] = st]
      BY <1>0, <1>1, <2>3 DEF RemovedGone
    <2>4. CASE /\ totp' = [e \in Devices |-> IF totp[e] = "confirmed" THEN "absent" ELSE totp[e]]
               /\ ghost'.removed = ghost.removed \cup WithStatus("confirmed")
      BY <1>0, <1>1, <2>4 DEF RemovedGone, WithStatus, KeyInvariant, KeysGiven
    <2>5. QED
      BY <2>1, <2>2, <2>3, <2>4, DeviceSteps
  <1>2. ASSUME NEW u \in Threads, Copying(u)'
        PROVE  thread'[u].device \notin ghost'.removed
    <2>1. CASE u = t
      BY <1>2, <2>1, CopiesNotRemoved
    <2>2. CASE u # t
      <3>1. Copying(u) /\ Enrolling(u) /\ thread'[u] = thread[u]
        BY <1>0, <1>2, <2>2 DEF Copying, Enrolling
      <3>2. ghost'.removed = ghost.removed
        BY <1>0, <3>1, DeviceSteps, NoneConfirmed DEF WithStatus
      <3>3. QED
        BY <3>1, <3>2 DEF RemovedGone
    <2>3. QED
      BY <2>1, <2>2
  <1>3. QED
    BY <1>1, <1>2 DEF RemovedGone

(***************************************************************************)
(* Who a reset should sign out stays signed out.                           *)
(***************************************************************************)
\* A browser awaited by a reset has not changed since; those a reset has
\* signed out are the ones it awaited.
LEMMA AwaitedBrowsers ==
  ASSUME TypeInvariant, NEW t \in Threads, Step(t)
  PROVE  /\ \A u \in Threads : ~(u = t /\ StartReset(t)) =>
              \A b \in ghost'.before[u] :
                b \in ghost.before[u] /\ session'[b].factor = session[b].factor
         /\ \A b \in ghost'.out :
              /\ session'[b].factor = session[b].factor
              /\ \/ b \in ghost.out
                 \/ /\ b \in ghost.before[t] /\ thread[t].op = "reset"
                    /\ thread[t].pc = "create_token"
  <1>0. TypeOK /\ ghost.before \in [Threads -> SUBSET Browsers] /\ ghost.out \subseteq Browsers
    BY HistoryTypes DEF TypeInvariant
  <1>1. CASE Respond(t)
    <2>1. PICK b \in Browsers : /\ Anew(b)
                                /\ \A c \in Browsers \ {b} : session'[c] = session[c]
      BY <1>1, SessionFactors, RespondMoves DEF Anew
    <2>2. QED
      BY <1>0, <2>1 DEF Anew
  <1>2. CASE StartReset(t)
    BY <1>0, <1>2, ResetMoves
  <1>3. CASE CreateToken(t)
    BY <1>0, <1>3, TokenMoves, DoneMoves
  <1>4. CASE StartEnroll(t) \/ GetDevice(t) \/ CreateDevice(t) \/ VerifyToken(t) \/ Confirm(t)
    BY <1>0, <1>4, EnrollMoves, GetMoves, CreateMoves, VerifyMoves, ConfirmMoves
    DEF ResetHistorySame
  <1>5. CASE SelectBackups(t) \/ DeleteBackups(t) \/ CreateBackup(t)
    BY <1>0, <1>5, SelectMoves, DeleteMoves, CreateBackupMoves
  <1>6. CASE StartVerify(t) \/ Match(t) \/ Crash(t)
    BY <1>0, <1>6, StartVerifyMoves, MatchMoves, CrashMoves DEF ResetHistorySame
  <1>7. QED
    BY <1>1, <1>2, <1>3, <1>4, <1>5, <1>6 DEF Step

\* Enrolments that have overlapped are remembered.
LEMMA ContestedStays ==
  ASSUME TypeInvariant, NEW t \in Threads, Step(t), ~ghost'.contested
  PROVE  ~ghost.contested
  <1>0. TypeOK
    BY DEF TypeInvariant
  <1>1. CASE StartEnroll(t) \/ GetDevice(t) \/ CreateDevice(t) \/ VerifyToken(t) \/ Confirm(t)
    BY <1>0, <1>1, EnrollMoves, GetMoves, CreateMoves, VerifyMoves, ConfirmMoves
  <1>2. CASE StartReset(t) \/ SelectBackups(t) \/ DeleteBackups(t) \/ CreateBackup(t)
    BY <1>0, <1>2, ResetMoves, SelectMoves, DeleteMoves, CreateBackupMoves DEF DeviceHistorySame
  <1>3. CASE CreateToken(t)
    BY <1>0, <1>3, TokenMoves, DoneMoves DEF DeviceHistorySame
  <1>4. CASE StartVerify(t) \/ Match(t) \/ Respond(t) \/ Crash(t)
    BY <1>0, <1>4, StartVerifyMoves, MatchMoves, RespondMoves, CrashMoves
    DEF Anew, DeviceHistorySame
  <1>5. QED
    BY <1>1, <1>2, <1>3, <1>4 DEF Step

LEMMA GoneStays ==
  ASSUME TypeInvariant, KeyInvariant, NEW t \in Threads, Step(t),
         NEW b \in Browsers, session'[b].factor = session[b].factor
  PROVE  (DeviceGone(b) => DeviceGone(b)') /\ (CodesGone(b) => CodesGone(b)')
  <1>0. TypeOK
    BY DEF TypeInvariant
  <1>1. ghost.removed \subseteq ghost'.removed
    BY DeviceSteps
  <1>2. backup' \subseteq backup \cup {serial.set}
    <2>1. CASE DeleteBackups(t) \/ CreateBackup(t)
      BY <1>0, <2>1, DeleteMoves, CreateBackupMoves
    <2>2. CASE ~(DeleteBackups(t) \/ CreateBackup(t))
      BY <2>2 DEF Step, StartEnroll, GetDevice, CreateDevice, VerifyToken, Confirm, StartReset,
         SelectBackups, CreateToken, StartVerify, Match, Respond, Crash
    <2>3. QED
      BY <2>1, <2>2
  <1>3. session[b].factor.kind = "backup" => session[b].factor.id # serial.set
    <2>1. session[b].factor.kind = "backup" =>
            session[b].factor.id \in Nat /\ session[b].factor.id < serial.set
      BY <1>0, FieldTypes, FactorTypes, NumberTypes DEF KeyInvariant, KeysGiven
    <2>2. serial.set \in Nat
      BY <1>0, FieldTypes
    <2>3. QED
      BY <2>1, <2>2
  <1>4. QED
    BY <1>1, <1>2, <1>3 DEF DeviceGone, CodesGone

\* The threads that do not reset after their step.
LEMMA NotResetting ==
  ASSUME TypeInvariant, NEW t \in Threads, Step(t), thread'[t].op = "reset"
  PROVE  \/ StartReset(t) \/ SelectBackups(t) \/ DeleteBackups(t) \/ CreateBackup(t)
         \/ CreateToken(t)
  <1>0. TypeOK /\ Known(t)
    BY DEF TypeInvariant, RequestsKnown
  <1>1. CASE StartEnroll(t) \/ StartVerify(t) \/ Respond(t) \/ Crash(t)
    BY <1>0, <1>1, InitialRecords, EnrollMoves, StartVerifyMoves, RespondMoves, CrashMoves
    DEF Begins
  <1>2. CASE GetDevice(t) \/ CreateDevice(t) \/ VerifyToken(t) \/ Confirm(t)
    <2>1. thread[t].op = "enroll"
      BY <1>0, <1>2, GetMoves, CreateMoves, VerifyMoves, ConfirmMoves DEF Known, Enrolling
    <2>2. QED
      BY <1>0, <1>2, <2>1, InitialRecords, GetMoves, CreateMoves, VerifyMoves, ConfirmMoves
      DEF Goes, SameRequest
  <1>3. CASE Match(t)
    BY <1>0, <1>3, InitialRecords, MatchMoves DEF Known, Accepts, SameRequest
  <1>4. QED
    BY <1>1, <1>2, <1>3 DEF Step

\* The stepping thread's own reset.
LEMMA OwnSignedOut ==
  ASSUME TypeInvariant, KeyInvariant, FactorsLast, NEW t \in Threads, Step(t), SignedOut(t)
  PROVE  SignedOut(t)'
  <1> SUFFICES ASSUME thread'[t].op = "reset", NEW b \in ghost'.before[t]
               PROVE  /\ DeviceGone(b)'
                      /\ thread'[t].pc = "delete_backup" =>
                           CodesGone(b)' \/ session'[b].factor.id \in thread'[t].ids
                      /\ thread'[t].pc \in {"create_backup", "create_token"} => CodesGone(b)'
    BY DEF SignedOut
  <1>0. /\ TypeOK /\ b \in Browsers
    <2>1. ghost'.before \in [Threads -> SUBSET Browsers]
      BY StepKeepsTypes, HistoryTypes DEF TypeInvariant, TypeOK, GhostState
    <2>2. QED
      BY <2>1 DEF TypeInvariant
  <1>1. CASE StartReset(t)
    <2>1. /\ thread'[t].pc = "select_backup" /\ session' = session
          /\ ghost'.removed = ghost.removed \cup WithStatus("confirmed")
      BY <1>0, <1>1, ResetMoves DEF Begins
    <2>2. session[b].factor.kind = "totp" => Lasting(session[b].factor.id)
                                             /\ session[b].factor.id \in Devices
      BY <1>0, FieldTypes, FactorTypes DEF FactorsLast
    <2>3. QED
      BY <2>1, <2>2 DEF DeviceGone, Lasting, WithStatus
  <1>2. CASE ~StartReset(t)
    <2>0. /\ b \in ghost.before[t] /\ session'[b].factor = session[b].factor
          /\ DeviceGone(b) => DeviceGone(b)'
          /\ CodesGone(b) => CodesGone(b)'
      BY <1>0, <1>2, AwaitedBrowsers, GoneStays
    <2>1. CASE SelectBackups(t)
      <3>1. /\ thread[t].op = "reset" /\ thread'[t].pc = "delete_backup"
            /\ thread'[t].ids = backup /\ backup' = backup
        BY <1>0, <2>1, SelectMoves DEF SameRequest
      <3>2. QED
        BY <2>0, <3>1 DEF SignedOut, CodesGone
    <2>2. CASE DeleteBackups(t)
      <3>1. /\ thread[t].op = "reset" /\ thread[t].pc = "delete_backup"
            /\ thread'[t].pc = "create_backup" /\ backup' = backup \ thread[t].ids
        BY <1>0, <2>2, DeleteMoves, InitialRecords DEF Goes, SameRequest
      <3>2. DeviceGone(b) /\ (CodesGone(b) \/ session[b].factor.id \in thread[t].ids)
        BY <2>0, <3>1 DEF SignedOut
      <3>3. CodesGone(b)'
        BY <2>0, <3>1, <3>2 DEF CodesGone
      <3>4. QED
        BY <2>0, <3>1, <3>2, <3>3
    <2>3. CASE CreateBackup(t)
      <3>1. /\ thread[t].op = "reset" /\ thread[t].pc = "create_backup"
            /\ thread'[t].pc = "create_token"
        BY <1>0, <2>3, CreateBackupMoves DEF SameRequest
      <3>2. QED
        BY <2>0, <3>1 DEF SignedOut
    <2>4. CASE CreateToken(t)
      <3>1. /\ thread[t].op = "reset" /\ thread[t].pc = "create_token"
            /\ thread'[t].pc = "create_token"
        <4>1. ~IssueDone(t)
          BY <2>4, TokenMoves, DoneMoves, InitialRecords DEF SameRequest
        <4>2. QED
          BY <2>4, <4>1, TokenMoves, InitialRecords DEF SameRequest
      <3>2. QED
        BY <2>0, <3>1 DEF SignedOut
    <2>5. QED
      BY <1>2, <2>1, <2>2, <2>3, <2>4, NotResetting
  <1>3. QED
    BY <1>1, <1>2

LEMMA SignedOutStays ==
  ASSUME TypeInvariant, KeyInvariant, FactorsLast, NEW t \in Threads, Step(t),
         NEW u \in Threads, SignedOut(u), SignedOut(t)
  PROVE  SignedOut(u)'
  <1>1. CASE u = t
    BY <1>1, OwnSignedOut
  <1>2. CASE u # t
    <2>1. thread'[u] = thread[u]
      BY <1>2, OtherThreads DEF TypeInvariant
    <2>2. ASSUME NEW b \in ghost'.before[u]
          PROVE  /\ b \in ghost.before[u] /\ session'[b].factor = session[b].factor
                 /\ DeviceGone(b) => DeviceGone(b)'
                 /\ CodesGone(b) => CodesGone(b)'
      <3>1. b \in ghost.before[u] /\ session'[b].factor = session[b].factor
        BY <1>2, AwaitedBrowsers
      <3>2. b \in Browsers
        BY <3>1, HistoryTypes DEF TypeInvariant
      <3>3. QED
        BY <3>1, <3>2, GoneStays
    <2>3. QED
      BY <2>1, <2>2 DEF SignedOut
  <1>3. QED
    BY <1>1, <1>2

LEMMA OutStays ==
  ASSUME TypeInvariant, KeyInvariant, NEW t \in Threads, Step(t), SignedOut(t),
         \A b \in ghost.out : DeviceGone(b) /\ CodesGone(b)
  PROVE  \A b \in ghost'.out : DeviceGone(b)' /\ CodesGone(b)'
  <1>1. TAKE b \in ghost'.out
  <1>2. /\ session'[b].factor = session[b].factor
        /\ DeviceGone(b) /\ CodesGone(b)
    BY AwaitedBrowsers DEF SignedOut
  <1>3. b \in Browsers
    BY StepKeepsTypes, HistoryTypes DEF TypeInvariant, TypeOK, GhostState
  <1>4. QED
    BY <1>2, <1>3, GoneStays

\* A step of no thread: a browser signs out, or only enters the password.
LEMMA RestKeepsReset ==
  ASSUME TypeOK, NEW b \in Browsers, Password(b) \/ Logout(b), ResetInvariant
  PROVE  ResetInvariant'
  <1>0. /\ UNCHANGED <<totp, backup, serial, thread>>
        /\ ghost'.contested = ghost.contested /\ ghost'.removed = ghost.removed
    BY PasswordMoves, LogoutMoves DEF Anew, DeviceHistorySame
  <1>1. /\ \A c \in Browsers : \/ session'[c].factor = session[c].factor
                               \/ session'[c].factor.kind = "none"
        /\ \A u \in Threads : \A c \in ghost'.before[u] :
             c \in ghost.before[u] /\ session'[c].factor = session[c].factor
        /\ \A c \in ghost'.out : c \in ghost.out /\ session'[c].factor = session[c].factor
    <2>0. /\ ghost.before \in [Threads -> SUBSET Browsers] /\ ghost.out \subseteq Browsers
          /\ session \in [Browsers -> Signed]
      BY HistoryTypes DEF TypeOK
    <2>1. CASE Password(b)
      BY <2>0, <2>1, PasswordMoves
    <2>2. CASE Logout(b)
      BY <2>0, <2>2, LogoutMoves, InitialRecords DEF Anew
    <2>3. QED
      BY <2>1, <2>2
  <1>2. FactorsLast => FactorsLast'
    BY <1>0, <1>1 DEF FactorsLast, Lasting, Issuing
  <1>3. RemovedGone => RemovedGone'
    BY <1>0 DEF RemovedGone, Copying
  <1>4. ASSUME NEW u \in Threads, SignedOut(u)
        PROVE  SignedOut(u)'
    BY <1>0, <1>1, <1>4 DEF SignedOut, DeviceGone, CodesGone
  <1>5. (\A c \in ghost.out : DeviceGone(c) /\ CodesGone(c)) =>
          (\A c \in ghost'.out : DeviceGone(c)' /\ CodesGone(c)')
    BY <1>0, <1>1 DEF DeviceGone, CodesGone
  <1>6. QED
    BY <1>0, <1>2, <1>3, <1>4, <1>5 DEF ResetInvariant

LEMMA ResetsStay ==
  Spec => []ResetInvariant
  <1>1. Init => ResetInvariant
    BY InitialRecords
    DEF Init, ResetInvariant, FactorsLast, RemovedGone, SignedOut, Copying, Issuing
  <1>2. TypeInvariant /\ KeyInvariant /\ DeviceInvariant /\ ResetInvariant /\ [Next]_vars
          => ResetInvariant'
    <2> SUFFICES ASSUME TypeInvariant, KeyInvariant, DeviceInvariant, ResetInvariant, [Next]_vars
                 PROVE  ResetInvariant'
      OBVIOUS
    <2>1. ASSUME NEW t \in Threads, Step(t)
          PROVE  ResetInvariant'
      <3> SUFFICES ASSUME ~ghost'.contested
                   PROVE  /\ FactorsLast' /\ RemovedGone'
                          /\ \A u \in Threads : SignedOut(u)'
                          /\ \A b \in ghost'.out : DeviceGone(b)' /\ CodesGone(b)'
        BY DEF ResetInvariant
      <3>1. ~ghost.contested
        BY <2>1, ContestedStays
      <3>2. /\ FactorsLast /\ RemovedGone
            /\ \A u \in Threads : SignedOut(u)
            /\ \A b \in ghost.out : DeviceGone(b) /\ CodesGone(b)
        BY <3>1 DEF ResetInvariant
      <3>3. FactorsLast' /\ RemovedGone'
        BY <2>1, <3>1, <3>2, FactorsStay, RemovedStays
      <3>4. ASSUME NEW u \in Threads
            PROVE  SignedOut(u)'
        BY <2>1, <3>2, SignedOutStays
      <3>5. \A b \in ghost'.out : DeviceGone(b)' /\ CodesGone(b)'
        BY <2>1, <3>2, OutStays
      <3>6. QED
        BY <3>3, <3>4, <3>5
    <2>2. ASSUME NEW b \in Browsers, Password(b) \/ Logout(b)
          PROVE  ResetInvariant'
      BY <2>2, RestKeepsReset DEF TypeInvariant
    <2>3. CASE UNCHANGED vars
      BY <2>3 DEF vars, ResetInvariant, FactorsLast, RemovedGone, SignedOut, DeviceGone, CodesGone,
         Lasting, Copying, Issuing
    <2>4. QED
      BY <2>1, <2>2, <2>3 DEF Next
  <1>3. QED
    BY <1>1, <1>2, TypesStay, KeysStay, DevicesStay, PTL DEF Spec

(***************************************************************************)
(* A reset is final, however sign-ins, enrolments that do not overlap and  *)
(* crashes come between its statements: what it removed stays removed, and *)
(* whom it should sign out stays signed out.                               *)
(***************************************************************************)
THEOREM ResetStaysFinal == Spec => []ResetFinal
  <1>1. TypeInvariant /\ ResetInvariant => ResetFinal
    <2> SUFFICES ASSUME TypeInvariant, ResetInvariant, ~ghost.contested
                 PROVE  /\ \A d \in ghost.removed : totp[d] = "absent"
                        /\ \A b \in ghost.out : ~Verified(b)
      BY DEF ResetFinal
    <2>1. \A d \in ghost.removed : totp[d] = "absent"
      BY DEF ResetInvariant, RemovedGone
    <2>2. \A b \in ghost.out : DeviceGone(b) /\ CodesGone(b)
      BY DEF ResetInvariant
    <2>3. QED
      BY <2>1, <2>2 DEF Verified, DeviceGone, CodesGone
  <1>2. QED
    BY <1>1, TypesStay, ResetsStay, PTL
=============================================================================
