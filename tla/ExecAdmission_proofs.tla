------------------------- MODULE ExecAdmission_proofs -------------------------
(***************************************************************************)
(* Proofs about ExecAdmission, for any number of requests and accounts,    *)
(* any limits and any timing.                                              *)
(***************************************************************************)
EXTENDS ExecAdmission, SlotLimits_proofs

USE DEF Checking, Holding, Finished, Polling

(* The inductive invariant.  A request that checks or inserts holds the    *)
(* write lock where there is one; no clock reading is of the future; what  *)
(* a request has read bounds what is live now, except for its rivals; with *)
(* one writer it has none.                                                 *)
LockHeld ==
  Serialised => \A r \in Requests :
                  pc[r] \in {"readUsed", "readMine", "decide"} => writer = r

StampsPast == \A r \in Requests : stamp[r] <= now

HolderAdmitted == \A r \in slots : pc[r] \in Holding \cup {"release"} \cup Finished

Seen(r) == LiveAt(stamp[r]) \ rivals[r]

UsedRead(r) == pc[r] \in {"readMine", "decide"} => MemoryOf(Seen(r)) <= seenUsed[r]
MineRead(r) == pc[r] = "decide" => Cardinality(OfSameUser(r, Seen(r))) <= seenMine[r]
ReadsBound  == \A r \in Requests : UsedRead(r) /\ MineRead(r)

NoRivals == Serialised => \A r \in Requests : rivals[r] = {}

CheckInv == TypeOK /\ LockHeld /\ StampsPast /\ HolderAdmitted /\ ReadsBound /\ NoRivals

----------------------------------------------------------------------------
(* Types                                                                   *)

LEMMA LiveType ==
  ASSUME TypeOK
  PROVE  /\ Live \in SUBSET Requests
         /\ \A t : LiveAt(t) \in SUBSET Requests
         /\ \A t : LiveAt(t) \subseteq slots
  BY DEF TypeOK, Live, LiveAt

LEMMA CountType ==
  ASSUME NEW S \in SUBSET Requests, NEW r
  PROVE  Cardinality(OfSameUser(r, S)) \in Nat
  BY UserMono

LEMMA TypeInit == Init => TypeOK
  BY LimitsAssumption, ConstantsAssumption
  DEF Init, TypeOK, States, Answers

LEMMA TypeAcquire ==
  ASSUME TypeOK, NEW r \in Requests, Acquire(r)
  PROVE  TypeOK'
<1> USE LimitsAssumption, ConstantsAssumption
<1> USE DEF TypeOK, States, Answers, dbVars, localVars, Goto, Stamp, Reply,
            ForgetReads, ForgetClock, ForgetRivals, TakeLock, FreeLock
<1>1. CASE \/ BeginTry(r) \/ DeleteExpired(r) \/ DeleteLocked(r) \/ Retry(r)
           \/ InsertFails(r)
  BY <1>1 DEF BeginTry, DeleteExpired, DeleteLocked, Retry, InsertFails
<1>2. CASE ReadUsed(r)
  <2>1. MemoryOf(LiveAt(stamp[r])) \in Nat
    BY LiveType, UnitsFinite
  <2>2. QED
    BY <1>2, <2>1 DEF ReadUsed
<1>3. CASE ReadMine(r)
  <2>1. Cardinality(OfSameUser(r, LiveAt(stamp[r]))) \in Nat
    BY LiveType, CountType
  <2>2. QED
    BY <1>3, <2>1 DEF ReadMine
<1>4. CASE Refuse(r)
  BY <1>4 DEF Refuse, LiveAt
<1>5. CASE Admit(r)
  <2>1. slots' \in SUBSET Requests /\ expires' \in [Requests -> Nat]
    BY <1>5 DEF Admit, LiveAt, Expiry
  <2>2. rivals' \in [Requests -> SUBSET Requests]
    BY <1>5 DEF Admit
  <2>3. QED
    BY <1>5, <2>1, <2>2 DEF Admit
<1>6. CASE BusyUsed(r)
  <2>1. MemoryOf(Live) \in Nat
    BY LiveType, UnitsFinite
  <2>2. QED
    BY <1>6, <2>1 DEF BusyUsed
<1>7. CASE BusyError(r)
  <2>1. Cardinality(OfSameUser(r, LiveAt(stamp[r]))) \in Nat
    BY LiveType, CountType
  <2>2. QED
    BY <1>7, <2>1 DEF BusyError
<1>8. QED
  BY <1>1, <1>2, <1>3, <1>4, <1>5, <1>6, <1>7 DEF Acquire

LEMMA TypeRest ==
  ASSUME TypeOK, NEW r \in Requests,
         RunCode(r) \/ Arrive(r) \/ Crash(r) \/ OrphanEnds(r)
  PROVE  TypeOK'
<1> USE LimitsAssumption, ConstantsAssumption
<1> USE DEF TypeOK, States, Answers, dbVars, localVars, Goto, Stamp, Reply,
            ForgetReads, ForgetClock, ForgetRivals, TakeLock, FreeLock
<1>1. CASE StartContainer(r) \/ DriverUnavailable(r)
  BY <1>1 DEF StartContainer, DriverUnavailable
<1>2. CASE RunEnds(r) \/ ReplyLost(r)
  BY <1>2 DEF RunEnds, ReplyLost
<1>3. CASE Release(r) \/ ReleaseLocked(r)
  BY <1>3 DEF Release, ReleaseLocked
<1>4. CASE Arrive(r)
  BY <1>4 DEF Arrive
<1>5. CASE Crash(r)
  BY <1>5 DEF Crash
<1>6. CASE OrphanEnds(r)
  BY <1>6 DEF OrphanEnds
<1>7. QED
  BY <1>1, <1>2, <1>3, <1>4, <1>5, <1>6 DEF RunCode

LEMMA TypeStep == TypeOK /\ [Next]_vars => TypeOK'
<1> SUFFICES ASSUME TypeOK, [Next]_vars PROVE TypeOK'
  OBVIOUS
<1>1. CASE \E r \in Requests : Arrive(r) \/ Step(r) \/ Crash(r) \/ OrphanEnds(r)
  BY <1>1, TypeAcquire, TypeRest DEF Step
<1>2. CASE AppWrites \/ AppCommits \/ \E u \in Users : Purge(u)
  BY <1>2, ConstantsAssumption
  DEF AppWrites, AppCommits, Purge, TypeOK, dbVars, localVars
<1>3. CASE Tick
  BY <1>3 DEF Tick, TypeOK, dbVars, localVars
<1>4. CASE UNCHANGED vars
  BY <1>4 DEF TypeOK, vars
<1>5. QED
  BY <1>1, <1>2, <1>3, <1>4 DEF Next, Quiet

(* Every variable keeps its type.                                          *)
THEOREM TypeCorrect == Spec => []TypeOK
  BY TypeInit, TypeStep, PTL DEF Spec

----------------------------------------------------------------------------
(* Checks and inserts                                                      *)

(* Only Admit adds a slot or sets an expiry.                               *)
LEMMA SlotsShrink ==
  ASSUME Next, \A r \in Requests : ~Admit(r)
  PROVE  slots' \subseteq slots /\ expires' = expires
<1> USE DEF dbVars, localVars
<1>1. ASSUME NEW r \in Requests, Acquire(r)
      PROVE  slots' \subseteq slots /\ expires' = expires
  BY <1>1 DEF Acquire, BeginTry, DeleteExpired, DeleteLocked, Retry, ReadUsed,
              ReadMine, Refuse, LiveAt, InsertFails, BusyUsed, BusyError
<1>2. ASSUME NEW r \in Requests, RunCode(r)
      PROVE  slots' \subseteq slots /\ expires' = expires
  BY <1>2 DEF RunCode, StartContainer, DriverUnavailable, RunEnds, ReplyLost,
              Release, ReleaseLocked
<1>3. ASSUME NEW r \in Requests, Arrive(r) \/ Crash(r) \/ OrphanEnds(r)
      PROVE  slots' \subseteq slots /\ expires' = expires
  BY <1>3 DEF Arrive, Crash, OrphanEnds
<1>4. ASSUME \/ AppWrites \/ AppCommits \/ Tick \/ Quiet
             \/ \E u \in Users : Purge(u)
      PROVE  slots' \subseteq slots /\ expires' = expires
  BY <1>4 DEF AppWrites, AppCommits, Tick, Quiet, Purge, vars
<1>5. QED
  BY <1>1, <1>2, <1>3, <1>4 DEF Next, Step

LEMMA CheckInit == Init => CheckInv
<1> SUFFICES ASSUME Init PROVE CheckInv
  OBVIOUS
<1>1. TypeOK
  BY TypeInit
<1>2. LockHeld /\ StampsPast /\ HolderAdmitted /\ ReadsBound /\ NoRivals
  BY DEF Init, LockHeld, StampsPast, HolderAdmitted, ReadsBound, UsedRead,
         MineRead, NoRivals
<1>3. QED
  BY <1>1, <1>2 DEF CheckInv

(* A step of r leaves the locals of the other requests alone.              *)
Others(r) ==
  \A q \in Requests \ {r} : /\ pc'[q] = pc[q] /\ stamp'[q] = stamp[q]
                            /\ seenUsed'[q] = seenUsed[q]
                            /\ seenMine'[q] = seenMine[q]

LEMMA StepOfOne ==
  ASSUME TypeOK, NEW r \in Requests,
         Arrive(r) \/ Step(r) \/ Crash(r) \/ OrphanEnds(r)
  PROVE  /\ now' = now
         /\ Others(r)
         /\ \A q \in Requests : rivals[q] \subseteq rivals'[q] \/ q = r
<1> USE DEF TypeOK, Others, dbVars, localVars, Goto, Stamp, ForgetReads,
            ForgetClock, ForgetRivals
<1>1. CASE Acquire(r)
  <2>1. CASE Admit(r)
    BY <2>1 DEF Admit
  <2>2. CASE \/ Refuse(r) \/ ReadUsed(r) \/ ReadMine(r) \/ BusyUsed(r)
           \/ BusyError(r) \/ InsertFails(r)
    BY <2>2 DEF Refuse, ReadUsed, ReadMine, InsertFails, BusyUsed, BusyError
  <2>3. QED
    BY <1>1, <2>1, <2>2 DEF Acquire, BeginTry, DeleteExpired, DeleteLocked, Retry
<1>2. CASE RunCode(r)
  BY <1>2 DEF RunCode, StartContainer, DriverUnavailable, RunEnds, ReplyLost,
              Release, ReleaseLocked
<1>3. CASE Arrive(r) \/ Crash(r) \/ OrphanEnds(r)
  BY <1>3 DEF Arrive, Crash, OrphanEnds
<1>4. QED
  BY <1>1, <1>2, <1>3 DEF Step

(* What a request has seen can only lose slots, unless it reads again.     *)
LEMMA SeenShrinks ==
  ASSUME CheckInv, Next, NEW q \in Requests,
         pc[q] \in {"readMine", "decide"}, pc'[q] \in {"readMine", "decide"},
         stamp'[q] = stamp[q],
         rivals[q] \subseteq rivals'[q]
  PROVE  Seen(q)' \subseteq Seen(q)
<1>1. CASE \A r \in Requests : ~Admit(r)
  BY <1>1, SlotsShrink DEF Seen, LiveAt
<1>2. ASSUME NEW r \in Requests, Admit(r), r # q
      PROVE  Seen(q)' \subseteq Seen(q)
  <2>1. r \in rivals'[q]
    BY <1>2 DEF Admit, CheckInv, TypeOK
  <2>2. \A s \in Requests \ {r} : expires'[s] = expires[s]
    BY <1>2 DEF Admit, CheckInv, TypeOK
  <2>3. slots' \subseteq slots \cup {r} /\ slots \subseteq Requests
    BY <1>2 DEF Admit, LiveAt, CheckInv, TypeOK
  <2>4. QED
    BY <2>1, <2>2, <2>3 DEF Seen, LiveAt
<1>3. CASE Admit(q)
  BY <1>3 DEF Admit, CheckInv, TypeOK, Goto
<1>4. QED
  BY <1>1, <1>2, <1>3

(* The bound is kept by whoever does not read.                             *)
LEMMA ReadsKept ==
  ASSUME CheckInv, TypeOK', Next, NEW q \in Requests,
         UNCHANGED <<pc[q], stamp[q], seenUsed[q], seenMine[q]>>,
         rivals[q] \subseteq rivals'[q]
  PROVE  UsedRead(q)' /\ MineRead(q)'
<1>1. CASE pc[q] \notin {"readMine", "decide"}
  BY <1>1 DEF UsedRead, MineRead
<1>2. CASE pc[q] \in {"readMine", "decide"}
  <2>1. Seen(q)' \subseteq Seen(q) /\ Seen(q) \in SUBSET Requests
    BY <1>2, SeenShrinks, LiveType DEF Seen, CheckInv
  <2>2. /\ MemoryOf(Seen(q)') <= MemoryOf(Seen(q))
        /\ MemoryOf(Seen(q)') \in Nat /\ MemoryOf(Seen(q)) \in Nat
    BY <2>1, MemoryMono, UnitsFinite
  <2>3. /\ Cardinality(OfSameUser(q, Seen(q)')) <= Cardinality(OfSameUser(q, Seen(q)))
        /\ Cardinality(OfSameUser(q, Seen(q)')) \in Nat
        /\ Cardinality(OfSameUser(q, Seen(q))) \in Nat
    BY <2>1, UserMono
  <2>4. MemoryOf(Seen(q))' = MemoryOf(Seen(q)')
    BY DEF MemoryOf, Units
  <2>5. Cardinality(OfSameUser(q, Seen(q)))' = Cardinality(OfSameUser(q, Seen(q)'))
    BY DEF OfSameUser
  <2>6. seenUsed[q] \in Nat /\ seenMine[q] \in Nat
    BY DEF CheckInv, TypeOK
  <2>7. UsedRead(q) /\ MineRead(q)
    BY DEF CheckInv, ReadsBound
  <2>8. QED
    BY <2>2, <2>3, <2>4, <2>5, <2>6, <2>7 DEF UsedRead, MineRead
<1>3. QED
  BY <1>1, <1>2

LEMMA LockStep ==
  ASSUME CheckInv, NEW r \in Requests,
         Arrive(r) \/ Step(r) \/ Crash(r) \/ OrphanEnds(r)
  PROVE  LockHeld'
<1> SUFFICES ASSUME Serialised, NEW q \in Requests,
                    pc'[q] \in {"readUsed", "readMine", "decide"}
             PROVE  writer' = q
  BY DEF LockHeld
<1>1. TypeOK /\ LockHeld
  BY DEF CheckInv
<1> USE ConstantsAssumption DEF TypeOK, LockHeld, dbVars, localVars, Goto, MayWrite, TakeLock,
            FreeLock
<1>2. CASE q # r
  <2>1. pc[q] = pc'[q]
    BY <1>1, <1>2, StepOfOne DEF Others
  <2>2. writer = q
    BY <1>1, <2>1
  <2>3. CASE Acquire(r)
    BY <1>1, <1>2, <2>2, <2>3 DEF Acquire, BeginTry, DeleteExpired, DeleteLocked, ReadUsed,
       ReadMine, Refuse, Retry, Admit, InsertFails, BusyUsed, BusyError
  <2>4. CASE RunCode(r)
    BY <1>1, <1>2, <2>2, <2>4 DEF RunCode, StartContainer, DriverUnavailable, RunEnds,
       ReplyLost, Release, ReleaseLocked
  <2>5. CASE Arrive(r) \/ Crash(r) \/ OrphanEnds(r)
    BY <1>1, <1>2, <2>2, <2>5 DEF Arrive, Crash, OrphanEnds
  <2>6. QED
    BY <2>3, <2>4, <2>5 DEF Step
<1>3. CASE q = r
  <2>1. CASE DeleteExpired(r) \/ ReadUsed(r) \/ ReadMine(r)
    BY <1>1, <1>3, <2>1 DEF DeleteExpired, ReadUsed, ReadMine
  <2>2. CASE Refuse(r) \/ Admit(r) \/ BeginTry(r) \/ DeleteLocked(r) \/ Retry(r)
    BY <1>1, <1>3, <2>2 DEF Refuse, Admit, BeginTry, DeleteLocked, Retry
  <2>3. CASE InsertFails(r) \/ BusyUsed(r) \/ BusyError(r)
    BY <1>1, <1>3, <2>3 DEF InsertFails, BusyUsed, BusyError
  <2>4. CASE RunCode(r)
    BY <1>1, <1>3, <2>4 DEF RunCode, StartContainer, DriverUnavailable, RunEnds,
       ReplyLost, Release, ReleaseLocked
  <2>5. CASE Arrive(r) \/ Crash(r)
    BY <1>1, <1>3, <2>5 DEF Arrive, Crash
  <2>6. CASE OrphanEnds(r)
    BY <1>1, <1>3, <2>6 DEF OrphanEnds
  <2>7. QED
    BY <2>1, <2>2, <2>3, <2>4, <2>5, <2>6 DEF Step, Acquire
<1>4. QED
  BY <1>2, <1>3

LEMMA StampStep ==
  ASSUME CheckInv, NEW r \in Requests,
         Arrive(r) \/ Step(r) \/ Crash(r) \/ OrphanEnds(r)
  PROVE  StampsPast'
<1>1. TypeOK /\ StampsPast
  BY DEF CheckInv
<1>2. stamp' \in {stamp, [stamp EXCEPT ![r] = now], [stamp EXCEPT ![r] = 0]}
  <2> USE DEF localVars, Stamp, ForgetClock
  <2>1. CASE Acquire(r)
    BY <2>1 DEF Acquire, BeginTry, DeleteExpired, DeleteLocked, ReadUsed,
       ReadMine, Refuse, Retry, Admit, InsertFails, BusyUsed, BusyError
  <2>2. CASE RunCode(r)
    BY <2>2 DEF RunCode, StartContainer, DriverUnavailable, RunEnds, ReplyLost,
       Release, ReleaseLocked
  <2>3. CASE Arrive(r) \/ Crash(r) \/ OrphanEnds(r)
    BY <2>3 DEF Arrive, Crash, OrphanEnds
  <2>4. QED
    BY <2>1, <2>2, <2>3 DEF Step
<1>3. now' = now
  BY <1>1, StepOfOne
<1>4. QED
  BY <1>1, <1>2, <1>3 DEF StampsPast, TypeOK

LEMMA HolderStep ==
  ASSUME CheckInv, NEW r \in Requests,
         Arrive(r) \/ Step(r) \/ Crash(r) \/ OrphanEnds(r)
  PROVE  HolderAdmitted'
<1>1. TypeOK /\ HolderAdmitted
  BY DEF CheckInv
<1> USE DEF TypeOK, HolderAdmitted, dbVars, localVars, Goto
<1>2. CASE Acquire(r)
  <2>1. CASE Admit(r) \/ Refuse(r)
    BY <1>1, <2>1 DEF Admit, Refuse, LiveAt
  <2>2. QED
    BY <1>1, <1>2, <2>1 DEF Acquire, BeginTry, DeleteExpired, DeleteLocked, ReadUsed,
       ReadMine, Retry, InsertFails, BusyUsed, BusyError
<1>3. CASE RunCode(r)
  BY <1>1, <1>3 DEF RunCode, StartContainer, DriverUnavailable, RunEnds, ReplyLost,
     Release, ReleaseLocked
<1>4. CASE Arrive(r) \/ Crash(r) \/ OrphanEnds(r)
  BY <1>1, <1>4 DEF Arrive, Crash, OrphanEnds
<1>5. QED
  BY <1>2, <1>3, <1>4 DEF Step

LEMMA RivalStep ==
  ASSUME CheckInv, NEW r \in Requests,
         Arrive(r) \/ Step(r) \/ Crash(r) \/ OrphanEnds(r)
  PROVE  NoRivals'
<1> SUFFICES ASSUME Serialised, NEW q \in Requests PROVE rivals'[q] = {}
  BY DEF NoRivals
<1>1. TypeOK /\ LockHeld /\ rivals[q] = {}
  BY DEF CheckInv, NoRivals
<1> USE DEF TypeOK, dbVars, localVars, ForgetRivals
<1>2. CASE Acquire(r)
  <2>1. CASE Admit(r)
    <3>1. q # r => pc[q] \notin {"readMine", "decide"}
      BY <1>1, <2>1 DEF Admit, LockHeld
    <3>2. QED
      BY <1>1, <2>1, <3>1 DEF Admit
  <2>2. QED
    BY <1>1, <1>2, <2>1 DEF Acquire, BeginTry, DeleteExpired, DeleteLocked, ReadUsed,
       ReadMine, Refuse, Retry, InsertFails, BusyUsed, BusyError
<1>3. CASE RunCode(r)
  BY <1>1, <1>3 DEF RunCode, StartContainer, DriverUnavailable, RunEnds, ReplyLost,
     Release, ReleaseLocked
<1>4. CASE Arrive(r) \/ Crash(r) \/ OrphanEnds(r)
  BY <1>1, <1>4 DEF Arrive, Crash, OrphanEnds
<1>5. QED
  BY <1>2, <1>3, <1>4 DEF Step

LEMMA ReadsStep ==
  ASSUME CheckInv, TypeOK', Next, NEW r \in Requests,
         Arrive(r) \/ Step(r) \/ Crash(r) \/ OrphanEnds(r)
  PROVE  ReadsBound'
<1>1. TypeOK /\ ReadsBound
  BY DEF CheckInv
<1>2. ASSUME NEW q \in Requests \ {r}
      PROVE  UsedRead(q)' /\ MineRead(q)'
  BY <1>1, <1>2, StepOfOne, ReadsKept DEF Others
<1>3. UsedRead(r)' /\ MineRead(r)'
  <2> USE DEF TypeOK, dbVars, localVars, Goto
  <2>1. CASE ReadUsed(r)
    <3>1. /\ LiveAt(stamp[r])' = LiveAt(stamp[r]) /\ rivals'[r] = {}
          /\ seenUsed'[r] = MemoryOf(LiveAt(stamp[r]))
          /\ pc'[r] = "readMine"
      BY <1>1, <2>1 DEF ReadUsed, LiveAt
    <3>2. Seen(r)' = LiveAt(stamp[r])
      BY <3>1 DEF Seen
    <3>3. MemoryOf(Seen(r))' = MemoryOf(LiveAt(stamp[r]))
      BY <3>2 DEF MemoryOf, Units
    <3>4. MemoryOf(LiveAt(stamp[r])) \in Nat
      BY <1>1, LiveType, UnitsFinite
    <3>5. QED
      BY <3>1, <3>3, <3>4 DEF UsedRead, MineRead
  <2>2. CASE ReadMine(r)
    <3>1. /\ Seen(r)' = Seen(r) /\ pc[r] = "readMine" /\ pc'[r] = "decide"
          /\ seenUsed'[r] = seenUsed[r]
          /\ seenMine'[r] = Cardinality(OfSameUser(r, LiveAt(stamp[r])))
      BY <1>1, <2>2 DEF ReadMine, Seen, LiveAt
    <3>2. UsedRead(r)'
      BY <1>1, <3>1 DEF UsedRead, MemoryOf, Units, ReadsBound
    <3>3. /\ Cardinality(OfSameUser(r, Seen(r)))
               <= Cardinality(OfSameUser(r, LiveAt(stamp[r])))
          /\ Cardinality(OfSameUser(r, Seen(r))) \in Nat
      BY <1>1, LiveType, UserMono DEF Seen
    <3>4. Cardinality(OfSameUser(r, Seen(r)))' = Cardinality(OfSameUser(r, Seen(r)))
      BY <3>1 DEF OfSameUser
    <3>5. MineRead(r)'
      BY <3>1, <3>3, <3>4 DEF MineRead
    <3>6. QED
      BY <3>2, <3>5
  <2>3. CASE OrphanEnds(r)
    BY <1>1, <2>3, ReadsKept DEF OrphanEnds
  <2>4. CASE Acquire(r) /\ ~ReadUsed(r) /\ ~ReadMine(r)
    <3>1. pc'[r] \notin {"readMine", "decide"}
      BY <1>1, <2>4 DEF Acquire, BeginTry, DeleteExpired, DeleteLocked, Refuse, Retry,
         Admit, InsertFails, BusyUsed, BusyError
    <3>2. QED
      BY <3>1 DEF UsedRead, MineRead
  <2>5. CASE RunCode(r) \/ Arrive(r) \/ Crash(r)
    <3>1. pc'[r] \notin {"readMine", "decide"}
      BY <1>1, <2>5 DEF RunCode, StartContainer, DriverUnavailable, RunEnds, ReplyLost,
         Release, ReleaseLocked, Arrive, Crash
    <3>2. QED
      BY <3>1 DEF UsedRead, MineRead
  <2>6. QED
    BY <2>1, <2>2, <2>3, <2>4, <2>5 DEF Step
<1>4. QED
  BY <1>2, <1>3 DEF ReadsBound

(* The steps of nobody in particular: other writers, time, quiet.          *)
LEMMA AmbientStep ==
  ASSUME CheckInv, TypeOK',
         AppWrites \/ AppCommits \/ Tick \/ UNCHANGED vars
  PROVE  CheckInv'
<1> USE DEF vars, dbVars, localVars
<1>1. TypeOK /\ LockHeld /\ StampsPast /\ HolderAdmitted /\ ReadsBound /\ NoRivals
  BY DEF CheckInv
<1>2. LockHeld'
  BY <1>1, ConstantsAssumption DEF AppWrites, AppCommits, Tick, LockHeld
<1>3. StampsPast'
  BY <1>1 DEF AppWrites, AppCommits, Tick, StampsPast, TypeOK
<1>4. HolderAdmitted'
  BY <1>1 DEF AppWrites, AppCommits, Tick, HolderAdmitted
<1>5. ReadsBound'
  BY <1>1 DEF AppWrites, AppCommits, Tick, ReadsBound, UsedRead, MineRead, Seen, LiveAt,
     MemoryOf, Units, OfSameUser
<1>6. NoRivals'
  BY <1>1 DEF AppWrites, AppCommits, Tick, NoRivals
<1>7. QED
  BY <1>2, <1>3, <1>4, <1>5, <1>6 DEF CheckInv

(* The deletion of an account only takes slots.                            *)
LEMMA PurgeStep ==
  ASSUME CheckInv, TypeOK', NEW u \in Users, Purge(u)
  PROVE  CheckInv'
<1> USE DEF localVars
<1>1. TypeOK /\ LockHeld /\ StampsPast /\ HolderAdmitted /\ ReadsBound /\ NoRivals
  BY DEF CheckInv
<1>2. LockHeld'
  BY <1>1, ConstantsAssumption DEF Purge, LockHeld, TypeOK
<1>3. StampsPast'
  BY <1>1 DEF Purge, StampsPast
<1>4. HolderAdmitted'
  BY <1>1 DEF Purge, HolderAdmitted
<1>5. ReadsBound'
  <2>1. Next
    BY DEF Next
  <2>2. ASSUME NEW q \in Requests PROVE UsedRead(q)' /\ MineRead(q)'
    BY <2>1, ReadsKept DEF Purge
  <2>3. QED
    BY <2>2 DEF ReadsBound
<1>6. NoRivals'
  BY <1>1 DEF Purge, NoRivals
<1>7. QED
  BY <1>2, <1>3, <1>4, <1>5, <1>6 DEF CheckInv

LEMMA CheckStep == CheckInv /\ [Next]_vars => CheckInv'
<1> SUFFICES ASSUME CheckInv, [Next]_vars PROVE CheckInv'
  OBVIOUS
<1>1. TypeOK'
  BY TypeStep DEF CheckInv
<1>2. ASSUME NEW r \in Requests,
             Arrive(r) \/ Step(r) \/ Crash(r) \/ OrphanEnds(r)
      PROVE  CheckInv'
  <2>1. Next
    BY <1>2 DEF Next
  <2>2. QED
    BY <1>1, <1>2, <2>1, LockStep, StampStep, HolderStep, RivalStep, ReadsStep
    DEF CheckInv
<1>3. CASE AppWrites \/ AppCommits \/ Tick \/ UNCHANGED vars
  BY <1>1, <1>3, AmbientStep
<1>4. CASE \E u \in Users : Purge(u)
  BY <1>1, <1>4, PurgeStep
<1>5. QED
  BY <1>2, <1>3, <1>4 DEF Next, Quiet

(* The inductive invariant holds of every behaviour.                       *)
THEOREM ChecksAreSound == Spec => []CheckInv
  BY CheckInit, CheckStep, PTL DEF Spec

----------------------------------------------------------------------------
(* What an admission leaves                                                *)

(* The slots live after an admission are those the request has seen, its   *)
(* rivals and itself.                                                      *)
LEMMA LiveAfterAdmit ==
  ASSUME CheckInv, NEW r \in Requests, Admit(r)
  PROVE  /\ Live' \subseteq Live \cup {r}
         /\ Live \subseteq Live'
         /\ Live' \ rivals[r] \subseteq Seen(r) \cup {r}
         /\ r \notin Live
         /\ slots' \subseteq slots \cup {r}
<1>1. TypeOK /\ StampsPast /\ HolderAdmitted
  BY DEF CheckInv
<1>2. /\ slots' = LiveAt(stamp[r]) \cup {r} /\ now' = now
      /\ \A s \in Requests \ {r} : expires'[s] = expires[s]
      /\ pc[r] = "decide"
  BY <1>1 DEF Admit, TypeOK
<1>3. r \notin slots
  BY <1>1, <1>2 DEF HolderAdmitted
<1>4. /\ stamp[r] <= now /\ stamp[r] \in Nat /\ now \in Nat
      /\ slots \subseteq Requests /\ expires \in [Requests -> Nat]
  BY <1>1 DEF StampsPast, TypeOK
<1>5. Live \subseteq LiveAt(stamp[r])
  BY <1>4 DEF Live, LiveAt
<1>6. Live' \subseteq Live \cup {r}
  BY <1>2, <1>4 DEF Live, LiveAt
<1>7. Live \subseteq Live'
  BY <1>2, <1>3, <1>4, <1>5 DEF Live, LiveAt
<1>8. QED
  BY <1>2, <1>3, <1>5, <1>6, <1>7 DEF Seen, LiveAt, Live

(* What r may add to what it has seen respects both limits.                *)
LEMMA RoomSuffices ==
  ASSUME CheckInv, NEW r \in Requests, Admit(r),
         NEW S \in SUBSET Requests, S \subseteq Seen(r) \cup {r}
  PROVE  Fits(r, S)
<1>1. TypeOK /\ ReadsBound /\ pc[r] = "decide" /\ ~NoRoom(r)
  BY DEF CheckInv, Admit
<1>2. Seen(r) \in SUBSET Requests /\ Seen(r) \cup {r} \in SUBSET Requests
  BY <1>1, LiveType DEF Seen
<1>3. /\ MemoryOf(Seen(r)) <= seenUsed[r]
      /\ Cardinality(OfSameUser(r, Seen(r))) <= seenMine[r]
  BY <1>1 DEF ReadsBound, UsedRead, MineRead
<1>4. /\ seenUsed[r] \in Nat /\ seenMine[r] \in Nat /\ Memory[r] \in Nat
      /\ Budget \in Nat /\ MaxPerUser \in Nat
  BY <1>1, LimitsAssumption DEF TypeOK
<1>5. seenMine[r] < MaxPerUser /\ seenUsed[r] + Memory[r] <= Budget
  BY <1>1, <1>4 DEF NoRoom
<1>6. MemoryOf(S) <= Budget
  <2>1. MemoryOf(S) <= MemoryOf(Seen(r) \cup {r})
    BY <1>2, MemoryMono
  <2>2. MemoryOf(Seen(r) \cup {r}) <= MemoryOf(Seen(r)) + Memory[r]
    BY <1>2, MemoryAdd
  <2>3. /\ MemoryOf(S) \in Nat /\ MemoryOf(Seen(r)) \in Nat
        /\ MemoryOf(Seen(r) \cup {r}) \in Nat
    BY <1>2, UnitsFinite
  <2>4. QED
    BY <2>1, <2>2, <2>3, <1>3, <1>4, <1>5
<1>7. Cardinality(OfSameUser(r, S)) <= MaxPerUser
  <2>1. /\ Cardinality(OfSameUser(r, S)) <= Cardinality(OfSameUser(r, Seen(r) \cup {r}))
        /\ Cardinality(OfSameUser(r, S)) \in Nat
        /\ Cardinality(OfSameUser(r, Seen(r) \cup {r})) \in Nat
    BY <1>2, UserMono
  <2>2. Cardinality(OfSameUser(r, Seen(r) \cup {r}))
          <= Cardinality(OfSameUser(r, Seen(r))) + 1
    BY <1>2, UserAdd
  <2>3. Cardinality(OfSameUser(r, Seen(r))) \in Nat
    BY <1>2, CountType
  <2>4. QED
    BY <2>1, <2>2, <2>3, <1>3, <1>4, <1>5
<1>8. QED
  BY <1>6, <1>7 DEF Fits

LEMMA LiveTypeNext == ASSUME TypeOK' PROVE Live' \in SUBSET Requests
  BY DEF TypeOK, Live, LiveAt

(* On any database: what is live after an admission fits both limits but   *)
(* for the slots admitted between the check and the insert.                *)
THEOREM OvershootBounded == Spec => OvershootOnlyByRivals
<1>1. CheckInv /\ [Next]_vars
        => [\A r \in slots' \ slots : Fits(r, Live' \ rivals[r])]_vars
  <2> SUFFICES ASSUME CheckInv, Next, NEW r \in slots' \ slots
               PROVE  Fits(r, Live' \ rivals[r])
    OBVIOUS
  <2>1. PICK q \in Requests : Admit(q)
    BY SlotsShrink
  <2>2. TypeOK'
    BY TypeStep DEF CheckInv
  <2>3. r = q /\ r \in Requests
    BY <2>1, LiveAfterAdmit
  <2>4. QED
    BY <2>1, <2>2, <2>3, LiveAfterAdmit, LiveTypeNext, RoomSuffices
<1>2. QED
  BY <1>1, ChecksAreSound, PTL DEF Spec, OvershootOnlyByRivals

----------------------------------------------------------------------------
(* One writer at a time: the limits                                        *)

LEMMA LiveShrinks ==
  ASSUME CheckInv, Next, \A r \in Requests : ~Admit(r)
  PROVE  Live' \subseteq Live
<1>1. TypeOK
  BY DEF CheckInv
<1>2. now' \in {now, now + 1}
  <2>1. CASE \E r \in Requests : Arrive(r) \/ Step(r) \/ Crash(r) \/ OrphanEnds(r)
    BY <1>1, <2>1, StepOfOne
  <2>2. CASE \/ AppWrites \/ AppCommits \/ Tick \/ Quiet
             \/ \E u \in Users : Purge(u)
    BY <2>2 DEF AppWrites, AppCommits, Tick, Quiet, Purge, vars
  <2>3. QED
    BY <2>1, <2>2 DEF Next
<1>3. QED
  BY <1>1, <1>2, SlotsShrink DEF TypeOK, Live, LiveAt

LEMMA SerialAdmission ==
  ASSUME CheckInv, Serialised, NEW r \in Requests, Admit(r), TypeOK'
  PROVE  Fits(r, Live')
<1>1. rivals[r] = {}
  BY DEF CheckInv, NoRivals
<1>2. Live' \subseteq Seen(r) \cup {r}
  BY <1>1, LiveAfterAdmit
<1>3. QED
  BY <1>2, LiveTypeNext, RoomSuffices

LEMMA LimitsStep ==
  ASSUME CheckInv, TypeOK', LimitsHonoured, [Next]_vars
  PROVE  LimitsHonoured'
<1> SUFFICES ASSUME Serialised, NEW q \in Requests PROVE Fits(q, Live')
  BY DEF LimitsHonoured, Fits, MemoryOf, Units, OfSameUser
<1>1. TypeOK /\ Live \in SUBSET Requests /\ Live' \in SUBSET Requests
  BY LiveType, LiveTypeNext DEF CheckInv
<1>2. Budget \in Nat /\ MaxPerUser \in Nat
  BY LimitsAssumption
<1>3. Fits(q, Live)
  BY DEF LimitsHonoured
<1>4. CASE Live' \subseteq Live
  <2>1. /\ MemoryOf(Live') <= MemoryOf(Live)
        /\ MemoryOf(Live') \in Nat /\ MemoryOf(Live) \in Nat
    BY <1>1, <1>4, MemoryMono, UnitsFinite
  <2>2. /\ Cardinality(OfSameUser(q, Live')) <= Cardinality(OfSameUser(q, Live))
        /\ Cardinality(OfSameUser(q, Live')) \in Nat
        /\ Cardinality(OfSameUser(q, Live)) \in Nat
    BY <1>1, <1>4, UserMono
  <2>3. QED
    BY <1>2, <1>3, <2>1, <2>2 DEF Fits
<1>5. CASE \E r \in Requests : Admit(r)
  <2>1. PICK r \in Requests : Admit(r)
    BY <1>5
  <2>2. Fits(r, Live')
    BY <2>1, SerialAdmission
  <2>3. CASE Owner[q] = Owner[r]
    BY <2>2, <2>3 DEF Fits, OfSameUser
  <2>4. CASE Owner[q] # Owner[r]
    <3>1. OfSameUser(q, Live') = OfSameUser(q, Live)
      BY <2>4, <2>1, LiveAfterAdmit DEF OfSameUser
    <3>2. QED
      BY <1>3, <2>2, <3>1 DEF Fits
  <2>5. QED
    BY <2>3, <2>4
<1>6. CASE UNCHANGED vars
  BY <1>6, <1>4 DEF vars, Live, LiveAt
<1>7. QED
  BY <1>4, <1>5, <1>6, LiveShrinks

LEMMA LimitsInit == Init => LimitsHonoured
<1> SUFFICES ASSUME Init, NEW r \in Requests PROVE Fits(r, Live)
  BY DEF LimitsHonoured
<1>1. Live = {}
  BY DEF Init, Live, LiveAt
<1>2. MemoryOf(Live) = 0
  BY <1>1, MemoryNone
<1>3. OfSameUser(r, Live) = {}
  BY <1>1 DEF OfSameUser
<1>4. QED
  BY <1>2, <1>3, LimitsAssumption, FS_EmptySet DEF Fits

(* With one writer at a time neither limit is ever exceeded.               *)
THEOREM LimitsAreHonoured == Spec => []LimitsHonoured
<1>1. CheckInv /\ LimitsHonoured /\ [Next]_vars => LimitsHonoured'
  BY CheckStep, LimitsStep DEF CheckInv
<1>2. QED
  BY <1>1, LimitsInit, ChecksAreSound, PTL DEF Spec

(* ... and the live slots implement SlotPool.                              *)
THEOREM ImplementsSlotPool == ASSUME Serialised PROVE Spec => IsSlotPool
<1>1. Init => Pool!Init
  BY DEF Init, Pool!Init, Live, LiveAt
<1>2. CheckInv /\ [Next]_vars => [Pool!Next]_Live
  <2> SUFFICES ASSUME CheckInv, [Next]_vars PROVE [Pool!Next]_Live
    OBVIOUS
  <2>1. TypeOK'
    BY TypeStep DEF CheckInv
  <2>2. ASSUME NEW r \in Requests, Admit(r)
        PROVE  Pool!Enter(r) \/ UNCHANGED Live
    <3>1. Fits(r, Live')
      BY <2>1, <2>2, SerialAdmission
    <3>2. CASE r \in Live'
      <4>1. Live' = Live \cup {r} /\ r \notin Live
        BY <2>2, <3>2, LiveAfterAdmit
      <4>2. Fits(r, Live \cup {r})
        BY <3>1, <4>1
      <4>3. Pool!Fits(r, Live \cup {r})
        BY <4>2 DEF Pool!Fits, Pool!MemoryOf, Pool!Units, Pool!OfSameUser,
           Pool!Cardinality, Fits, MemoryOf, Units, OfSameUser, Cardinality
      <4>4. QED
        BY <4>1, <4>3 DEF Pool!Enter
    <3>3. CASE r \notin Live'
      BY <2>2, <3>3, LiveAfterAdmit
    <3>4. QED
      BY <3>2, <3>3
  <2>3. CASE Next /\ \A r \in Requests : ~Admit(r)
    <3>1. Live' = Live \ (Live \ Live') /\ Live \ Live' \in SUBSET Live
      BY <2>3, LiveShrinks
    <3>2. CASE Live \ Live' # {}
      BY <3>1, <3>2 DEF Pool!Next, Pool!Leave
    <3>3. CASE Live \ Live' = {}
      BY <3>1, <3>3
    <3>4. QED
      BY <3>2, <3>3
  <2>4. CASE UNCHANGED vars
    BY <2>4 DEF vars, Live, LiveAt
  <2>5. QED
    BY <2>2, <2>3, <2>4 DEF Pool!Next
<1>3. QED
  BY <1>1, <1>2, ChecksAreSound, PTL DEF Spec, IsSlotPool, Pool!Spec

----------------------------------------------------------------------------
(* Whose slot goes                                                         *)

(* A row goes when its own request releases it, when it has expired, or    *)
(* with its account.                                                       *)
THEOREM SlotsAreKept == Spec => NoSlotIsTaken
<1> DEFINE Kept == \A r \in slots \ slots' : \/ pc[r] = "release"
                                             \/ expires[r] <= now
                                             \/ Owner[r] \in purged' \ purged
<1>1. CheckInv /\ [Next]_vars => [Kept]_vars
  <2> SUFFICES ASSUME CheckInv, Next, NEW s \in slots \ slots'
               PROVE  \/ pc[s] = "release"
                      \/ expires[s] <= now
                      \/ Owner[s] \in purged' \ purged
    OBVIOUS
  <2>1. TypeOK /\ StampsPast /\ s \in Requests
    BY DEF CheckInv, TypeOK
  <2> USE DEF dbVars, localVars
  <2>2. ASSUME NEW r \in Requests, Refuse(r) \/ Admit(r)
        PROVE  expires[s] <= now
    <3>1. ~(expires[s] > stamp[r])
      BY <2>2 DEF Refuse, Admit, LiveAt
    <3>2. stamp[r] <= now /\ stamp[r] \in Nat /\ now \in Nat /\ expires[s] \in Nat
      BY <2>1 DEF StampsPast, TypeOK
    <3>3. QED
      BY <3>1, <3>2
  <2>3. ASSUME NEW r \in Requests, Release(r)
        PROVE  pc[s] = "release"
    BY <2>3 DEF Release
  <2>4. ASSUME NEW r \in Requests,
               Acquire(r) /\ ~Refuse(r) /\ ~Admit(r)
        PROVE  FALSE
    BY <2>4 DEF Acquire, BeginTry, DeleteExpired, DeleteLocked, Retry, ReadUsed,
       ReadMine, InsertFails, BusyUsed, BusyError
  <2>5. ASSUME NEW r \in Requests, RunCode(r) /\ ~Release(r)
        PROVE  FALSE
    BY <2>5 DEF RunCode, StartContainer, DriverUnavailable, RunEnds, ReplyLost,
       ReleaseLocked
  <2>6. ASSUME NEW r \in Requests, Arrive(r) \/ Crash(r) \/ OrphanEnds(r)
        PROVE  FALSE
    BY <2>6 DEF Arrive, Crash, OrphanEnds
  <2>7. ~(AppWrites \/ AppCommits \/ Tick \/ Quiet)
    BY DEF AppWrites, AppCommits, Tick, Quiet, vars
  <2>8. ASSUME NEW u \in Users, Purge(u)
        PROVE  Owner[s] \in purged' \ purged
    BY <2>8 DEF Purge
  <2>9. QED
    BY <2>2, <2>3, <2>4, <2>5, <2>6, <2>7, <2>8 DEF Next, Step
<1>2. NoSlotIsTaken <=> [][Kept]_vars
  BY DEF NoSlotIsTaken
<1> HIDE DEF Kept
<1>3. QED
  BY <1>1, <1>2, ChecksAreSound, PTL DEF Spec

----------------------------------------------------------------------------
(* Slots outlive runs                                                      *)

(* The row of a waiting run expires timeout and grace after the clock      *)
(* reading of its try, and it is there until then, or until its account    *)
(* goes.                                                                   *)
HoldsUntil(r) ==
  pc[r] \in Holding => /\ expires[r] = stamp[r] + Timeout + Grace
                       /\ ~Gone(r) /\ now < expires[r] => r \in slots
HoldInv == \A r \in Requests : HoldsUntil(r)

(* A step of r does not touch the slot of a run that is under way.         *)
LEMMA HoldOthers ==
  ASSUME CheckInv, HoldInv, NEW r \in Requests,
         Arrive(r) \/ Step(r) \/ Crash(r) \/ OrphanEnds(r), NEW q \in Requests \ {r}
  PROVE  HoldsUntil(q)'
<1>1. TypeOK /\ StampsPast /\ HoldsUntil(q)
  BY DEF CheckInv, HoldInv
<1>2. /\ now' = now /\ pc'[q] = pc[q] /\ stamp'[q] = stamp[q]
  BY <1>1, StepOfOne DEF Others
<1>3. expires'[q] = expires[q] /\ purged' = purged
  <2>1. CASE Admit(r)
    BY <1>1, <2>1 DEF Admit, TypeOK
  <2>2. CASE ~Admit(r)
    BY <2>2 DEF Arrive, Crash, OrphanEnds, Step, Acquire, RunCode, BeginTry,
       DeleteExpired, DeleteLocked, ReadUsed, ReadMine, Refuse, Retry, InsertFails,
       BusyUsed, BusyError, StartContainer, DriverUnavailable, RunEnds, ReplyLost,
       Release, ReleaseLocked, dbVars
  <2>3. QED
    BY <2>1, <2>2
<1>4. ASSUME q \in slots, now < expires[q] PROVE q \in slots'
  <2>1. expires[q] > stamp[r]
    BY <1>1, <1>4 DEF StampsPast, TypeOK
  <2>2. CASE Admit(r) \/ Refuse(r)
    BY <1>4, <2>1, <2>2 DEF Admit, Refuse, LiveAt
  <2>3. CASE Release(r)
    BY <1>4, <2>3 DEF Release
  <2>4. CASE ~Admit(r) /\ ~Refuse(r) /\ ~Release(r)
    BY <1>4, <2>4 DEF Arrive, Crash, OrphanEnds, Step, Acquire, RunCode, BeginTry,
       DeleteExpired, DeleteLocked, ReadUsed, ReadMine, Retry, InsertFails, BusyUsed,
       BusyError, StartContainer, DriverUnavailable, RunEnds, ReplyLost,
       ReleaseLocked, dbVars
  <2>5. QED
    BY <2>2, <2>3, <2>4
<1>5. QED
  BY <1>1, <1>2, <1>3, <1>4 DEF HoldsUntil, Gone

LEMMA HoldSelf ==
  ASSUME CheckInv, HoldInv, NEW r \in Requests,
         Arrive(r) \/ Step(r) \/ Crash(r) \/ OrphanEnds(r)
  PROVE  HoldsUntil(r)'
<1>1. TypeOK /\ HoldsUntil(r)
  BY DEF CheckInv, HoldInv
<1> USE <1>1
<1> USE DEF TypeOK, HoldsUntil, Gone, dbVars, localVars, Goto, Stamp
<1>2. CASE Admit(r)
  BY <1>2 DEF Admit, Expiry
<1>3. CASE StartContainer(r) \/ OrphanEnds(r)
  BY <1>3 DEF StartContainer, OrphanEnds
<1>4. CASE Acquire(r) /\ ~Admit(r)
  <2>1. pc'[r] \notin Holding
    BY <1>4 DEF Acquire, BeginTry, DeleteExpired, ReadUsed, ReadMine, DeleteLocked,
       Refuse, Retry, InsertFails, BusyUsed, BusyError
  <2>2. QED
    BY <2>1
<1>5. CASE \/ DriverUnavailable(r) \/ RunEnds(r) \/ ReplyLost(r) \/ Release(r)
           \/ ReleaseLocked(r) \/ Arrive(r) \/ Crash(r)
  <2>1. pc'[r] \notin Holding
    BY <1>5 DEF DriverUnavailable, RunEnds, ReplyLost, Release, ReleaseLocked,
       Arrive, Crash
  <2>2. QED
    BY <2>1
<1>6. QED
  BY <1>2, <1>3, <1>4, <1>5 DEF Step, RunCode

LEMMA HoldStep == CheckInv /\ HoldInv /\ [Next]_vars => HoldInv'
<1> SUFFICES ASSUME CheckInv, HoldInv, [Next]_vars PROVE HoldInv'
  OBVIOUS
<1>1. ASSUME NEW r \in Requests,
             Arrive(r) \/ Step(r) \/ Crash(r) \/ OrphanEnds(r)
      PROVE  HoldInv'
  BY <1>1, HoldOthers, HoldSelf DEF HoldInv
<1>2. CASE Tick
  <2>1. now \in Nat /\ expires \in [Requests -> Nat]
    BY DEF CheckInv, TypeOK
  <2>2. QED
    BY <1>2, <2>1 DEF Tick, HoldInv, HoldsUntil, Gone, dbVars, localVars
<1>3. CASE \E u \in Users : Purge(u)
  BY <1>3 DEF Purge, HoldInv, HoldsUntil, Gone, localVars
<1>4. CASE AppWrites \/ AppCommits \/ UNCHANGED vars
  BY <1>4 DEF AppWrites, AppCommits, vars, HoldInv, HoldsUntil, Gone, dbVars, localVars
<1>5. QED
  BY <1>1, <1>2, <1>3, <1>4 DEF Next, Quiet

LEMMA HoldInit == Init => HoldInv
  BY DEF Init, HoldInv, HoldsUntil

(* As long as its slot covers a run, the slot is live.                     *)
THEOREM RunsAreCounted == Spec => []RunHoldsLiveSlot
<1>1. CheckInv /\ HoldInv => RunHoldsLiveSlot
  BY DEF CheckInv, HoldInv, HoldsUntil, RunHoldsLiveSlot, Covered, Live, LiveAt
<1>2. QED
  BY <1>1, HoldInit, HoldStep, ChecksAreSound, PTL DEF Spec

----------------------------------------------------------------------------
(* The machine                                                             *)

(* With one writer at a time, the containers of covered runs fit the       *)
(* machine.                                                                *)
THEOREM MachineIsSafe == Spec => []ContainersFitBudget
<1>1. CheckInv /\ RunHoldsLiveSlot /\ LimitsHonoured => ContainersFitBudget
  <2> DEFINE C == {r \in containers : Covered(r)}
  <2> SUFFICES ASSUME CheckInv, RunHoldsLiveSlot, LimitsHonoured, Serialised
               PROVE  MemoryOf(C) <= Budget
    BY DEF ContainersFitBudget
  <2>1. C \subseteq Live /\ Live \in SUBSET Requests
    BY LiveType DEF CheckInv, TypeOK, RunHoldsLiveSlot
  <2> HIDE DEF C
  <2>2. CASE C = {}
    <3>1. MemoryOf(C) = 0
      BY <2>2, MemoryNone
    <3>2. QED
      BY <3>1, LimitsAssumption
  <2>3. CASE C # {}
    <3>1. PICK r \in Requests : r \in C
      BY <2>1, <2>3
    <3>2. MemoryOf(Live) <= Budget
      BY <3>1 DEF LimitsHonoured, Fits
    <3>3. /\ MemoryOf(C) <= MemoryOf(Live)
          /\ MemoryOf(C) \in Nat /\ MemoryOf(Live) \in Nat
      BY <2>1, MemoryMono, UnitsFinite
    <3>4. QED
      BY <3>2, <3>3, LimitsAssumption
  <2>4. QED
    BY <2>2, <2>3
<1>2. QED
  BY <1>1, ChecksAreSound, RunsAreCounted, LimitsAreHonoured, PTL DEF Spec
=============================================================================
