------------------------ MODULE ServiceLifecycle_proofs ------------------------
(***************************************************************************)
(* Theorems about ServiceLifecycle, for any number of owners' calls,       *)
(* visitors and reapers.                                                   *)
(***************************************************************************)
EXTENDS ServiceLifecycle, TLAPS

(* An unused id is an id.                                                  *)
LEMMA NewIdIsId ==
  ASSUME NEW used, Ids \ used # {}
  PROVE  NewId(used) \in Ids
BY DEF NewId

(* A flush leaves a row of the table.                                      *)
LEMMA FlushTyped ==
  ASSUME row \in Rows, NEW old \in Rows, NEW new \in Rows
  PROVE  Flush(old, new) \in Rows
<1>1. DOMAIN row = {"id", "kind", "status", "cid", "addr", "fresh"}
  BY DEF Rows
<1>2. \A c \in DOMAIN row : Flush(old, new)[c] \in {new[c], row[c]}
  BY DEF Flush
<1>3. Flush(old, new) =
        [id |-> Flush(old, new).id, kind |-> Flush(old, new).kind,
         status |-> Flush(old, new).status, cid |-> Flush(old, new).cid,
         addr |-> Flush(old, new).addr, fresh |-> Flush(old, new).fresh]
  BY <1>1 DEF Flush
<1>4. /\ Flush(old, new).id \in Ids
      /\ Flush(old, new).kind \in {"static", "service"}
      /\ Flush(old, new).status \in {"live", "running", "idle", "stopped"}
      /\ Flush(old, new).cid \in Ids \cup {Null}
      /\ Flush(old, new).addr \in Ids \cup {Null, Name}
      /\ Flush(old, new).fresh \in BOOLEAN
  BY <1>1, <1>2 DEF Rows
<1> QED
  BY <1>3, <1>4 DEF Rows

(* What a flush does to a column.                                          *)
LEMMA FlushColumn ==
  ASSUME row \in Rows, NEW old \in Rows, NEW new \in Rows,
         NEW c \in {"id", "kind", "status", "cid", "addr", "fresh"},
         row[c] = old[c]
  PROVE  Flush(old, new)[c] = new[c]
BY DEF Flush, Rows

(* What a session leaves is a row, if what it loaded was one or nothing.   *)
LEMMA EditedTyped ==
  ASSUME IdsLeft, NEW old \in Rows \cup {None}
  PROVE  Edited(old) \in Rows
<1>1. NewId(UsedRowIds) \in Ids
  BY NewIdIsId DEF IdsLeft
<1> QED
  BY <1>1, ConstantsAssumption DEF Edited, Blank, Rows

LEMMA SaveTyped ==
  ASSUME row \in Rows \cup {None}, NEW old \in Rows \cup {None},
         NEW new \in Rows, Save(old, new)
  PROVE  row' \in Rows \cup {None}
BY FlushTyped DEF Save, StillThere

LEMMA PatchTyped ==
  ASSUME row \in Rows \cup {None}, NEW old, NEW new,
         StillThere(old) => new \in Rows \cup {None},
         Patch(old, new)
  PROVE  row' \in Rows \cup {None}
BY DEF Patch

LEMMA NewAddrTyped ==
  ASSUME IdsLeft
  PROVE  NewAddr \in Ids \cup {Name}
BY NewIdIsId DEF IdsLeft, NewAddr

----------------------------------------------------------------------------
(* Types, and what each place of a handler says about its locals.          *)
OwnerPlaces   == {"rest", "called", "removed", "cleared", "started"}
VisitorPlaces == {"rest", "idle", "woken", "lost", "running", "proxy"}
ReaperPlaces  == {"rest", "stop", "mark"}

TypeInv ==
  /\ TypeOK
  /\ \A o \in Owners : /\ pc[o] \in OwnerPlaces
                       /\ pc[o] \in {"cleared", "started"} => job[o] = "service"
                       /\ pc[o] = "started" => handle[o] # None
  /\ \A v \in Visitors : /\ pc[v] \in VisitorPlaces
                         /\ pc[v] = "woken" => handle[v] # None
  /\ \A w \in Reapers : pc[w] \in ReaperPlaces
  /\ failing => Faults

LEMMA TypeInit == Init => TypeInv
<1> SUFFICES ASSUME Init PROVE TypeInv
  OBVIOUS
<1>1. row \in Rows \cup {None} /\ box \in Boxes \cup {None}
  <2>1. CASE row = None /\ box = None
    BY <2>1
  <2>2. CASE ~(row = None /\ box = None)
    <3> DEFINE at(i) == IF Published THEN i ELSE Name
    <3>1. PICK i \in Ids :
            /\ box = [cid |-> i, up |-> TRUE, addr |-> at(i)]
            /\ row = [id |-> i, kind |-> "service", status |-> "running",
                      cid |-> i, addr |-> at(i), fresh |-> TRUE]
      BY <2>2 DEF Init
    <3>2. at(i) \in Ids \cup {Name}
      BY <3>1
    <3> HIDE DEF at
    <3> QED
      BY <3>1, <3>2 DEF Rows, Boxes
  <2> QED
    BY <2>1, <2>2
<1>2. /\ account = TRUE
      /\ pc = [h \in Handlers |-> "rest"]
      /\ job = [o \in Owners |-> "site"]
      /\ loaded = [h \in Handlers |-> None]
      /\ handle = [h \in Handlers |-> None]
      /\ failing = FALSE
      /\ events = 0
  BY DEF Init
<1>3. failing \in BOOLEAN /\ account \in BOOLEAN
  BY <1>2
<1>4. /\ pc \in [Handlers -> Places]
      /\ job \in [Owners -> Jobs]
      /\ loaded \in [Handlers -> Rows \cup {None}]
      /\ handle \in [Handlers -> Handles \cup {None}]
      /\ events \in 0..MaxEvents
  BY <1>2, ConstantsAssumption DEF Places, Jobs
<1>5. TypeOK
  BY <1>1, <1>3, <1>4 DEF TypeOK
<1>6. failing => Faults
  BY <1>2
<1>7. \A h \in Handlers : pc[h] = "rest"
  BY <1>2
<1>8. /\ \A o \in Owners : /\ pc[o] \in OwnerPlaces
                           /\ pc[o] \in {"cleared", "started"} => job[o] = "service"
                           /\ pc[o] = "started" => handle[o] # None
      /\ \A v \in Visitors : /\ pc[v] \in VisitorPlaces
                             /\ pc[v] = "woken" => handle[v] # None
      /\ \A w \in Reapers : pc[w] \in ReaperPlaces
  BY <1>7 DEF OwnerPlaces, VisitorPlaces, ReaperPlaces, Handlers
<1> QED
  BY <1>5, <1>6, <1>8 DEF TypeInv

(* A handler that returns is typed as before.                              *)
LEMMA ReturnTyped ==
  ASSUME TypeInv, NEW h \in Handlers, Return(h),
         row' \in Rows \cup {None}, box' \in Boxes \cup {None}, job' = job,
         account' \in BOOLEAN, events' \in 0..MaxEvents, failing' = failing
  PROVE  TypeInv'
<1>1. /\ pc' = [pc EXCEPT ![h] = "rest"]
      /\ loaded' = [loaded EXCEPT ![h] = None]
      /\ handle' = [handle EXCEPT ![h] = None]
  BY DEF Return, Goto, Load
<1>2. TypeOK'
  BY <1>1 DEF TypeInv, TypeOK, Places
<1> QED
  BY <1>1, <1>2 DEF TypeInv, TypeOK, OwnerPlaces, VisitorPlaces, ReaperPlaces,
                    Handlers

LEMMA TypeOwner ==
  ASSUME TypeInv, NEW o \in Owners, OwnerStep(o)
  PROVE  TypeInv'
<1> USE DEF TypeInv, TypeOK
<1>1. o \in Handlers
  BY DEF Handlers
<1>2. CASE CommitSite(o)
  <2>1. Edited(loaded[o]) \in Rows
    BY <1>1, <1>2, EditedTyped DEF CommitSite
  <2>2. row' \in Rows \cup {None}
    BY <1>1, <1>2, <2>1, SaveTyped DEF CommitSite, Rows
  <2> QED
    BY <1>1, <1>2, <2>2, ReturnTyped DEF CommitSite
<1>3. CASE RemoveOld(o)
  BY <1>1, <1>3 DEF RemoveOld, Goto, Places, OwnerPlaces, VisitorPlaces,
                    ReaperPlaces, Handlers
<1>4. CASE ClearName(o)
  BY <1>1, <1>4 DEF ClearName, Goto, Places, OwnerPlaces, VisitorPlaces,
                    ReaperPlaces, Handlers
<1>5. CASE StartService(o)
  <2>1. NewId(UsedCids) \in Ids /\ NewAddr \in Ids \cup {Name}
    BY <1>5, NewIdIsId, NewAddrTyped DEF StartService, IdsLeft
  <2>2. box' \in Boxes /\ handle'[o] \in Handles
    BY <1>1, <1>5, <2>1 DEF StartService, Boxes, Handles
  <2>3. handle'[o] # None
    BY <2>2, NoneAssumption
  <2> QED
    BY <1>1, <1>5, <2>2, <2>3, ConstantsAssumption
    DEF StartService, Goto, Places, OwnerPlaces, VisitorPlaces, ReaperPlaces,
        Handlers
<1>6. CASE StartFails(o)
  BY <1>1, <1>6, ReturnTyped DEF StartFails
<1>7. CASE CommitService(o)
  <2>1. Edited(loaded[o]) \in Rows
    BY <1>1, <1>7, EditedTyped DEF CommitService
  <2>2. handle[o] \in Handles
    BY <1>1, <1>7 DEF CommitService
  <2>3. row' \in Rows \cup {None}
    BY <1>1, <1>7, <2>1, <2>2, SaveTyped DEF CommitService, Rows, Handles
  <2> QED
    BY <1>1, <1>7, <2>3, ReturnTyped DEF CommitService
<1>8. CASE CommitDelete(o)
  <2>1. row' \in Rows \cup {None}
    BY <1>8, PatchTyped DEF CommitDelete
  <2> QED
    BY <1>1, <1>8, <2>1, ReturnTyped DEF CommitDelete
<1>9. CASE CommitPurge(o)
  BY <1>1, <1>9, ReturnTyped DEF CommitPurge
<1>10. CASE RemoveRaises(o)
  BY <1>1, <1>10, ReturnTyped DEF RemoveRaises
<1>11. CASE StartLeavesBox(o)
  <2>1. NewId(UsedCids) \in Ids /\ NewAddr \in Ids \cup {Name}
    BY <1>11, NewIdIsId, NewAddrTyped DEF StartLeavesBox, IdsLeft
  <2>2. box' \in Boxes
    BY <1>11, <2>1 DEF StartLeavesBox, Boxes
  <2> QED
    BY <1>1, <1>11, <2>2, ReturnTyped DEF StartLeavesBox
<1> QED
  BY <1>2, <1>3, <1>4, <1>5, <1>6, <1>7, <1>8, <1>9, <1>10, <1>11 DEF OwnerStep

LEMMA TypeVisitor ==
  ASSUME TypeInv, NEW v \in Visitors, Visit(v) \/ VisitorStep(v)
  PROVE  TypeInv'
<1> USE DEF TypeInv, TypeOK
<1>1. v \in Handlers /\ v \notin Owners /\ v \notin Reapers
  BY ConstantsAssumption DEF Handlers
<1>2. CASE Visit(v)
  BY <1>1, <1>2 DEF Visit, Goto, Load, Places, OwnerPlaces, VisitorPlaces,
                    ReaperPlaces, Handlers
<1>3. CASE WakeStarts(v)
  <2> DEFINE addr == IF box.up THEN box.addr ELSE NewAddr
  <2>1. box \in Boxes /\ addr \in Ids \cup {Name}
    BY <1>3, NewAddrTyped DEF WakeStarts, IsBoxOf, Boxes
  <2>2. box' \in Boxes
    BY <1>3, <2>1 DEF WakeStarts, Boxes
  <2>3. [cid |-> box.cid, addr |-> addr] \in Handles
    BY <2>1 DEF Boxes, Handles
  <2>4. handle' \in [Handlers -> Handles \cup {None}]
    BY <1>1, <1>3, <2>3 DEF WakeStarts
  <2>5. pc' = [pc EXCEPT ![v] = "woken"] \/ pc' = [pc EXCEPT ![v] = "lost"]
    BY <1>3 DEF WakeStarts, Goto
  <2>6. pc'[v] = "woken" => handle'[v] # None
    BY <1>1, <1>3, <2>3, <2>5, NoneAssumption DEF WakeStarts, Goto
  <2>7. \A h \in Handlers : h # v => handle'[h] = handle[h]
    BY <1>1, <1>3 DEF WakeStarts
  <2> QED
    BY <1>1, <1>3, <2>2, <2>4, <2>5, <2>6, <2>7
    DEF WakeStarts, Places, OwnerPlaces, VisitorPlaces, ReaperPlaces, Handlers
<1>4. CASE WakeMisses(v)
  BY <1>1, <1>4 DEF WakeMisses, Goto, Places, OwnerPlaces, VisitorPlaces,
                    ReaperPlaces, Handlers
<1>5. CASE WakeCommits(v)
  <2>1. handle[v] \in Handles
    BY <1>1, <1>5 DEF WakeCommits
  <2>2. row' \in Rows \cup {None}
    BY <1>5, <2>1, PatchTyped DEF WakeCommits, StillThere, Rows, Handles
  <2>3. CASE StillThere(loaded[v])
    BY <1>1, <1>5, <2>2, <2>3 DEF WakeCommits, Goto, Places, OwnerPlaces,
                              VisitorPlaces, ReaperPlaces, Handlers
  <2>4. CASE ~StillThere(loaded[v])
    BY <1>1, <1>5, <2>2, <2>4, ReturnTyped DEF WakeCommits
  <2> QED
    BY <2>3, <2>4
<1>6. CASE WakeGivesUp(v)
  <2>1. row' \in Rows \cup {None}
    BY <1>6, PatchTyped DEF WakeGivesUp, StillThere, Rows
  <2> QED
    BY <1>1, <1>6, <2>1, ReturnTyped DEF WakeGivesUp
<1>7. CASE Touch(v)
  <2>1. row' \in Rows \cup {None}
    BY <1>7, PatchTyped DEF Touch, StillThere, Rows
  <2> QED
    BY <1>1, <1>7, <2>1 DEF Touch, Goto, Places, OwnerPlaces, VisitorPlaces,
                            ReaperPlaces, Handlers
<1>8. CASE Proxy(v)
  BY <1>1, <1>8, ReturnTyped DEF Proxy
<1>9. CASE WakeRaises(v)
  BY <1>1, <1>9, ReturnTyped DEF WakeRaises
<1> QED
  BY <1>2, <1>3, <1>4, <1>5, <1>6, <1>7, <1>8, <1>9 DEF VisitorStep

LEMMA TypeReaper ==
  ASSUME TypeInv, NEW w \in Reapers, ReaperStep(w)
  PROVE  TypeInv'
<1> USE DEF TypeInv, TypeOK
<1>1. w \in Handlers /\ w \notin Owners /\ w \notin Visitors
  BY ConstantsAssumption DEF Handlers
<1>2. CASE Snapshot(w)
  BY <1>1, <1>2 DEF Snapshot, Goto, Load, Places, OwnerPlaces, VisitorPlaces,
                    ReaperPlaces, Handlers
<1>3. CASE Stop(w)
  <2>1. box' \in Boxes \cup {None}
    BY <1>3 DEF Stop, IsBoxOf, Boxes
  <2> QED
    BY <1>1, <1>3, <2>1 DEF Stop, Goto, Places, OwnerPlaces, VisitorPlaces,
                            ReaperPlaces, Handlers
<1>4. CASE Mark(w)
  <2>1. row' \in Rows \cup {None}
    BY <1>4, PatchTyped DEF Mark, StillThere, Rows
  <2> QED
    BY <1>1, <1>4, <2>1, ReturnTyped DEF Mark
<1>5. CASE StopRaises(w)
  <2>1. box' \in Boxes \cup {None}
    BY <1>5 DEF StopRaises, IsBoxOf, Boxes
  <2> QED
    BY <1>1, <1>5, <2>1, ReturnTyped DEF StopRaises
<1> QED
  BY <1>2, <1>3, <1>4, <1>5 DEF ReaperStep

LEMMA TypeStep == TypeInv /\ [Next]_vars => TypeInv'
<1> SUFFICES ASSUME TypeInv, [Next]_vars PROVE TypeInv'
  OBVIOUS
<1>1. ASSUME NEW o \in Owners, NEW j \in Jobs, Call(o, j)
      PROVE  TypeInv'
  <2>1. o \in Handlers /\ o \notin Visitors /\ o \notin Reapers
    BY ConstantsAssumption DEF Handlers
  <2>2. events' \in 0..MaxEvents
    BY <1>1, ConstantsAssumption DEF Call, TypeInv, TypeOK
  <2> QED
    BY <1>1, <2>1, <2>2 DEF Call, Goto, Load, TypeInv, TypeOK, Places,
       OwnerPlaces, VisitorPlaces, ReaperPlaces, Handlers
<1>2. ASSUME NEW h \in Handlers, Locked(h) \/ Crash(h)
      PROVE  TypeInv'
  <2>1. events' \in 0..MaxEvents
    BY <1>2, ConstantsAssumption DEF Locked, Crash, TypeInv, TypeOK
  <2> QED
    BY <1>2, <2>1, ReturnTyped DEF Locked, Crash, TypeInv, TypeOK
<1>3. CASE Age
  <2>1. row' \in Rows
    BY <1>3 DEF Age, TypeInv, TypeOK, Rows
  <2> QED
    BY <1>3, <2>1 DEF Age, TypeInv, TypeOK
<1>4. CASE UNCHANGED vars
  BY <1>4 DEF vars, TypeInv, TypeOK
<1>5. CASE Quiet
  BY <1>5, <1>4 DEF Quiet
<1>6. CASE Outage
  BY <1>6 DEF Outage, TypeInv, TypeOK
<1> QED
  BY <1>1, <1>2, <1>3, <1>4, <1>5, <1>6, TypeOwner, TypeVisitor, TypeReaper
  DEF Next

(* Every reachable state has the declared types, in every deployment of    *)
(* the program: on SQLite or Postgres, with crashes and daemon failures.   *)
THEOREM TypeCorrect == Spec => []TypeOK
<1>1. TypeInv => TypeOK
  BY DEF TypeInv
<1> QED
  BY <1>1, TypeInit, TypeStep, PTL DEF Spec
----------------------------------------------------------------------------
(* One owner's call at a time: the row and the container match.            *)

(* The row and the container keep what CallInv speaks of.                  *)
SameShape ==
  /\ row' = None <=> row = None
  /\ row # None => \A c \in {"id", "kind", "cid"} : row'[c] = row[c]
  /\ box' = None <=> box = None
  /\ box # None => box'.cid = box.cid

OwnersUntouched ==
  /\ account' = account /\ job' = job
  /\ \A o \in Owners : /\ pc'[o] = pc[o] /\ loaded'[o] = loaded[o]
                       /\ handle'[o] = handle[o]

LEMMA ShapeIsEnough ==
  ASSUME CallInv, SameShape, OwnersUntouched
  PROVE  CallInv'
<1>1. Matched => Matched'
  BY DEF SameShape, Matched, IsBoxOf
<1>2. ASSUME NEW o \in Owners, Underway(o) PROVE Underway(o)'
  BY <1>1, <1>2 DEF SameShape, OwnersUntouched, Underway
<1>3. OwnersRest' => OwnersRest
  BY DEF OwnersUntouched, OwnersRest
<1> QED
  BY <1>1, <1>2, <1>3 DEF CallInv, OwnersUntouched

LEMMA CallInit == Init => CallInv
<1> SUFFICES ASSUME Init PROVE CallInv
  OBVIOUS
<1>1. \A o \in Owners : pc[o] = "rest"
  BY DEF Init, Handlers
<1>2. Matched
  <2>1. CASE row = None /\ box = None
    BY <2>1 DEF Matched
  <2>2. CASE ~(row = None /\ box = None)
    <3>1. PICK i \in Ids :
            /\ box = [cid |-> i, up |-> TRUE,
                      addr |-> IF Published THEN i ELSE Name]
            /\ row = [id |-> i, kind |-> "service", status |-> "running",
                      cid |-> i, addr |-> IF Published THEN i ELSE Name,
                      fresh |-> TRUE]
      BY <2>2 DEF Init
    <3>2. row \in Rows \cup {None} /\ box \in Boxes \cup {None}
      BY TypeInit DEF TypeInv, TypeOK
    <3>3. row.cid = i /\ box.cid = i /\ i # Null
      BY <3>1, ConstantsAssumption
    <3>4. row # None /\ box # None
      <4>1. row \in Rows /\ box \in Boxes
        <5> DEFINE at == IF Published THEN i ELSE Name
        <5>1. at \in Ids \cup {Name}
          OBVIOUS
        <5>2. /\ box = [cid |-> i, up |-> TRUE, addr |-> at]
              /\ row = [id |-> i, kind |-> "service", status |-> "running",
                        cid |-> i, addr |-> at, fresh |-> TRUE]
          BY <3>1
        <5> HIDE DEF at
        <5> QED
          BY <5>1, <5>2 DEF Rows, Boxes
      <4> QED
        BY <4>1, NoneAssumption
    <3> QED
      BY <3>3, <3>4 DEF Matched, IsBoxOf
  <2> QED
    BY <2>1, <2>2
<1> QED
  BY <1>1, <1>2 DEF CallInv

(* The call of o returns, and row and container match.                     *)
LEMMA CallReturns ==
  ASSUME TypeInv, CallInv, NEW o \in Owners, pc[o] # "rest", Return(o), Matched'
  PROVE  CallInv'
<1>1. \A p \in Owners : pc'[p] = "rest"
  BY DEF Return, Goto, CallInv, TypeInv, TypeOK, Handlers
<1> QED
  BY <1>1 DEF CallInv

(* The call of o goes on.                                                  *)
LEMMA CallGoesOn ==
  ASSUME TypeInv, CallInv, NEW o \in Owners, pc[o] # "rest", NEW to,
         to # "rest", Goto(o, to), Underway(o)'
  PROVE  CallInv'
<1>1. pc'[o] = to /\ \A p \in Owners \ {o} : pc'[p] = "rest"
  BY DEF Goto, CallInv, TypeInv, TypeOK, Handlers
<1> QED
  BY <1>1 DEF CallInv, OwnersRest

LEMMA OwnerKeepsMatch ==
  ASSUME TypeInv, CallInv, ~Faults, NEW o \in Owners, OwnerStep(o)
  PROVE  CallInv'
<1>1. o \in Handlers
  BY DEF Handlers
<1>2. pc[o] # "rest"
  BY DEF OwnerStep, CommitSite, RemoveOld, RemoveRaises, ClearName, StartService,
         StartFails, StartLeavesBox, CommitService, CommitDelete, CommitPurge
<1>3. Underway(o)
  BY <1>2 DEF CallInv
<1>4. row \in Rows \cup {None} /\ box \in Boxes \cup {None}
      /\ loaded[o] \in Rows \cup {None}
  BY <1>1 DEF TypeInv, TypeOK
<1>5. ASSUME NEW new \in Rows, Save(loaded[o], new),
             new.id = Edited(loaded[o]).id
      PROVE  /\ row' \in Rows /\ row' # None
             /\ row'.cid = new.cid /\ row'.kind = new.kind
  <2>1. CASE loaded[o] = None
    BY <1>3, <1>5, <2>1, NoneAssumption DEF Save, Underway
  <2>2. CASE loaded[o] # None
    <3>1. StillThere(loaded[o]) /\ row \in Rows /\ loaded[o] \in Rows
      BY <1>3, <1>4, <2>2 DEF Underway, StillThere
    <3>2. row' = Flush(loaded[o], new)
      BY <1>5, <2>2, <3>1 DEF Save
    <3>3. row.cid = loaded[o].cid /\ row.kind = loaded[o].kind
      BY <1>3, <3>1 DEF Underway, StillThere
    <3>4. row' \in Rows
      BY <3>1, <3>2, <1>5, FlushTyped
    <3>5. Flush(loaded[o], new)["cid"] = new["cid"]
      BY <3>1, <3>3, <1>5, FlushColumn
    <3>6. Flush(loaded[o], new)["kind"] = new["kind"]
      BY <3>1, <3>3, <1>5, FlushColumn
    <3> QED
      BY <3>2, <3>4, <3>5, <3>6, NoneAssumption
  <2> QED
    BY <2>1, <2>2
<1>a. CASE CommitSite(o)
  <2> DEFINE new == [Edited(loaded[o]) EXCEPT !.kind = "static",
                                              !.status = "live"]
  <2>1. Edited(loaded[o]) \in Rows
    BY <1>4, <1>a, EditedTyped DEF CommitSite
  <2>2. new \in Rows /\ new.id = Edited(loaded[o]).id
        /\ new.cid = Edited(loaded[o]).cid /\ new.kind = "static"
    BY <2>1 DEF Rows
  <2>3. row' # None /\ row'.cid = new.cid /\ row'.kind = "static"
    BY <1>5, <1>a, <2>2 DEF CommitSite
  <2>4. Matched /\ box' = box
    BY <1>3, <1>a DEF CommitSite, Underway
  <2>5. CASE loaded[o] = None
    <3>1. new.cid = Null
      BY <2>2, <2>5 DEF Edited, Blank
    <3> QED
      BY <1>3, <1>a, <1>2, <2>3, <2>4, <2>5, <3>1, CallReturns
      DEF Matched, Underway, CommitSite
  <2>6. CASE loaded[o] # None
    <3>1. new.cid = row.cid /\ row # None
      BY <1>3, <2>2, <2>6 DEF Edited, Underway
    <3>2. Matched'
      BY <2>3, <2>4, <3>1 DEF Matched, IsBoxOf
    <3> QED
      BY <1>a, <1>2, <3>2, CallReturns DEF CommitSite
  <2> QED
    BY <2>5, <2>6
<1>b. CASE RemoveOld(o)
  <2>1. box' = IF IsBoxOf(loaded[o]) THEN None ELSE box
    BY <1>b DEF RemoveOld
  <2>2. Matched
    BY <1>3, <1>b DEF RemoveOld, Underway
  <2>3. box' = None
    BY <1>3, <2>1, <2>2 DEF Matched, Underway, IsBoxOf
  <2>4. Goto(o, "removed") /\ pc'[o] = "removed" /\ UNCHANGED <<account, row, loaded>>
    BY <1>1, <1>b DEF RemoveOld, Goto, TypeInv, TypeOK
  <2>5. Underway(o)'
    BY <1>3, <2>3, <2>4 DEF Underway
  <2> QED
    BY <1>2, <2>4, <2>5, CallGoesOn
<1>c. CASE ClearName(o)
  <2>1. Goto(o, "cleared") /\ pc'[o] = "cleared" /\ UNCHANGED <<account, row, loaded>>
        /\ box' = None
    BY <1>1, <1>c DEF ClearName, Goto, TypeInv, TypeOK
  <2>2. Underway(o)'
    BY <1>3, <2>1 DEF Underway
  <2> QED
    BY <1>2, <2>1, <2>2, CallGoesOn
<1>d. CASE StartService(o)
  <2> DEFINE cid == NewId(UsedCids)
  <2>1. Goto(o, "started") /\ pc'[o] = "started" /\ UNCHANGED <<account, row, loaded, job>>
    BY <1>1, <1>d DEF StartService, Goto, TypeInv, TypeOK
  <2>2. box' = [cid |-> cid, up |-> TRUE, addr |-> NewAddr]
        /\ handle'[o] = [cid |-> cid, addr |-> NewAddr]
    BY <1>1, <1>d DEF StartService, TypeInv, TypeOK
  <2>3. cid \in Ids /\ NewAddr \in Ids \cup {Name}
    BY <1>d, NewIdIsId, NewAddrTyped DEF StartService, IdsLeft
  <2>4. box' \in Boxes /\ handle'[o] \in Handles
    BY <2>2, <2>3 DEF Boxes, Handles
  <2>5. box' # None /\ handle'[o] # None /\ box'.cid = handle'[o].cid
    <3>1. box' # None /\ handle'[o] # None
      BY <2>4, NoneAssumption, Zenon
    <3>2. box'.cid = handle'[o].cid
      BY <2>2
    <3> QED
      BY <3>1, <3>2
  <2>6. job[o] = "service"
    BY <1>d DEF StartService, TypeInv
  <2>7. Underway(o)'
    BY <1>3, <2>1, <2>5, <2>6 DEF Underway
  <2> QED
    BY <1>2, <2>1, <2>7, CallGoesOn
<1>e. CASE StartFails(o)
  BY <1>3, <1>e DEF StartFails, Underway
<1>f. CASE CommitService(o)
  <2> DEFINE new == [Edited(loaded[o]) EXCEPT
                       !.kind = "service", !.status = "running",
                       !.cid = handle[o].cid, !.addr = handle[o].addr]
  <2>1. Edited(loaded[o]) \in Rows
    BY <1>4, <1>f, EditedTyped DEF CommitService
  <2>2. handle[o] \in Handles
    BY <1>1, <1>f DEF CommitService, TypeInv, TypeOK
  <2>3. new \in Rows /\ new.id = Edited(loaded[o]).id
        /\ new.cid = handle[o].cid /\ new.kind = "service"
    BY <2>1, <2>2 DEF Rows, Handles
  <2>4. row' # None /\ row'.cid = handle[o].cid
    BY <1>5, <1>f, <2>3 DEF CommitService
  <2>5. box # None /\ box.cid = handle[o].cid /\ box' = box
    BY <1>3, <1>f DEF Underway, CommitService
  <2>6. handle[o].cid # Null
    BY <2>2, ConstantsAssumption DEF Handles
  <2>7. Matched'
    BY <2>4, <2>5, <2>6 DEF Matched, IsBoxOf
  <2> QED
    BY <1>2, <1>f, <2>7, CallReturns DEF CommitService
<1>g. CASE CommitDelete(o)
  <2>1. box' = None
    BY <1>3, <1>g DEF CommitDelete, Underway
  <2>2. row' = None
    BY <1>3, <1>g DEF CommitDelete, Underway, Patch, StillThere
  <2>3. Matched'
    BY <2>1, <2>2 DEF Matched
  <2> QED
    BY <1>2, <1>g, <2>3, CallReturns DEF CommitDelete
<1>h. CASE CommitPurge(o)
  <2>1. Matched'
    BY <1>3, <1>h DEF CommitPurge, Underway, Matched
  <2> QED
    BY <1>2, <1>h, <2>1, CallReturns DEF CommitPurge
<1>i. ~RemoveRaises(o) /\ ~StartLeavesBox(o)
  BY DEF RemoveRaises, StartLeavesBox, TypeInv
<1> QED
  BY <1>a, <1>b, <1>c, <1>d, <1>e, <1>f, <1>g, <1>h, <1>i DEF OwnerStep

LEMMA OthersKeepMatch ==
  ASSUME TypeInv, CallInv, Serialised, ~Faults,
         NEW h \in Visitors \cup Reapers,
         Visit(h) \/ VisitorStep(h) \/ ReaperStep(h) \/ Locked(h)
  PROVE  CallInv'
<1> USE DEF TypeInv, TypeOK
<1>1. h \in Handlers /\ h \notin Owners
  BY ConstantsAssumption DEF Handlers
<1>2. ASSUME NEW to, Goto(h, to) PROVE \A o \in Owners : pc'[o] = pc[o]
  BY <1>1, <1>2 DEF Goto, Handlers
<1>3. ASSUME Return(h), account' = account, job' = job PROVE OwnersUntouched
  BY <1>1, <1>3 DEF Return, Goto, Load, OwnersUntouched, Handlers
<1>4. ASSUME NEW new, Patch(loaded[h], new),
             row # None => /\ new # None /\ new.id = row.id
                           /\ new.cid = row.cid /\ new.kind = row.kind
      PROVE  /\ row' = None <=> row = None
             /\ row # None => \A c \in {"id", "kind", "cid"} : row'[c] = row[c]
  BY <1>4 DEF Patch, StillThere
<1>5. ASSUME row \in Rows, NEW new \in Rows
      PROVE  new # None
  BY <1>5, NoneAssumption
<1>a. CASE Visit(h)
  <2>1. OwnersUntouched
    BY <1>1, <1>2, <1>a DEF Visit, Load, OwnersUntouched, Handlers
  <2>2. SameShape
    BY <1>a DEF Visit, SameShape
  <2> QED
    BY <2>1, <2>2, ShapeIsEnough
<1>b. CASE WakeStarts(h)
  <2>1. OwnersUntouched
    BY <1>1, <1>2, <1>b DEF WakeStarts, OwnersUntouched, Handlers
  <2> DEFINE addr == IF box.up THEN box.addr ELSE NewAddr
  <2>2. box \in Boxes /\ addr \in Ids \cup {Name} /\ box # None
    BY <1>b, NewAddrTyped DEF WakeStarts, IsBoxOf, Boxes
  <2>3. box' = [box EXCEPT !.up = TRUE, !.addr = addr] /\ row' = row
    BY <1>b DEF WakeStarts
  <2>4. box'.cid = box.cid /\ box' \in Boxes
    BY <2>2, <2>3 DEF Boxes
  <2>5. box' # None
    BY <2>4, NoneAssumption, Zenon
  <2>6. SameShape
    BY <2>2, <2>3, <2>4, <2>5 DEF SameShape
  <2> QED
    BY <2>1, <2>6, ShapeIsEnough
<1>c. CASE WakeMisses(h)
  <2>1. OwnersUntouched
    BY <1>1, <1>2, <1>c DEF WakeMisses, OwnersUntouched, Handlers
  <2>2. SameShape
    BY <1>c DEF WakeMisses, SameShape
  <2> QED
    BY <2>1, <2>2, ShapeIsEnough
<1>d. CASE WakeCommits(h)
  <2> DEFINE new == [row EXCEPT !.addr = handle[h].addr,
                                !.status = "running", !.fresh = TRUE]
  <2>1. handle[h] \in Handles
    BY <1>1, <1>d DEF WakeCommits, ReaperPlaces
  <2>2. row # None => /\ new \in Rows /\ new.id = row.id
                      /\ new.cid = row.cid /\ new.kind = row.kind
    BY <2>1 DEF Rows, Handles
  <2>3. row # None => new # None
    BY <1>5, <2>2
  <2>4. SameShape
    BY <1>d, <1>4, <2>2, <2>3 DEF WakeCommits, SameShape
  <2>5. OwnersUntouched
    BY <1>1, <1>2, <1>3, <1>d DEF WakeCommits, OwnersUntouched, Handlers
  <2> QED
    BY <2>4, <2>5, ShapeIsEnough
<1>e. CASE WakeGivesUp(h)
  <2> DEFINE new == [row EXCEPT !.status = "stopped"]
  <2>2. row # None => /\ new \in Rows /\ new.id = row.id
                      /\ new.cid = row.cid /\ new.kind = row.kind
    BY DEF Rows
  <2>3. row # None => new # None
    BY <1>5, <2>2
  <2>4. SameShape
    BY <1>e, <1>4, <2>2, <2>3 DEF WakeGivesUp, SameShape
  <2> QED
    BY <1>3, <1>e, <2>4, ShapeIsEnough DEF WakeGivesUp
<1>f. CASE Touch(h)
  <2> DEFINE new == [row EXCEPT !.fresh = TRUE]
  <2>2. row # None => /\ new \in Rows /\ new.id = row.id
                      /\ new.cid = row.cid /\ new.kind = row.kind
    BY DEF Rows
  <2>3. row # None => new # None
    BY <1>5, <2>2
  <2>4. SameShape
    BY <1>f, <1>4, <2>2, <2>3 DEF Touch, SameShape
  <2>5. OwnersUntouched
    BY <1>1, <1>2, <1>f DEF Touch, OwnersUntouched, Handlers
  <2> QED
    BY <2>4, <2>5, ShapeIsEnough
<1>g. CASE Proxy(h) \/ Locked(h)
  <2>1. SameShape
    BY <1>g DEF Proxy, Locked, SameShape
  <2> QED
    BY <1>3, <1>g, <2>1, ShapeIsEnough DEF Proxy, Locked
<1>h. CASE Snapshot(h)
  <2>1. OwnersUntouched
    BY <1>1, <1>2, <1>h DEF Snapshot, Load, OwnersUntouched, Handlers
  <2>2. SameShape
    BY <1>h DEF Snapshot, SameShape
  <2> QED
    BY <2>1, <2>2, ShapeIsEnough
<1>i. CASE Stop(h)
  <2>1. OwnersUntouched
    BY <1>1, <1>2, <1>i DEF Stop, OwnersUntouched, Handlers
  <2>2. box \in Boxes => LET b == [box EXCEPT !.up = FALSE]
                         IN  b \in Boxes /\ b.cid = box.cid
    BY DEF Boxes
  <2>3. \A b \in Boxes : b # None
    BY NoneAssumption, Zenon
  <2>4. SameShape
    BY <1>i, <2>2, <2>3 DEF Stop, IsBoxOf, SameShape
  <2> QED
    BY <2>1, <2>4, ShapeIsEnough
<1>j. CASE Mark(h)
  <2> DEFINE new == [row EXCEPT !.status = "idle"]
  <2>2. row # None => /\ new \in Rows /\ new.id = row.id
                      /\ new.cid = row.cid /\ new.kind = row.kind
    BY DEF Rows
  <2>3. row # None => new # None
    BY <1>5, <2>2
  <2>4. SameShape
    BY <1>j, <1>4, <2>2, <2>3 DEF Mark, SameShape
  <2> QED
    BY <1>3, <1>j, <2>4, ShapeIsEnough DEF Mark
<1>k. ~WakeRaises(h) /\ ~StopRaises(h)
  BY DEF WakeRaises, StopRaises
<1> QED
  BY <1>a, <1>b, <1>c, <1>d, <1>e, <1>f, <1>g, <1>h, <1>i, <1>j, <1>k
  DEF VisitorStep, ReaperStep

LEMMA CallStep ==
  ASSUME Serialised, ~Crashes, ~Faults
  PROVE  TypeInv /\ CallInv /\ [Next]_vars => CallInv'
<1> SUFFICES ASSUME TypeInv, CallInv, [Next]_vars PROVE CallInv'
  OBVIOUS
<1>1. ASSUME NEW o \in Owners, NEW j \in Jobs, Call(o, j)
      PROVE  CallInv'
  <2>1. \A p \in Owners : pc[p] = "rest"
    BY <1>1 DEF Call, LockHeld
  <2>2. Matched
    BY <2>1 DEF CallInv, OwnersRest
  <2>3. /\ pc'[o] = "called" /\ \A p \in Owners \ {o} : pc'[p] = "rest"
        /\ loaded'[o] = row /\ account /\ UNCHANGED <<account, row, box>>
    BY <1>1, <2>1 DEF Call, Goto, Load, TypeInv, TypeOK, Handlers
  <2>4. Underway(o)'
    BY <2>2, <2>3 DEF Underway, Matched, IsBoxOf
  <2> QED
    BY <2>3, <2>4 DEF CallInv, OwnersRest
<1>2. ASSUME NEW h \in Handlers, Locked(h)
      PROVE  CallInv'
  <2>1. h \notin Owners
    BY <1>2 DEF Locked, TypeInv, OwnerPlaces
  <2> QED
    BY <1>2, <2>1, OthersKeepMatch DEF Handlers
<1>3. CASE Age
  <2>1. row \in Rows /\ row' = [row EXCEPT !.fresh = FALSE]
    BY <1>3 DEF Age, TypeInv, TypeOK
  <2>2. row' \in Rows /\ row'.id = row.id /\ row'.cid = row.cid
        /\ row'.kind = row.kind
    BY <2>1 DEF Rows
  <2>3. \A r \in Rows : r # None
    BY NoneAssumption, Zenon
  <2>4. SameShape
    BY <1>3, <2>1, <2>2, <2>3 DEF Age, SameShape
  <2>5. OwnersUntouched
    BY <1>3 DEF Age, OwnersUntouched
  <2> QED
    BY <2>4, <2>5, ShapeIsEnough
<1>4. CASE UNCHANGED vars
  <2>1. SameShape /\ OwnersUntouched
    BY <1>4 DEF vars, SameShape, OwnersUntouched
  <2> QED
    BY <2>1, ShapeIsEnough
<1>5. CASE Quiet
  BY <1>5, <1>4 DEF Quiet
<1>6. ASSUME NEW h \in Handlers, Crash(h) PROVE CallInv'
  BY <1>6 DEF Crash
<1>7. ~Outage
  BY DEF Outage
<1> QED
  BY <1>1, <1>2, <1>3, <1>4, <1>5, <1>6, <1>7, OwnerKeepsMatch, OthersKeepMatch
  DEF Next

(* Where owners' calls exclude one another, no worker is killed and the    *)
(* daemon obeys, no container is left without the row that points at it,   *)
(* whatever visitors and reapers do meanwhile ...                          *)
THEOREM ContainersHaveRows ==
  ASSUME Serialised, ~Crashes, ~Faults
  PROVE  Spec => []NoStrayContainer
<1>1. CallInv => NoStrayContainer
  BY DEF CallInv, NoStrayContainer, Matched, IsBoxOf
<1> QED
  BY <1>1, TypeInit, TypeStep, CallInit, CallStep, PTL DEF Spec

(* ... and a service that sleeps still has the container to wake.          *)
THEOREM SleepersCanWake ==
  ASSUME Serialised, ~Crashes, ~Faults
  PROVE  Spec => []IdleCanBeWoken
<1>1. CallInv => IdleCanBeWoken
  BY DEF CallInv, IdleCanBeWoken, Matched, ServiceIs, IsBoxOf
<1> QED
  BY <1>1, TypeInit, TypeStep, CallInit, CallStep, PTL DEF Spec

----------------------------------------------------------------------------
(* One reaper: what it and the visitors promise each other.                *)

(* A request that found the service asleep, and has not been proxied yet.  *)
Waking(v) ==
  pc[v] \in {"idle", "woken"} \/ (pc[v] = "proxy" /\ handle[v] # None)
PointsAt(h) ==
  /\ row # None /\ loaded[h] # None
  /\ loaded[h].id = row.id /\ loaded[h].cid = row.cid

(* Nobody touches row and container but visitors and the reaper, who all   *)
(* mean the row that is there.  The reaper is at it only while the row     *)
(* says running and no request is waking the service: such a request keeps *)
(* the row asleep or fresh until it has been proxied.                      *)
VisitInv ==
  /\ \A h \in Handlers : pc[h] # "rest" => h \notin Owners /\ PointsAt(h)
  /\ row # None => /\ row.kind = "service" /\ row.status \in {"running", "idle"}
                   /\ IsBoxOf(row)
  /\ \A v \in Visitors :
       /\ pc[v] # "lost"
       /\ pc[v] \in {"rest", "idle", "running"} => handle[v] = None
       /\ Waking(v) => ReapersRest /\ (row.status = "idle" \/ row.fresh)
       /\ handle[v] # None => Reachable(handle[v].addr)
  /\ \A w \in Reapers :
       /\ pc[w] # "rest" => row.status = "running"
       /\ pc[w] = "stop" => Reachable(row.addr)
       /\ pc[w] = "mark" => ~box.up
  /\ ReapersRest /\ ServiceIs("running") => Reachable(row.addr)

LEMMA VisitInit == Init => (Undisturbed => VisitInv)
<1> SUFFICES ASSUME Init PROVE VisitInv
  OBVIOUS
<1>1. \A h \in Handlers : pc[h] = "rest" /\ handle[h] = None
  BY DEF Init
<1>2. /\ row # None => /\ row.kind = "service" /\ row.status = "running"
                       /\ IsBoxOf(row) /\ Reachable(row.addr)
  <2>1. CASE row = None
    BY <2>1
  <2>2. CASE row # None
    <3> DEFINE at(i) == IF Published THEN i ELSE Name
    <3>1. PICK i \in Ids :
            /\ box = [cid |-> i, up |-> TRUE, addr |-> at(i)]
            /\ row = [id |-> i, kind |-> "service", status |-> "running",
                      cid |-> i, addr |-> at(i), fresh |-> TRUE]
      BY <2>2 DEF Init
    <3>2. at(i) \in Ids \cup {Name}
      BY <3>1
    <3> HIDE DEF at
    <3>3. box \in Boxes
      BY <3>1, <3>2 DEF Boxes
    <3>4. box # None
      BY <3>3, NoneAssumption, Zenon
    <3> QED
      BY <2>2, <3>1, <3>4 DEF IsBoxOf, Reachable
  <2> QED
    BY <2>1, <2>2
<1> QED
  BY <1>1, <1>2 DEF VisitInv, Waking, Handlers, ServiceIs

(* A visitor's step.                                                       *)
LEMMA VisitVisitor ==
  ASSUME ~Faults, TypeInv, VisitInv,
         NEW v \in Visitors, Visit(v) \/ VisitorStep(v)
  PROVE  VisitInv'
<1> USE DEF TypeInv, TypeOK
<1>1. v \in Handlers /\ v \notin Owners /\ v \notin Reapers
  BY ConstantsAssumption DEF Handlers
<1>2. \A u \in Visitors : u \in Handlers /\ u \notin Reapers
  BY ConstantsAssumption DEF Handlers
<1>3. \A w \in Reapers : w \in Handlers /\ w # v
  BY ConstantsAssumption DEF Handlers
<1>4. pc[v] # "rest" => PointsAt(v)
  BY <1>1 DEF VisitInv
<1>5. ASSUME NEW to, Goto(v, to)
      PROVE  pc'[v] = to /\ \A h \in Handlers \ {v} : pc'[h] = pc[h]
  BY <1>1, <1>5 DEF Goto
<1>6. ASSUME Return(v)
      PROVE  /\ pc'[v] = "rest" /\ handle'[v] = None
             /\ \A h \in Handlers \ {v} :
                  /\ pc'[h] = pc[h]
                  /\ loaded'[h] = loaded[h] /\ handle'[h] = handle[h]
  BY <1>1, <1>6 DEF Return, Goto, Load
<1>a. CASE Visit(v)
  <2>1. /\ pc[v] = "rest" /\ row # None /\ row.kind = "service"
        /\ row.status \in {"idle", "running"} /\ pc'[v] = row.status
        /\ loaded'[v] = row /\ UNCHANGED <<row, box, handle>>
        /\ \A h \in Handlers \ {v} : pc'[h] = pc[h] /\ loaded'[h] = loaded[h]
    BY <1>1, <1>5, <1>a DEF Visit, Load
  <2>2. handle[v] = None
    BY <2>1 DEF VisitInv
  <2>3. row.status = "idle" => ReapersRest
    BY DEF VisitInv, ReapersRest
  <2> QED
    BY <1>1, <1>2, <1>3, <2>1, <2>2, <2>3
    DEF VisitInv, Waking, PointsAt, ReapersRest, ServiceIs, Reachable, IsBoxOf
<1>b. CASE WakeStarts(v)
  <2> DEFINE addr == IF box.up THEN box.addr ELSE NewAddr
  <2>1. box \in Boxes /\ addr \in Ids \cup {Name} /\ box # None /\ IsBoxOf(row)
    BY <1>4, <1>b, NewAddrTyped DEF WakeStarts, IsBoxOf, Boxes, PointsAt
  <2>2. /\ box' = [box EXCEPT !.up = TRUE, !.addr = addr]
        /\ handle' = [handle EXCEPT ![v] = [cid |-> box.cid, addr |-> addr]]
        /\ pc[v] = "idle" /\ pc'[v] = "woken" /\ UNCHANGED <<row, loaded>>
        /\ \A h \in Handlers \ {v} : pc'[h] = pc[h]
    BY <1>1, <1>5, <1>b DEF WakeStarts
  <2>3. box'.cid = box.cid /\ box'.up /\ box'.addr = addr /\ box' \in Boxes
    BY <2>1, <2>2 DEF Boxes
  <2>4. box' # None
    BY <2>3, NoneAssumption, Zenon
  <2>5. box.up => box'.addr = box.addr
    BY <2>3
  <2>6. /\ handle'[v].addr = box'.addr
        /\ \A h \in Handlers \ {v} : handle'[h] = handle[h]
    BY <1>1, <2>2, <2>3
  <2>7. Reachable(handle[v].addr)'
    BY <2>3, <2>4, <2>6 DEF Reachable
  <2>8. \A a : Reachable(a) => Reachable(a)'
    BY <2>3, <2>4, <2>5 DEF Reachable
  <2>9. ReapersRest /\ (row.status = "idle" \/ row.fresh) /\ PointsAt(v)
    BY <1>4, <2>2 DEF VisitInv, Waking
  <2>10. row # None /\ \A w \in Reapers : pc'[w] = "rest"
    BY <1>3, <2>2, <2>9 DEF ReapersRest, PointsAt
  <2>11. \A u \in Visitors \ {v} :
           handle'[u] # None => Reachable(handle[u].addr)'
    BY <1>2, <2>6, <2>8 DEF VisitInv, Reachable
  <2>12. IsBoxOf(row)'
    BY <2>1, <2>2, <2>3, <2>4 DEF IsBoxOf
  <2>13. ServiceIs("running") => Reachable(row.addr)'
    BY <2>2, <2>8, <2>9 DEF VisitInv, Reachable
  <2> HIDE DEF addr
  <2>14. \A h \in Handlers : pc'[h] # "rest" => h \notin Owners /\ PointsAt(h)'
    BY <1>1, <2>2, <2>9 DEF VisitInv, PointsAt
  <2>15. \A u \in Visitors :
           /\ pc'[u] # "lost"
           /\ pc'[u] \in {"rest", "idle", "running"} => handle'[u] = None
    BY <1>2, <2>2, <2>6 DEF VisitInv
  <2>16. ReapersRest' /\ (row'.status = "idle" \/ row'.fresh)
    BY <2>2, <2>9, <2>10 DEF ReapersRest
  <2>17. row'.kind = "service" /\ row'.status \in {"running", "idle"}
    BY <2>2, <2>10 DEF VisitInv
  <2> QED
    BY <2>2, <2>7, <2>10, <2>11, <2>12, <2>13, <2>14, <2>15, <2>16, <2>17
    DEF VisitInv, ServiceIs
<1>c. CASE WakeMisses(v)
  BY <1>4, <1>c DEF WakeMisses, VisitInv, PointsAt, IsBoxOf
<1>d. CASE WakeCommits(v)
  <2>1. PointsAt(v) /\ StillThere(loaded[v]) /\ row \in Rows
    BY <1>4, <1>d DEF WakeCommits, PointsAt, StillThere
  <2>2. /\ row' = [row EXCEPT !.addr = handle[v].addr, !.status = "running",
                              !.fresh = TRUE]
        /\ pc[v] = "woken" /\ pc'[v] = "proxy"
        /\ UNCHANGED <<box, loaded, handle>>
        /\ \A h \in Handlers \ {v} : pc'[h] = pc[h]
    BY <1>5, <1>d, <2>1 DEF WakeCommits, Patch
  <2>3. handle[v] \in Handles /\ handle[v] # None
    BY <1>1, <2>2
  <2>4. /\ row'.id = row.id /\ row'.cid = row.cid /\ row'.kind = row.kind
        /\ row'.status = "running" /\ row'.fresh /\ row'.addr = handle[v].addr
        /\ row' \in Rows
    BY <2>1, <2>2, <2>3 DEF Rows, Handles
  <2>5. row' # None
    BY <2>4, NoneAssumption, Zenon
  <2>6. Reachable(row.addr)'
    BY <2>2, <2>3, <2>4 DEF VisitInv, Reachable
  <2>7. ReapersRest
    BY <2>2 DEF VisitInv, Waking
  <2>8. \A w \in Reapers : pc'[w] = "rest"
    BY <1>3, <2>2, <2>7 DEF ReapersRest
  <2>9. \A h \in Handlers : pc'[h] # "rest" => h \notin Owners /\ PointsAt(h)'
    BY <1>1, <2>1, <2>2, <2>4, <2>5 DEF VisitInv, PointsAt
  <2>10. \A u \in Visitors :
           /\ pc'[u] # "lost"
           /\ pc'[u] \in {"rest", "idle", "running"} => handle'[u] = None
           /\ handle'[u] # None => Reachable(handle[u].addr)'
    BY <1>2, <2>2 DEF VisitInv, Reachable
  <2>11. row'.kind = "service" /\ IsBoxOf(row)'
    BY <2>1, <2>2, <2>4, <2>5 DEF VisitInv, IsBoxOf, PointsAt
  <2> QED
    BY <2>4, <2>6, <2>8, <2>9, <2>10, <2>11 DEF VisitInv, ReapersRest
<1>e. CASE WakeGivesUp(v)
  BY <1>e DEF WakeGivesUp, VisitInv
<1>f. CASE Touch(v)
  <2>1. PointsAt(v) /\ StillThere(loaded[v]) /\ row \in Rows
    BY <1>4, <1>f DEF Touch, PointsAt, StillThere
  <2>2. /\ row' = [row EXCEPT !.fresh = TRUE]
        /\ pc[v] = "running" /\ pc'[v] = "proxy"
        /\ UNCHANGED <<box, loaded, handle>>
        /\ \A h \in Handlers \ {v} : pc'[h] = pc[h]
    BY <1>5, <1>f, <2>1 DEF Touch, Patch
  <2>3. /\ row'.id = row.id /\ row'.cid = row.cid /\ row'.kind = row.kind
        /\ row'.status = row.status /\ row'.fresh /\ row'.addr = row.addr
        /\ row' \in Rows
    BY <2>1, <2>2 DEF Rows
  <2>4. row' # None /\ row # None
    BY <2>1, <2>3, NoneAssumption, Zenon DEF PointsAt
  <2>5. handle[v] = None
    BY <2>2 DEF VisitInv
  <2>6. \A h \in Handlers : pc'[h] # "rest" => h \notin Owners /\ PointsAt(h)'
    BY <1>1, <2>1, <2>2, <2>3, <2>4 DEF VisitInv, PointsAt
  <2>7. \A u \in Visitors :
           /\ pc'[u] # "lost"
           /\ pc'[u] \in {"rest", "idle", "running"} => handle'[u] = None
           /\ Waking(u)' => ReapersRest'
           /\ handle'[u] # None => Reachable(handle[u].addr)'
    BY <1>2, <1>3, <2>2, <2>5 DEF VisitInv, Waking, Reachable, ReapersRest
  <2>8. \A w \in Reapers :
           /\ pc'[w] # "rest" => row'.status = "running"
           /\ pc'[w] = "stop" => Reachable(row.addr)'
           /\ pc'[w] = "mark" => ~box'.up
    BY <1>3, <2>2, <2>3 DEF VisitInv, Reachable
  <2>9. /\ row'.kind = "service" /\ row'.status \in {"running", "idle"}
        /\ IsBoxOf(row)'
        /\ (ReapersRest /\ ServiceIs("running") => Reachable(row.addr))'
    BY <1>3, <2>2, <2>3, <2>4
    DEF VisitInv, IsBoxOf, ServiceIs, Reachable, ReapersRest
  <2> QED
    BY <2>3, <2>6, <2>7, <2>8, <2>9 DEF VisitInv
<1>g. CASE Proxy(v)
  <2>1. UNCHANGED <<row, box>> /\ Return(v)
    BY <1>g DEF Proxy
  <2> QED
    BY <1>1, <1>2, <1>3, <1>6, <2>1
    DEF VisitInv, Waking, PointsAt, ReapersRest, ServiceIs, Reachable, IsBoxOf
<1> QED
  BY <1>a, <1>b, <1>c, <1>d, <1>e, <1>f, <1>g DEF VisitorStep, WakeRaises

(* A step of the reaper.                                                   *)
LEMMA VisitReaper ==
  ASSUME ~Faults, \A w, x \in Reapers : w = x, TypeInv, VisitInv,
         NEW w \in Reapers, ReaperStep(w)
  PROVE  VisitInv'
<1> USE DEF TypeInv, TypeOK
<1>1. w \in Handlers /\ w \notin Owners
  BY ConstantsAssumption DEF Handlers
<1>2. \A v \in Visitors : v \in Handlers /\ v # w
  BY ConstantsAssumption DEF Handlers
<1>3. pc[w] # "rest" => PointsAt(w)
  BY <1>1 DEF VisitInv
<1>4. ASSUME NEW to, Goto(w, to)
      PROVE  pc'[w] = to /\ \A h \in Handlers \ {w} : pc'[h] = pc[h]
  BY <1>1, <1>4 DEF Goto
<1>5. ASSUME pc[w] # "rest" PROVE ~ReapersRest /\ \A v \in Visitors : ~Waking(v)
  BY <1>5 DEF VisitInv, ReapersRest
<1>6. pc[w] = "rest" => ReapersRest
  BY DEF ReapersRest
<1>a. CASE Snapshot(w)
  <2>1. /\ pc[w] = "rest" /\ row # None /\ row.kind = "service"
        /\ row.status = "running" /\ ~row.fresh /\ pc'[w] = "stop"
        /\ loaded'[w] = row /\ UNCHANGED <<row, box, handle>>
        /\ \A h \in Handlers \ {w} : pc'[h] = pc[h] /\ loaded'[h] = loaded[h]
    BY <1>1, <1>4, <1>a DEF Snapshot, Load
  <2>2. Reachable(row.addr)
    BY <1>6, <2>1 DEF VisitInv, ServiceIs
  <2>3. \A v \in Visitors : ~Waking(v)
    BY <2>1 DEF VisitInv
  <2>4. \A v \in Visitors : ~Waking(v)'
    BY <1>2, <2>1, <2>3 DEF Waking
  <2>5. \A h \in Handlers : pc'[h] # "rest" => h \notin Owners /\ PointsAt(h)'
    BY <1>1, <2>1 DEF VisitInv, PointsAt
  <2>6. \A v \in Visitors :
           /\ pc'[v] # "lost"
           /\ pc'[v] \in {"rest", "idle", "running"} => handle'[v] = None
           /\ handle'[v] # None => Reachable(handle[v].addr)'
    BY <1>2, <2>1 DEF VisitInv, Reachable
  <2>7. \A x \in Reapers : x = w
    OBVIOUS
  <2>8. Reachable(row.addr)' /\ IsBoxOf(row)'
    BY <2>1, <2>2 DEF VisitInv, Reachable, IsBoxOf
  <2> QED
    BY <2>1, <2>4, <2>5, <2>6, <2>7, <2>8 DEF VisitInv
<1>b. CASE Stop(w)
  <2>1. /\ pc[w] = "stop" /\ pc'[w] = "mark" /\ UNCHANGED <<row, loaded, handle>>
        /\ \A h \in Handlers \ {w} : pc'[h] = pc[h]
    BY <1>4, <1>b DEF Stop
  <2>2. PointsAt(w) /\ IsBoxOf(row) /\ IsBoxOf(loaded[w]) /\ box \in Boxes
    BY <1>3, <2>1 DEF VisitInv, PointsAt, IsBoxOf
  <2>3. box' = [box EXCEPT !.up = FALSE]
    BY <1>b, <2>2 DEF Stop
  <2>4. box' \in Boxes /\ box'.cid = box.cid /\ ~box'.up
    BY <2>2, <2>3 DEF Boxes
  <2>5. box' # None
    BY <2>4, NoneAssumption, Zenon
  <2>6. IsBoxOf(row)'
    BY <2>1, <2>2, <2>4, <2>5 DEF IsBoxOf
  <2>7. \A v \in Visitors : ~Waking(v) /\ handle[v] = None
    BY <1>2, <1>5, <2>1 DEF Waking, VisitInv, VisitorPlaces
  <2>8. \A v \in Visitors :
          /\ ~Waking(v)' /\ handle'[v] = None /\ pc'[v] # "lost"
    BY <1>2, <2>1, <2>7 DEF Waking, VisitInv
  <2>9. \A h \in Handlers : pc'[h] # "rest" => h \notin Owners /\ PointsAt(h)'
    BY <1>1, <2>1, <2>2 DEF VisitInv, PointsAt
  <2>10. \A x \in Reapers : x = w
    OBVIOUS
  <2>11. /\ row'.kind = "service" /\ row'.status = "running" /\ ~ReapersRest'
    BY <2>1, <2>2 DEF VisitInv, ReapersRest, PointsAt
  <2> QED
    BY <2>1, <2>4, <2>6, <2>8, <2>9, <2>10, <2>11 DEF VisitInv
<1>c. CASE Mark(w)
  <2>1. /\ pc[w] = "mark" /\ pc'[w] = "rest" /\ box' = box
        /\ \A h \in Handlers \ {w} :
             pc'[h] = pc[h] /\ loaded'[h] = loaded[h] /\ handle'[h] = handle[h]
    BY <1>1, <1>c DEF Mark, Return, Goto, Load
  <2>2. PointsAt(w) /\ row \in Rows
    BY <1>3, <2>1 DEF PointsAt
  <2>3. row' = [row EXCEPT !.status = "idle"]
    BY <1>c, <2>2 DEF Mark, Patch, StillThere, PointsAt
  <2>4. /\ row' \in Rows /\ row'.id = row.id /\ row'.cid = row.cid
        /\ row'.kind = row.kind /\ row'.status = "idle"
    BY <2>2, <2>3 DEF Rows
  <2>5. row' # None
    BY <2>4, NoneAssumption, Zenon
  <2>6. \A x \in Reapers : pc'[x] = "rest"
    BY <2>1
  <2>7. \A h \in Handlers : pc'[h] # "rest" => h \notin Owners /\ PointsAt(h)'
    BY <1>1, <2>1, <2>4, <2>5 DEF VisitInv, PointsAt
  <2>8. \A v \in Visitors :
           /\ pc'[v] # "lost"
           /\ pc'[v] \in {"rest", "idle", "running"} => handle'[v] = None
           /\ handle'[v] # None => Reachable(handle[v].addr)'
    BY <1>2, <2>1 DEF VisitInv, Reachable
  <2>9. row'.kind = "service" /\ IsBoxOf(row)'
    BY <2>1, <2>2, <2>4, <2>5 DEF VisitInv, IsBoxOf, PointsAt
  <2> QED
    BY <2>4, <2>6, <2>7, <2>8, <2>9
    DEF VisitInv, ReapersRest, ServiceIs, Reachable
<1> QED
  BY <1>a, <1>b, <1>c DEF ReaperStep, StopRaises

LEMMA VisitStep ==
  ASSUME ~Faults, \A w, x \in Reapers : w = x
  PROVE  TypeInv /\ (Undisturbed => VisitInv) /\ [Next]_vars
           => (Undisturbed => VisitInv)'
<1> SUFFICES ASSUME TypeInv, Undisturbed => VisitInv, [Next]_vars, Undisturbed'
             PROVE  VisitInv'
  OBVIOUS
<1>1. events \in Nat /\ events' = 0
  BY ConstantsAssumption DEF TypeInv, TypeOK, Undisturbed
<1>2. ASSUME NEW o \in Owners, NEW j \in Jobs, Call(o, j) PROVE FALSE
  BY <1>1, <1>2 DEF Call
<1>3. ASSUME NEW h \in Handlers, Crash(h) PROVE FALSE
  BY <1>1, <1>3 DEF Crash
<1>4. events = 0
  BY <1>1, <1>2, <1>3 DEF Next, OwnerStep, CommitSite, RemoveOld, RemoveRaises,
     ClearName, StartService, StartFails, StartLeavesBox, CommitService,
     CommitDelete, CommitPurge, Visit, VisitorStep, WakeStarts, WakeMisses,
     WakeRaises, WakeCommits, WakeGivesUp, Touch, Proxy, ReaperStep, Snapshot, Stop,
     StopRaises, Mark, Locked, Age, Outage, Quiet, vars
<1>5. VisitInv
  BY <1>4 DEF Undisturbed
<1>6. \A o \in Owners : pc[o] = "rest"
  BY <1>5 DEF VisitInv, Handlers
<1>7. ASSUME NEW o \in Owners, OwnerStep(o) PROVE FALSE
  BY <1>6, <1>7 DEF OwnerStep, CommitSite, RemoveOld, RemoveRaises, ClearName,
     StartService, StartFails, StartLeavesBox, CommitService, CommitDelete, CommitPurge
<1>8. ASSUME NEW h \in Handlers, Locked(h) PROVE FALSE
  BY <1>6, <1>8 DEF Locked, LockHeld
<1>9. CASE Age
  <2>1. row \in Rows /\ row' = [row EXCEPT !.fresh = FALSE]
    BY <1>9 DEF Age, TypeInv, TypeOK
  <2>2. /\ row' \in Rows /\ row'.id = row.id /\ row'.cid = row.cid
        /\ row'.kind = row.kind /\ row'.status = row.status
        /\ row'.addr = row.addr
    BY <2>1 DEF Rows
  <2>3. row' # None /\ row # None
    BY <2>1, <2>2, NoneAssumption, Zenon
  <2>4. /\ UNCHANGED <<box, pc, loaded, handle>>
        /\ \A v \in Visitors : pc[v] = "rest"
    BY <1>9 DEF Age
  <2>5. IsBoxOf(row)' /\ (\A a : Reachable(a)' = Reachable(a))
    BY <1>5, <2>2, <2>3, <2>4 DEF VisitInv, IsBoxOf, Reachable
  <2>6. \A h \in Handlers : pc'[h] # "rest" => h \notin Owners /\ PointsAt(h)'
    BY <1>5, <2>2, <2>3, <2>4 DEF VisitInv, PointsAt
  <2>7. \A v \in Visitors : ~Waking(v)' /\ handle'[v] = None /\ pc'[v] = "rest"
    BY <1>5, <2>4 DEF VisitInv, Waking
  <2>8. \A w \in Reapers :
          /\ pc'[w] # "rest" => row'.status = "running"
          /\ pc'[w] = "stop" => Reachable(row.addr)'
          /\ pc'[w] = "mark" => ~box'.up
    BY <1>5, <2>2, <2>4, <2>5 DEF VisitInv, Reachable
  <2>9. /\ row'.kind = "service" /\ row'.status \in {"running", "idle"}
        /\ (ReapersRest /\ ServiceIs("running"))' => Reachable(row.addr)'
    BY <1>5, <2>2, <2>3, <2>4, <2>5
    DEF VisitInv, ReapersRest, ServiceIs, Reachable
  <2> QED
    BY <2>5, <2>6, <2>7, <2>8, <2>9 DEF VisitInv
<1>10. CASE UNCHANGED vars
  BY <1>5, <1>10 DEF vars, VisitInv, Waking, PointsAt, IsBoxOf, Reachable,
     ReapersRest, ServiceIs
<1>11. CASE Quiet
  BY <1>10, <1>11 DEF Quiet
<1>12. ~Outage
  BY DEF Outage
<1> QED
  BY <1>2, <1>3, <1>5, <1>7, <1>8, <1>9, <1>10, <1>11, <1>12, VisitVisitor, VisitReaper
  DEF Next

(* With one reaper, and a daemon that obeys: a request that woke the       *)
(* service finds it up when it is proxied, however many visitors and       *)
(* passes of the reaper there are ...                                      *)
THEOREM WakingIsInvisible ==
  ASSUME ~Faults, \A w, x \in Reapers : w = x
  PROVE  Spec => []WakeIsInvisible
<1>1. (Undisturbed => VisitInv) => WakeIsInvisible
  BY DEF VisitInv, WakeIsInvisible
<1> QED
  BY <1>1, TypeInit, TypeStep, VisitInit, VisitStep, PTL DEF Spec

(* ... and what the table lists as running is reachable at its address.    *)
THEOREM ListedIsReachable ==
  ASSUME ~Faults, \A w, x \in Reapers : w = x
  PROVE  Spec => []RunningIsReachable
<1>1. (Undisturbed => VisitInv) => RunningIsReachable
  BY DEF VisitInv, RunningIsReachable
<1> QED
  BY <1>1, TypeInit, TypeStep, VisitInit, VisitStep, PTL DEF Spec
===============================================================================
