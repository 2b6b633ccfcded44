--------------------------- MODULE ServiceLifecycle ---------------------------
(***************************************************************************)
(* One published name of one account, from deploy to delete: the row of    *)
(* `deployments`, the container behind it, and everybody who changes       *)
(* either.                                                                 *)
(*                                                                         *)
(*   owners    the account's own calls: deploy_service, deploy_site and    *)
(*             delete_deployment of app/operations.py, purge_user of       *)
(*             app/accounts.py                                             *)
(*   visitors  requests that app/hosting.py proxies to the container,      *)
(*             waking it when it is idle                                   *)
(*   reapers   the background loop of app/reaper.py, one per worker        *)
(*                                                                         *)
(* A handler's SELECT, its calls of the Docker driver and its commit are   *)
(* steps of their own.  What it read stays in `loaded`: the row in the     *)
(* session, not the one in the database.                                   *)
(*                                                                         *)
(* Docker names the container after the account and the deployment, so at  *)
(* most one exists at a time.                                              *)
(***************************************************************************)
EXTENDS Integers

CONSTANTS
  Owners, Visitors, Reapers,
  Ids,         (* row ids, container ids and published ports                *)
  Null,        (* the SQL NULL                                              *)
  Name,        (* the container's name, its host on the sandbox network     *)
  None,        (* no row, no container, no handle                           *)
  Published,   (* TRUE: ports are published on the host, a new one at every *)
               (* start; FALSE: the proxy reaches the container by name     *)
  Serialised,  (* TRUE: SQLite, owners call with an API key, whose          *)
               (* last_used_at takes the write lock until the commit;       *)
               (* FALSE: READ COMMITTED, and on SQLite a cookie session or  *)
               (* the operator's delete_user among the owners               *)
  Crashes,     (* TRUE: workers may be killed                               *)
  Faults,      (* TRUE: calls of the daemon or of the broker may fail       *)
  MaxEvents    (* bound: owners' calls and kills in a behaviour             *)

Handlers == Owners \cup Visitors \cup Reapers

ASSUME ConstantsAssumption ==
  /\ Owners \cap Visitors = {} /\ Owners \cap Reapers = {}
  /\ Visitors \cap Reapers = {}
  /\ Ids \subseteq Nat \ {0} /\ Null = 0 /\ Name \in Nat /\ Name \notin Ids
  /\ Name # Null
  /\ {Published, Serialised, Crashes, Faults} \subseteq BOOLEAN
  /\ MaxEvents \in Nat

VARIABLES
  account,   (* the account exists                                          *)
  row,       (* the committed row, or None                                  *)
  box,       (* the container, or None                                      *)
  pc,        (* where each handler is                                       *)
  job,       (* what each owner's call does                                 *)
  loaded,    (* the row as the handler's session read it, or None           *)
  handle,    (* the ServiceHandle the driver returned, or None              *)
  failing,   (* the daemon or the broker is out of reach                    *)
  events     (* how many owners' calls and kills there were                 *)

vars == <<account, row, box, pc, job, loaded, handle, failing, events>>

----------------------------------------------------------------------------
Rows == [id : Ids, kind : {"static", "service"},
         status : {"live", "running", "idle", "stopped"},
         cid : Ids \cup {Null}, addr : Ids \cup {Null, Name}, fresh : BOOLEAN]
Boxes == [cid : Ids, up : BOOLEAN, addr : Ids \cup {Name}]
Handles == [cid : Ids, addr : Ids \cup {Name}]
ASSUME NoneAssumption == None \notin Rows \cup Boxes \cup Handles

Jobs == {"service", "site", "delete", "purge"}
Places == {"rest", "called", "removed", "cleared", "started",
           "idle", "woken", "lost", "running", "proxy", "stop", "mark"}

(* Ids somebody still refers to: of rows, of containers, and ports.        *)
Some(S) == S \ {None}
SeenRows  == Some({row} \cup {loaded[h] : h \in Handlers})
SeenBoxes == Some({box} \cup {handle[h] : h \in Handlers})
UsedRowIds == {r.id : r \in SeenRows}
UsedCids   == {r.cid : r \in SeenRows} \cup {b.cid : b \in SeenBoxes}
UsedPorts  == {r.addr : r \in SeenRows} \cup {b.addr : b \in SeenBoxes}
NewId(used) == CHOOSE i \in Ids : i \notin used

(* Bound: ids do not run out.                                              *)
IdsLeft == \A used \in {UsedRowIds, UsedCids, UsedPorts} : Ids \ used # {}

NewAddr == IF Published THEN NewId(UsedPorts) ELSE Name

(* The row a session loaded is still in the database.                      *)
StillThere(old) == row # None /\ old # None /\ row.id = old.id

(* The container a session's row points to is the one that exists.         *)
IsBoxOf(old) == box # None /\ old # None /\ old.cid = box.cid

(* A session writes the columns that differ from what it loaded.           *)
Flush(old, new) == [c \in DOMAIN row |-> IF new[c] # old[c] THEN new[c] ELSE row[c]]

(* Commit of a session that loaded `old` (or nothing) and leaves `new`: an *)
(* INSERT fails on the unique name or the missing account, an UPDATE on a  *)
(* row that is gone; then nothing is written.                              *)
Save(old, new) ==
  row' = IF old = None
           THEN IF account /\ row = None THEN new ELSE row
           ELSE IF StillThere(old) THEN Flush(old, new) ELSE row

(* UPDATE ... WHERE id = ...: no row, no effect.                           *)
Patch(old, new) == row' = IF StillThere(old) THEN new ELSE row

(* Mutant of Blank: the column has lost its default.                       *)
Blank_NoDefault ==
  [id |-> NewId(UsedRowIds), kind |-> "static", status |-> "stopped",
   cid |-> None, addr |-> Null, fresh |-> TRUE]

(* A new row.                                                              *)
Blank == [id |-> NewId(UsedRowIds), kind |-> "static", status |-> "stopped",
          cid |-> Null, addr |-> Null, fresh |-> TRUE]
Edited(old) == IF old = None THEN Blank ELSE old

Goto(h, to) == pc' = [pc EXCEPT ![h] = to]
Load(h, r) == loaded' = [loaded EXCEPT ![h] = r]

(* The handler returns or raises; its session closes.                      *)
Return(h) ==
  /\ Goto(h, "rest")
  /\ Load(h, None)
  /\ handle' = [handle EXCEPT ![h] = None]

LockHeld == Serialised /\ \E o \in Owners : pc[o] # "rest"

----------------------------------------------------------------------------
(* The owner's calls                                                       *)

(* Authentication and the SELECT of the row.                               *)
Call(o, j) ==
  /\ pc[o] = "rest" /\ account /\ ~LockHeld /\ events < MaxEvents
  /\ j = "delete" => row # None
  /\ job' = [job EXCEPT ![o] = j]
  /\ Load(o, row)
  /\ Goto(o, "called")
  /\ events' = events + 1
  /\ UNCHANGED <<account, row, box, handle, failing>>

(* deploy_site touches no container.                                       *)
CommitSite(o) ==
  /\ pc[o] = "called" /\ job[o] = "site" /\ IdsLeft
  /\ Save(loaded[o], [Edited(loaded[o]) EXCEPT !.kind = "static",
                                               !.status = "live"])
  /\ Return(o)
  /\ UNCHANGED <<account, box, job, events, failing>>

(* Mutant of RemoveOld: only a redeploy removes the container.             *)
RemoveOld_RedeployOnly(o) ==
  /\ pc[o] = "called" /\ job[o] # "site"
  /\ box' = IF job[o] = "service" /\ IsBoxOf(loaded[o]) THEN None ELSE box
  /\ Goto(o, "removed")
  /\ UNCHANGED <<account, row, job, loaded, handle, events, failing>>

(* `if existing.container_id: remove_service`.  The driver swallows what   *)
(* goes wrong once it has the daemon; purge_user logs everything.          *)
RemoveOld(o) ==
  /\ pc[o] = "called" /\ job[o] # "site"
  /\ \/ box' = IF IsBoxOf(loaded[o]) THEN None ELSE box
     \/ Faults /\ box' = box
  /\ Goto(o, "removed")
  /\ UNCHANGED <<account, row, job, loaded, handle, events, failing>>

(* No daemon, no broker, or its answer is lost: the call raises before the *)
(* row is touched.                                                         *)
RemoveRaises(o) ==
  /\ failing /\ pc[o] = "called" /\ job[o] \in {"service", "delete"}
  /\ loaded[o] # None /\ loaded[o].cid # Null
  /\ box' \in IF IsBoxOf(loaded[o]) THEN {box, None} ELSE {box}
  /\ Return(o)
  /\ UNCHANGED <<account, row, job, events, failing>>

(* start_service first removes whatever has the container's name; errors   *)
(* are swallowed.                                                          *)
ClearName(o) ==
  /\ pc[o] = "removed" /\ job[o] = "service"
  /\ \/ box' = None
     \/ Faults /\ box' = box
  /\ Goto(o, "cleared")
  /\ UNCHANGED <<account, row, job, loaded, handle, events, failing>>

StartService(o) ==
  LET cid == NewId(UsedCids) IN
  /\ pc[o] = "cleared" /\ box = None /\ IdsLeft
  /\ box' = [cid |-> cid, up |-> TRUE, addr |-> NewAddr]
  /\ handle' = [handle EXCEPT ![o] = [cid |-> cid, addr |-> NewAddr]]
  /\ Goto(o, "started")
  /\ UNCHANGED <<account, row, job, loaded, events, failing>>

(* The name is taken again, or the daemon fails: the call raises.          *)
StartFails(o) ==
  /\ \/ pc[o] = "cleared" /\ (box # None \/ Faults)
     \/ pc[o] = "removed" /\ job[o] = "service" /\ Faults
  /\ Return(o)
  /\ UNCHANGED <<account, row, box, job, events, failing>>

(* The container was created, then the start, or the broker's answer,      *)
(* failed, and so did the clean-up: the container stays behind.            *)
StartLeavesBox(o) ==
  /\ Faults /\ pc[o] = "cleared" /\ box = None /\ IdsLeft
  /\ \E up \in BOOLEAN :
       box' = [cid |-> NewId(UsedCids), up |-> up, addr |-> NewAddr]
  /\ Return(o)
  /\ UNCHANGED <<account, row, job, events, failing>>

(* Mutant of CommitService: a redeploy keeps the old container id.         *)
CommitService_OldId(o) ==
  /\ pc[o] = "started" /\ IdsLeft
  /\ Save(loaded[o], [Edited(loaded[o]) EXCEPT
                        !.kind = "service", !.status = "running",
                        !.cid = IF @ = Null THEN handle[o].cid ELSE @,
                        !.addr = handle[o].addr])
  /\ Return(o)
  /\ UNCHANGED <<account, box, job, events, failing>>

CommitService(o) ==
  /\ pc[o] = "started" /\ IdsLeft
  /\ Save(loaded[o], [Edited(loaded[o]) EXCEPT
                        !.kind = "service", !.status = "running",
                        !.cid = handle[o].cid, !.addr = handle[o].addr])
  /\ Return(o)
  /\ UNCHANGED <<account, box, job, events, failing>>

CommitDelete(o) ==
  /\ pc[o] = "removed" /\ job[o] = "delete"
  /\ Patch(loaded[o], None)
  /\ Return(o)
  /\ UNCHANGED <<account, box, job, events, failing>>

(* purge_user deletes by user_id: any row that is there now.               *)
CommitPurge(o) ==
  /\ pc[o] = "removed" /\ job[o] = "purge"
  /\ row' = None /\ account' = FALSE
  /\ Return(o)
  /\ UNCHANGED <<box, job, events, failing>>

----------------------------------------------------------------------------
(* Visitors                                                                *)

Visit(v) ==
  /\ pc[v] = "rest" /\ account /\ row # None
  /\ row.kind = "service" /\ row.status \in {"idle", "running"}
  /\ Load(v, row)
  /\ Goto(v, row.status)
  /\ UNCHANGED <<account, row, box, job, handle, events, failing>>

(* Mutant of WakeStarts: the port is not read again after the start.       *)
WakeStarts_OldPort(v) ==
  /\ pc[v] = "idle" /\ IsBoxOf(loaded[v]) /\ IdsLeft
  /\ box' = [box EXCEPT !.up = TRUE,
                        !.addr = IF box.up THEN box.addr ELSE NewAddr]
  /\ handle' = [handle EXCEPT ![v] = [cid |-> box.cid, addr |-> box.addr]]
  /\ Goto(v, "woken")
  /\ UNCHANGED <<account, row, job, loaded, events, failing>>

(* wake_service found the container; starting one that runs does nothing.  *)
WakeStarts(v) ==
  LET addr == IF box.up THEN box.addr ELSE NewAddr IN
  /\ pc[v] = "idle" /\ IsBoxOf(loaded[v]) /\ IdsLeft
  /\ box' = [box EXCEPT !.up = TRUE, !.addr = addr]
  /\ \/ /\ handle' = [handle EXCEPT ![v] = [cid |-> box.cid, addr |-> addr]]
        /\ Goto(v, "woken")
     \/ (* the new port is not bound, or the broker's answer is lost *)
        Faults /\ Goto(v, "lost") /\ UNCHANGED handle
  /\ UNCHANGED <<account, row, job, loaded, events, failing>>

(* The container is gone, or the daemon does not say.                      *)
WakeMisses(v) ==
  /\ pc[v] = "idle" /\ (Faults \/ ~IsBoxOf(loaded[v]))
  /\ Goto(v, "lost")
  /\ UNCHANGED <<account, row, box, job, loaded, handle, events, failing>>

(* container.start() raises, or the broker rejects the call: not an error  *)
(* wake catches, so the row stays as it is.                                *)
WakeRaises(v) ==
  /\ Faults /\ pc[v] = "idle"
  /\ Return(v)
  /\ UNCHANGED <<account, row, box, job, events, failing>>

(* Mutants of WakeCommits: the address, or the status, is not written.     *)
WakeCommits_OldAddress(v) ==
  /\ pc[v] = "woken" /\ ~LockHeld
  /\ Patch(loaded[v], [row EXCEPT !.status = "running", !.fresh = TRUE])
  /\ IF StillThere(loaded[v]) THEN Goto(v, "proxy") /\ UNCHANGED <<loaded, handle>>
                              ELSE Return(v)
  /\ UNCHANGED <<account, box, job, events, failing>>
WakeCommits_StillIdle(v) ==
  /\ pc[v] = "woken" /\ ~LockHeld
  /\ Patch(loaded[v], [row EXCEPT !.addr = handle[v].addr, !.fresh = TRUE])
  /\ IF StillThere(loaded[v]) THEN Goto(v, "proxy") /\ UNCHANGED <<loaded, handle>>
                              ELSE Return(v)
  /\ UNCHANGED <<account, box, job, events, failing>>

(* The address and the status are written back; a row that is gone makes   *)
(* the flush raise.                                                        *)
WakeCommits(v) ==
  /\ pc[v] = "woken" /\ ~LockHeld
  /\ Patch(loaded[v], [row EXCEPT !.addr = handle[v].addr,
                                  !.status = "running", !.fresh = TRUE])
  /\ IF StillThere(loaded[v]) THEN Goto(v, "proxy") /\ UNCHANGED <<loaded, handle>>
                              ELSE Return(v)
  /\ UNCHANGED <<account, box, job, events, failing>>

WakeGivesUp(v) ==
  /\ pc[v] = "lost" /\ ~LockHeld
  /\ Patch(loaded[v], [row EXCEPT !.status = "stopped"])
  /\ Return(v)
  /\ UNCHANGED <<account, box, job, events, failing>>

Touch(v) ==
  /\ pc[v] = "running" /\ ~LockHeld
  /\ Patch(loaded[v], [row EXCEPT !.fresh = TRUE])
  /\ Goto(v, "proxy")
  /\ UNCHANGED <<account, box, job, loaded, handle, events, failing>>

(* The request is sent to the address, and served or refused.              *)
Proxy(v) ==
  /\ pc[v] = "proxy"
  /\ Return(v)
  /\ UNCHANGED <<account, row, box, job, events, failing>>

----------------------------------------------------------------------------
(* Reapers                                                                 *)

(* reap_once collects its candidates in a session of its own.              *)
Snapshot(w) ==
  /\ pc[w] = "rest" /\ row # None
  /\ row.kind = "service" /\ row.status = "running" /\ ~row.fresh
  /\ Load(w, row)
  /\ Goto(w, "stop")
  /\ UNCHANGED <<account, row, box, job, handle, events, failing>>

(* Mutant of Stop: a container that is gone raises, the pass skips it.     *)
Stop_MissingRaises(w) ==
  /\ pc[w] = "stop"
  /\ IF IsBoxOf(loaded[w])
       THEN /\ box' = [box EXCEPT !.up = FALSE]
            /\ Goto(w, "mark") /\ UNCHANGED <<loaded, handle>>
       ELSE Return(w) /\ UNCHANGED box
  /\ UNCHANGED <<account, row, job, events, failing>>

(* stop_service.  The driver swallows what goes wrong once it has the      *)
(* daemon.                                                                 *)
Stop(w) ==
  /\ pc[w] = "stop"
  /\ \/ box' = IF IsBoxOf(loaded[w]) THEN [box EXCEPT !.up = FALSE] ELSE box
     \/ Faults /\ box' = box
  /\ Goto(w, "mark")
  /\ UNCHANGED <<account, row, job, loaded, handle, events, failing>>

(* No daemon, no broker, or its answer is lost: the pass logs it and goes  *)
(* on without marking the row.                                             *)
StopRaises(w) ==
  /\ failing /\ pc[w] = "stop"
  /\ box' \in IF IsBoxOf(loaded[w]) THEN {box, [box EXCEPT !.up = FALSE]}
                                    ELSE {box}
  /\ Return(w)
  /\ UNCHANGED <<account, row, job, events, failing>>

Mark(w) ==
  /\ pc[w] = "mark" /\ ~LockHeld
  /\ Patch(loaded[w], [row EXCEPT !.status = "idle"])
  /\ Return(w)
  /\ UNCHANGED <<account, box, job, events, failing>>

----------------------------------------------------------------------------
(* The surroundings                                                        *)

(* An UPDATE waited busy_timeout for an owner's transaction and raises.    *)
Locked(h) ==
  /\ LockHeld /\ pc[h] \in {"woken", "lost", "running", "mark"}
  /\ Return(h)
  /\ UNCHANGED <<account, row, box, job, events, failing>>

(* The handler's worker is killed.                                         *)
Crash(h) ==
  /\ Crashes /\ pc[h] # "rest" /\ events < MaxEvents
  /\ Return(h)
  /\ events' = events + 1
  /\ UNCHANGED <<account, row, box, job, failing>>

(* The idle window passes over the last visit.  It is minutes long: a      *)
(* request reaches its container in less.                                  *)
Age ==
  /\ row # None /\ row.fresh
  /\ \A v \in Visitors : pc[v] = "rest"
  /\ row' = [row EXCEPT !.fresh = FALSE]
  /\ UNCHANGED <<account, box, pc, job, loaded, handle, events, failing>>

(* The daemon, or the broker, gets out of reach, or back.                  *)
Outage ==
  /\ Faults
  /\ failing' = ~failing
  /\ UNCHANGED <<account, row, box, pc, job, loaded, handle, events>>

Quiet ==
  /\ \A h \in Handlers : pc[h] = "rest"
  /\ UNCHANGED vars

----------------------------------------------------------------------------
(* Nothing is deployed, or a service has just been.                        *)
Init ==
  /\ account = TRUE
  /\ pc = [h \in Handlers |-> "rest"]
  /\ job = [o \in Owners |-> "site"]
  /\ loaded = [h \in Handlers |-> None]
  /\ handle = [h \in Handlers |-> None]
  /\ \/ row = None /\ box = None
     \/ \E i \in Ids :
          LET addr == IF Published THEN i ELSE Name IN
          /\ i = NewId({})
          /\ box = [cid |-> i, up |-> TRUE, addr |-> addr]
          /\ row = [id |-> i, kind |-> "service", status |-> "running",
                    cid |-> i, addr |-> addr, fresh |-> TRUE]
  /\ failing = FALSE
  /\ events = 0

OwnerStep(o) ==
  \/ CommitSite(o) \/ RemoveOld(o) \/ RemoveRaises(o) \/ ClearName(o)
  \/ StartService(o) \/ StartFails(o) \/ StartLeavesBox(o)
  \/ CommitService(o) \/ CommitDelete(o) \/ CommitPurge(o)

VisitorStep(v) ==
  \/ WakeStarts(v) \/ WakeMisses(v) \/ WakeRaises(v) \/ WakeCommits(v)
  \/ WakeGivesUp(v) \/ Touch(v) \/ Proxy(v)

ReaperStep(w) == Snapshot(w) \/ Stop(w) \/ StopRaises(w) \/ Mark(w)

Next ==
  \/ \E o \in Owners : (\E j \in Jobs : Call(o, j)) \/ OwnerStep(o)
  \/ \E v \in Visitors : Visit(v) \/ VisitorStep(v)
  \/ \E w \in Reapers : ReaperStep(w)
  \/ \E h \in Handlers : Locked(h) \/ Crash(h)
  \/ Age \/ Outage \/ Quiet

(* Handlers under way go on, every reaper keeps making passes, time        *)
(* passes.  Nothing makes an owner call or a visitor come.                 *)
Fairness ==
  /\ \A o \in Owners : WF_vars(OwnerStep(o))
  /\ \A v \in Visitors : WF_vars(VisitorStep(v))
  /\ \A w \in Reapers : WF_vars(ReaperStep(w))
  /\ WF_vars(Age)

Spec == Init /\ [][Next]_vars /\ Fairness

----------------------------------------------------------------------------
(* Properties                                                              *)

TypeOK ==
  /\ account \in BOOLEAN
  /\ row \in Rows \cup {None}
  /\ box \in Boxes \cup {None}
  /\ pc \in [Handlers -> Places]
  /\ job \in [Owners -> Jobs]
  /\ loaded \in [Handlers -> Rows \cup {None}]
  /\ handle \in [Handlers -> Handles \cup {None}]
  /\ failing \in BOOLEAN
  /\ events \in 0..MaxEvents

OwnersRest == \A o \in Owners : pc[o] = "rest"
ReapersRest == \A w \in Reapers : pc[w] = "rest"
NobodyVisits == \A v \in Visitors : pc[v] = "rest"
ServiceIs(status) == row # None /\ row.kind = "service" /\ row.status = status
Reachable(addr) == box # None /\ box.up /\ box.addr = addr

(* "a database row is the only handle we have on a container": no          *)
(* container is left without a row that points at it.                      *)
NoStrayContainer == OwnersRest /\ box # None => row # None /\ row.cid = box.cid

(* A service that sleeps can be woken: its container still exists.         *)
IdleCanBeWoken == OwnersRest /\ ServiceIs("idle") => IsBoxOf(row)

(* No owner has called and no worker was killed.  An owner's call takes    *)
(* the container away from under the visitors; what they and the reaper    *)
(* promise each other, they promise while the deployment stays as it is.   *)
Undisturbed == events = 0

(* "The visitor sees a slow page load, not an error": a request that woke  *)
(* the service finds it up when it is proxied.                             *)
WakeIsInvisible ==
  Undisturbed => \A v \in Visitors :
    pc[v] = "proxy" /\ handle[v] # None => Reachable(handle[v].addr)

(* "Idling costs latency, not availability": unless a reaper is at it, a   *)
(* service listed as running is reachable where the proxy looks for it.    *)
RunningIsReachable ==
  Undisturbed /\ ReapersRest /\ ServiceIs("running") => Reachable(row.addr)

(* "Stop every service with no traffic for longer than the idle window":   *)
(* when visits cease, the container of a service stops.                    *)
UnusedIsStopped ==
  [](Undisturbed) /\ <>[]NobodyVisits =>
    (row # None /\ row.kind = "service" /\ IsBoxOf(row) /\ box.up
       ~> row = None \/ row.kind # "service" \/ ~(IsBoxOf(row) /\ box.up))

(* What NoStrayContainer and IdleCanBeWoken rest on: between owners' calls *)
(* row and container match; during a call the session's row is the         *)
(* database's, and the container is where the call has got to.             *)
Matched ==
  /\ row = None => box = None
  /\ row # None => IF row.cid = Null THEN box = None ELSE IsBoxOf(row)
  /\ row # None /\ row.kind = "service" => row.cid # Null
Underway(o) ==
  /\ account
  /\ row = None <=> loaded[o] = None
  /\ row # None => \A c \in {"id", "kind", "cid"} : row[c] = loaded[o][c]
  /\ pc[o] = "called" => Matched
  /\ pc[o] \in {"removed", "cleared"} => box = None
  /\ pc[o] = "started" => /\ job[o] = "service"
                          /\ handle[o] # None /\ box # None
                          /\ box.cid = handle[o].cid
CallInv ==
  /\ \A o, p \in Owners : pc[o] # "rest" /\ pc[p] # "rest" => o = p
  /\ OwnersRest => Matched
  /\ \A o \in Owners : pc[o] # "rest" => Underway(o)

(* Whatever failed or was killed, the table does not list a dead service   *)
(* as running for ever: when visits cease and the daemon can be reached (a *)
(* pass skips the service whenever stop_service raises), it is corrected.  *)
DeadIsNoticed ==
  <>[]NobodyVisits /\ <>[](~failing) =>
    (ServiceIs("running") /\ ~Reachable(row.addr)
       ~> ~ServiceIs("running") \/ Reachable(row.addr))
===============================================================================
