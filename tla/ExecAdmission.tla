---------------------------- MODULE ExecAdmission ----------------------------
(***************************************************************************)
(* Admission control of sandbox runs: app/scheduler.py together with the   *)
(* part of app/operations.py (run_code) that calls it and of the sandbox   *)
(* drivers that runs the container.                                        *)
(*                                                                         *)
(* Every HTTP, MCP or A2A call that runs code is a request.  A request     *)
(* takes a row of exec_slots before it starts a container and deletes the  *)
(* row afterwards.  Requests are coroutines of several uvicorn workers;    *)
(* they share nothing but the database, so every statement a request       *)
(* sends is a step of its own.                                             *)
(*                                                                         *)
(* Time is a clock of ticks (a tick is the five seconds of SQLite's        *)
(* busy_timeout), advanced by Tick.                                        *)
(***************************************************************************)
EXTENDS SlotLimits

CONSTANTS
  QueueWait,     (* settings.queue_wait_seconds                             *)
  Timeout,       (* the run's own timeout_s                                 *)
  Grace,         (* SLOT_GRACE_SECONDS                                      *)
  BusyTimeout,   (* how long a statement waits for SQLite's write lock      *)
  Lag,           (* longest a runnable or sleeping coroutine is left alone  *)
  Serialised,    (* TRUE: SQLite, one writer; FALSE: READ COMMITTED         *)
  Remote,        (* TRUE: the broker runs the containers (RemoteDriver)     *)
  Crashes,       (* TRUE: workers may be killed                             *)
  OtherWriters,  (* TRUE: the rest of the application takes the write lock  *)
  Deletable,     (* bound: the accounts that may be deleted                 *)
  LastArrival,   (* bound: no request arrives later                         *)
  MaxRun,        (* bound: the clock waits for older checks and runs        *)
  MaxTime,       (* bound: the clock stops here                             *)
  None           (* nobody holds the write lock                             *)

ASSUME ConstantsAssumption ==
  /\ None \notin Requests /\ "app" \notin Requests /\ None # "app"
  /\ QueueWait \in Nat /\ Timeout \in Nat \ {0} /\ Grace \in Nat
  /\ BusyTimeout \in Nat \ {0} /\ Lag \in Nat \ {0}
  /\ Deletable \subseteq Users
  /\ LastArrival \in Nat /\ MaxRun \in Nat /\ MaxTime \in Nat
  /\ {Serialised, Remote, Crashes, OtherWriters} \subseteq BOOLEAN

VARIABLES
  now,         (* the clock                                                 *)
  slots,       (* requests with a committed row in exec_slots               *)
  expires,     (* expires[r]: expires_at of r's row, 0 without one          *)
  writer,      (* holder of SQLite's write lock: a request, "app" or None   *)
  pc,          (* where each request is                                     *)
  stamp,       (* `now` as read by the current try (kept while its run      *)
               (* lasts) or snapshot, else since when r waits or releases   *)
  seenUsed,    (* used_mb as read by the request                            *)
  seenMine,    (* mine as read by the request                               *)
  deadline,    (* deadline of acquire                                       *)
  answer,      (* the result or the error code sent back                    *)
  containers,  (* requests whose container is running                       *)
  purged,      (* accounts that have been deleted                           *)
  rivals       (* history: rivals[r] were admitted since r read used_mb     *)

dbVars    == <<slots, expires>>
localVars == <<stamp, seenUsed, seenMine, deadline>>
vars == <<now, slots, expires, writer, pc, stamp, seenUsed, seenMine,
          deadline, answer, containers, purged, rivals>>

----------------------------------------------------------------------------
(* Mutant of LiveAt: the query forgets the expiry.                         *)
LiveAt_Undated(t) == slots

(* The rows a query with `expires_at > t` sees.                            *)
LiveAt(t) == {s \in slots : expires[s] > t}
Live == LiveAt(now)

(* Mutant of NoRoom: the account's limit is off by one.                    *)
NoRoom_OffByOne(r) ==
  seenMine[r] > MaxPerUser \/ seenUsed[r] + Memory[r] > Budget

NoRoom(r) == \/ seenMine[r] >= MaxPerUser
             \/ seenUsed[r] + Memory[r] > Budget

(* Mutants of Expiry: no grace; the timeout is taken off.                  *)
Expiry_NoGrace(r) == stamp[r] + Timeout
Expiry_WrongSign(r) == stamp[r] - Timeout

(* expires_at of a new slot.                                               *)
Expiry(r) == stamp[r] + Timeout + Grace

Checking == {"delete", "readUsed", "readMine", "decide"}
Holding  == {"admitted", "running"}
Finished == {"done", "dead"}
Polling  == {"try", "sleep", "busy", "busyMine"}
States   == Checking \cup Holding \cup Polling \cup Finished \cup
              {"idle", "release"}
Answers  == {"none", "finished", "exec_budget_too_small", "exec_concurrency",
             "exec_capacity", "sandbox_unavailable", "database_locked",
             "account_gone"}

(* An UPDATE, INSERT or DELETE of r can run: nobody else is writing.       *)
MayWrite(r) == Serialised => writer \in {None, r}
(* Mutant of TakeLock: the clean-up commits before the check.              *)
TakeLock_CommitsFirst(r) == writer' = writer
TakeLock(r) == writer' = IF Serialised THEN r ELSE writer
FreeLock(r) == writer' = IF writer = r THEN None ELSE writer

(* The row of r's account in users has been deleted.                       *)
Gone(r) == Owner[r] \in purged

Goto(r, to) == pc' = [pc EXCEPT ![r] = to]
Stamp(r) == stamp' = [stamp EXCEPT ![r] = now]
Reply(r, a) == answer' = [answer EXCEPT ![r] = a]

(* The locals of a function that returns or a try that is over.            *)
ForgetReads(r) ==
  /\ seenUsed' = [seenUsed EXCEPT ![r] = 0]
  /\ seenMine' = [seenMine EXCEPT ![r] = 0]
ForgetClock(r) ==
  /\ stamp' = [stamp EXCEPT ![r] = 0]
  /\ deadline' = [deadline EXCEPT ![r] = 0]
ForgetRivals(r) == rivals' = [rivals EXCEPT ![r] = {}]

----------------------------------------------------------------------------
(* acquire                                                                 *)

(* A call past its language and exec-seconds checks enters acquire, which  *)
(* refuses at once what no empty pool could hold.                          *)
Arrive(r) ==
  /\ pc[r] = "idle" /\ now <= LastArrival
  /\ IF Memory[r] > Budget
       THEN /\ Reply(r, "exec_budget_too_small") /\ Goto(r, "done")
            /\ UNCHANGED <<deadline, stamp>>
       ELSE /\ deadline' = [deadline EXCEPT ![r] = now + QueueWait]
            /\ Goto(r, "try") /\ Stamp(r)
            /\ UNCHANGED answer
  /\ UNCHANGED <<now, dbVars, writer, seenUsed, seenMine, containers, rivals, purged>>

(* _try_reserve reads the clock once, before its first statement.          *)
BeginTry(r) ==
  /\ pc[r] = "try"
  /\ Stamp(r)
  /\ Goto(r, "delete")
  /\ UNCHANGED <<now, dbVars, writer, seenUsed, seenMine, deadline, answer,
                 containers, rivals, purged>>

(* The DELETE of expired rows opens the transaction.  Its effect becomes   *)
(* visible to others when r commits, in Refuse or Admit.                   *)
DeleteExpired(r) ==
  /\ pc[r] = "delete" /\ MayWrite(r)
  /\ TakeLock(r)
  /\ Goto(r, "readUsed")
  /\ UNCHANGED <<now, dbVars, localVars, answer, containers, rivals, purged>>

(* Mutant of DeleteLocked: no busy_timeout.                                *)
DeleteLocked_Never(r) == FALSE

(* The DELETE waited busy_timeout for the write lock: OperationalError     *)
(* "database is locked" leaves acquire and run_code.                       *)
DeleteLocked(r) ==
  /\ pc[r] = "delete" /\ ~MayWrite(r) /\ now >= stamp[r] + BusyTimeout
  /\ Reply(r, "database_locked") /\ Goto(r, "done")
  /\ ForgetClock(r)
  /\ UNCHANGED <<now, dbVars, writer, seenUsed, seenMine, containers, rivals, purged>>

ReadUsed(r) ==
  /\ pc[r] = "readUsed"
  /\ seenUsed' = [seenUsed EXCEPT ![r] = MemoryOf(LiveAt(stamp[r]))]
  /\ rivals' = [rivals EXCEPT ![r] = {}]
  /\ Goto(r, "readMine")
  /\ UNCHANGED <<now, dbVars, writer, stamp, seenMine, deadline, answer,
                 containers, purged>>

ReadMine(r) ==
  /\ pc[r] = "readMine"
  /\ seenMine' = [seenMine EXCEPT
                    ![r] = Cardinality(OfSameUser(r, LiveAt(stamp[r])))]
  /\ Goto(r, "decide")
  /\ UNCHANGED <<now, dbVars, writer, stamp, seenUsed, deadline, answer,
                 containers, rivals, purged>>

(* No room: commit the DELETE, then give up at the deadline or sleep.      *)
Refuse(r) ==
  /\ pc[r] = "decide" /\ NoRoom(r)
  /\ slots' = LiveAt(stamp[r])
  /\ FreeLock(r)
  /\ Goto(r, IF now >= deadline[r] THEN "busy" ELSE "sleep")
  /\ Stamp(r) /\ ForgetReads(r) /\ ForgetRivals(r)
  /\ UNCHANGED <<now, expires, deadline, answer, containers, purged>>

Retry(r) ==
  /\ pc[r] = "sleep"
  /\ Goto(r, "try")
  /\ UNCHANGED <<now, dbVars, writer, localVars, answer, containers, rivals, purged>>

(* Room: insert the slot and commit.  Postgres checks the foreign key to   *)
(* the account; SQLite, whose foreign_keys pragma db.py leaves off, not.   *)
Admit(r) ==
  /\ pc[r] = "decide" /\ ~NoRoom(r) /\ (Serialised \/ ~Gone(r))
  /\ slots' = LiveAt(stamp[r]) \cup {r}
  /\ expires' = [expires EXCEPT ![r] = Expiry(r)]
  /\ FreeLock(r)
  /\ Goto(r, "admitted")
  /\ ForgetReads(r)
  /\ rivals' = [q \in Requests |->
                  IF q = r THEN {}
                  ELSE IF pc[q] \in {"readMine", "decide"} THEN rivals[q] \cup {r}
                  ELSE rivals[q]]
  /\ UNCHANGED <<now, stamp, deadline, answer, containers, purged>>

(* The INSERT of a slot for a deleted account fails on Postgres and takes  *)
(* the transaction with it.                                                *)
InsertFails(r) ==
  /\ pc[r] = "decide" /\ ~NoRoom(r) /\ ~Serialised /\ Gone(r)
  /\ Reply(r, "account_gone") /\ Goto(r, "done")
  /\ ForgetReads(r) /\ ForgetClock(r) /\ ForgetRivals(r)
  /\ UNCHANGED <<now, dbVars, writer, containers, purged>>

(* _busy_error: snapshot_state reads the occupancy afresh, one query after *)
(* the other, and the error is chosen from what it finds.                  *)
BusyUsed(r) ==
  /\ pc[r] = "busy"
  /\ Stamp(r)
  /\ seenUsed' = [seenUsed EXCEPT ![r] = MemoryOf(Live)]
  /\ Goto(r, "busyMine")
  /\ UNCHANGED <<now, dbVars, writer, seenMine, deadline, answer, containers,
                 rivals, purged>>

BusyError(r) ==
  LET yours == Cardinality(OfSameUser(r, LiveAt(stamp[r]))) IN
  /\ pc[r] = "busyMine"
  /\ seenMine' = [seenMine EXCEPT ![r] = yours]
  /\ Reply(r, IF yours >= MaxPerUser THEN "exec_concurrency"
                                     ELSE "exec_capacity")
  /\ Goto(r, "done")
  /\ ForgetClock(r)
  /\ UNCHANGED <<now, dbVars, writer, seenUsed, containers, rivals, purged>>

----------------------------------------------------------------------------
(* run_code, once admitted                                                 *)

StartContainer(r) ==
  /\ pc[r] = "admitted"
  /\ containers' = containers \cup {r}
  /\ Goto(r, "running")
  /\ UNCHANGED <<now, dbVars, writer, localVars, answer, rivals, purged>>

(* The driver raised before a container ran.                               *)
DriverUnavailable(r) ==
  /\ pc[r] = "admitted"
  /\ Reply(r, "sandbox_unavailable") /\ Goto(r, "release")
  /\ Stamp(r)
  /\ UNCHANGED <<now, dbVars, writer, seenUsed, seenMine, deadline,
                 containers, rivals, purged>>

(* The program exited or was killed at its timeout; either way the driver  *)
(* removed the container before it returned.                               *)
RunEnds(r) ==
  /\ pc[r] = "running"
  /\ containers' = containers \ {r}
  /\ Reply(r, "finished") /\ Goto(r, "release")
  /\ Stamp(r)
  /\ UNCHANGED <<now, dbVars, writer, seenUsed, seenMine, deadline, rivals, purged>>

(* The call to the broker failed while the container runs: the client      *)
(* reports SandboxUnavailable, the broker goes on.                         *)
ReplyLost(r) ==
  /\ Remote /\ pc[r] = "running"
  /\ Reply(r, "sandbox_unavailable") /\ Goto(r, "release")
  /\ Stamp(r)
  /\ UNCHANGED <<now, dbVars, writer, seenUsed, seenMine, deadline,
                 containers, rivals, purged>>

(* Mutant of Release: the DELETE has lost its WHERE.                       *)
Release_All(r) ==
  /\ pc[r] = "release" /\ MayWrite(r)
  /\ slots' = {}
  /\ Goto(r, "done")
  /\ ForgetClock(r)
  /\ UNCHANGED <<now, expires, writer, seenUsed, seenMine, answer, containers,
                 rivals, purged>>

(* The `finally` of run_code: DELETE by id and commit.                     *)
Release(r) ==
  /\ pc[r] = "release" /\ MayWrite(r)
  /\ slots' = slots \ {r}
  /\ Goto(r, "done")
  /\ ForgetClock(r)
  /\ UNCHANGED <<now, expires, writer, seenUsed, seenMine, answer, containers,
                 rivals, purged>>

(* The DELETE waited busy_timeout for the lock: the row stays and the      *)
(* exception replaces the result.                                          *)
ReleaseLocked(r) ==
  /\ pc[r] = "release" /\ ~MayWrite(r) /\ now >= stamp[r] + BusyTimeout
  /\ Reply(r, "database_locked") /\ Goto(r, "done")
  /\ ForgetClock(r)
  /\ UNCHANGED <<now, dbVars, writer, seenUsed, seenMine, containers, rivals, purged>>

----------------------------------------------------------------------------
(* The surroundings                                                        *)

(* The worker of r is killed.  Its transaction rolls back; a container it  *)
(* started is not told.                                                    *)
Crash(r) ==
  /\ Crashes /\ pc[r] \notin {"idle"} \cup Finished
  /\ FreeLock(r)
  /\ Goto(r, "dead")
  /\ ForgetReads(r) /\ ForgetClock(r) /\ ForgetRivals(r)
  /\ UNCHANGED <<now, dbVars, answer, containers, purged>>

(* A container nobody waits for any more ends by itself.                   *)
OrphanEnds(r) ==
  /\ r \in containers /\ pc[r] # "running"
  /\ containers' = containers \ {r}
  /\ UNCHANGED <<now, dbVars, writer, pc, localVars, answer, rivals, purged>>

(* Another transaction of the application takes the write lock and, later, *)
(* ends.                                                                   *)
AppWrites ==
  /\ OtherWriters /\ Serialised /\ writer = None
  /\ writer' = "app"
  /\ UNCHANGED <<now, dbVars, pc, localVars, answer, containers, rivals, purged>>

AppCommits ==
  /\ writer = "app"
  /\ writer' = None
  /\ UNCHANGED <<now, dbVars, pc, localVars, answer, containers, rivals, purged>>

(* accounts.purge_user, by DELETE /api/v1/account or the operator's        *)
(* command: the commit of a transaction that deletes the account's slots   *)
(* with its other rows.  It does not ask for runs that are under way.      *)
Purge(u) ==
  /\ u \in Deletable \ purged
  /\ Serialised => writer = "app"
  /\ writer' = None
  /\ slots' = {s \in slots : Owner[s] # u}
  /\ purged' = purged \cup {u}
  /\ UNCHANGED <<now, expires, pc, localVars, answer, containers, rivals>>

(* A tick waits for whoever would otherwise overrun: a statement waits no  *)
(* longer than busy_timeout for the lock, a coroutine that could go on     *)
(* (the sleep between two tries is under a tick) no longer than Lag.  How  *)
(* long the container of a run takes to start and to go, nothing in the    *)
(* code bounds: MaxRun is the model's, and lets a run overrun its slot.    *)
InTime(r) ==
  /\ pc[r] \in Checking \cup {"release"} => now < stamp[r] + BusyTimeout
  /\ pc[r] \in Holding => now < stamp[r] + MaxRun
  /\ pc[r] \in Polling => now < stamp[r] + Lag

Tick ==
  /\ now < MaxTime /\ \A r \in Requests : InTime(r)
  /\ now' = now + 1
  /\ UNCHANGED <<dbVars, writer, pc, localVars, answer, containers, rivals, purged>>

(* No request is under way.                                                *)
Quiet ==
  /\ \A r \in Requests : pc[r] \in {"idle"} \cup Finished
  /\ UNCHANGED vars

----------------------------------------------------------------------------
Init ==
  /\ now = 0
  /\ slots = {} /\ containers = {}
  /\ expires = [r \in Requests |-> 0]
  /\ writer = None
  /\ pc = [r \in Requests |-> "idle"]
  /\ stamp = [r \in Requests |-> 0]
  /\ seenUsed = [r \in Requests |-> 0]
  /\ seenMine = [r \in Requests |-> 0]
  /\ deadline = [r \in Requests |-> 0]
  /\ answer = [r \in Requests |-> "none"]
  /\ purged = {}
  /\ rivals = [r \in Requests |-> {}]

Acquire(r) ==
  \/ BeginTry(r) \/ DeleteExpired(r) \/ DeleteLocked(r) \/ ReadUsed(r)
  \/ ReadMine(r) \/ Refuse(r) \/ Retry(r) \/ Admit(r)
  \/ InsertFails(r) \/ BusyUsed(r) \/ BusyError(r)

RunCode(r) ==
  \/ StartContainer(r) \/ DriverUnavailable(r) \/ RunEnds(r) \/ ReplyLost(r)
  \/ Release(r) \/ ReleaseLocked(r)

Step(r) == Acquire(r) \/ RunCode(r)

Next ==
  \/ \E r \in Requests : Arrive(r) \/ Step(r) \/ Crash(r) \/ OrphanEnds(r)
  \/ \E u \in Users : Purge(u)
  \/ AppWrites \/ AppCommits \/ Tick \/ Quiet

(* A worker that is alive goes on with the requests it has, and time goes  *)
(* on.  Nothing makes a client call, a worker die, or another transaction  *)
(* end.                                                                    *)
Fairness ==
  /\ \A r \in Requests : WF_vars(Step(r))
  /\ WF_vars(Tick)

Spec == Init /\ [][Next]_vars /\ Fairness

----------------------------------------------------------------------------
(* Properties                                                              *)

TypeOK ==
  /\ now \in Nat
  /\ slots \in SUBSET Requests /\ containers \in SUBSET Requests
  /\ expires \in [Requests -> Nat]
  /\ writer \in Requests \cup {None, "app"}
  /\ pc \in [Requests -> States]
  /\ stamp \in [Requests -> Nat]
  /\ seenUsed \in [Requests -> Nat] /\ seenMine \in [Requests -> Nat]
  /\ deadline \in [Requests -> Nat]
  /\ answer \in [Requests -> Answers]
  /\ purged \in SUBSET Users
  /\ rivals \in [Requests -> SUBSET Requests]

(* With one writer at a time, the check and the insert of _try_reserve are *)
(* one transaction: the live slots never exceed the memory budget, and no  *)
(* account ever holds more of them than its limit.                         *)
LimitsHonoured == Serialised => \A r \in Requests : Fits(r, Live)

(* "overshooting by one slot each": on any database, what is live after an *)
(* admission fits both limits once the slots that were admitted between    *)
(* the check and the insert are set aside, each of them one slot.          *)
OvershootOnlyByRivals ==
  [][\A r \in slots' \ slots : Fits(r, Live' \ rivals[r])]_vars

Pool == INSTANCE SlotPool WITH held <- Live

(* With one writer at a time, the live slots behave like the pool of       *)
(* SlotPool: a run enters only if both limits hold with it inside.         *)
IsSlotPool == Pool!Spec

(* What a slot covers: a run whose worker waits for it, whose account has  *)
(* not been deleted, and that has lasted, its check and the wait for the   *)
(* lock included, no longer than timeout and grace.                        *)
Covered(r) ==
  pc[r] \in Holding /\ ~Gone(r) /\ now < stamp[r] + Timeout + Grace

(* As long as that is so, the request's row is live and its memory is      *)
(* counted, whatever other requests clean up meanwhile.                    *)
RunHoldsLiveSlot == \A r \in Requests : Covered(r) => r \in Live

(* What the limit is for: with one writer at a time the containers of      *)
(* covered runs fit the machine's budget.  (The container of a killed      *)
(* worker, of a lost reply, of a deleted account or of a run that is over  *)
(* its time runs on while its memory is given to somebody else.)           *)
ContainersFitBudget ==
  Serialised => MemoryOf({r \in containers : Covered(r)}) <= Budget

(* Nobody loses a slot to somebody else: a row goes when its own request   *)
(* releases it, when it has expired, or with its account.                  *)
NoSlotIsTaken ==
  [][\A r \in slots \ slots' : \/ pc[r] = "release"
                               \/ expires[r] <= now
                               \/ Owner[r] \in purged' \ purged]_vars

(* "a worker killed mid-run frees its slot without anyone having to        *)
(* notice": no slot counts against the pool for ever, whatever became of   *)
(* its worker or of its release.                                           *)
SlotsEventuallyFree == \A r \in Requests : r \in Live ~> r \notin Live

(* Every call that reaches acquire is answered, unless its worker dies:    *)
(* the queue has a deadline and the lock a timeout.                        *)
EveryCallEnds == \A r \in Requests : pc[r] = "try" ~> pc[r] \in Finished
=============================================================================
