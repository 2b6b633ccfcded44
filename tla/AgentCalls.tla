------------------------------ MODULE AgentCalls ------------------------------
(***************************************************************************)
(* What one account may do and has done: its API keys, the compute it has  *)
(* used, and the tasks of its A2A peers.                                   *)
(*                                                                         *)
(*   app/a2a_server.py   message/send (with and without an operation) and  *)
(*                       tasks/cancel                                      *)
(*   app/mcp_server.py   tools/call, and POST /api/v1/exec of app/api/     *)
(*                       v1.py, for run_code                               *)
(*   app/api/auth.py     create_key and revoke_key                         *)
(*   app/cli.py          suspend, restore and plan; owner key, which       *)
(*                       app/owner.py carries out                          *)
(*   app/billing.py      sync_user_plan, the other writer of the plan      *)
(*                                                                         *)
(* A call reads in one transaction and commits in another: the scheduler's *)
(* acquire and release commit whatever the session holds, the session      *)
(* commits the rest when the handler is through.  The slots of the runs    *)
(* are ExecAdmission's matter; here a run is admitted or refused.          *)
(***************************************************************************)
EXTENDS Integers, FiniteSets

CONSTANTS
  Calls,        (* requests of the account that are handled at once         *)
  Keys, Tasks,  (* ids of API keys and of tasks (bounds: they run out)      *)
  Cookie,       (* a dashboard session instead of a key                     *)
  None,
  Plans,        (* the names of PLANS                                       *)
  MaxKeys,      (* max_api_keys of each plan                                *)
  Limit,        (* monthly_exec_seconds of each plan, in units              *)
  MaxRan,       (* bound: the longest that a run is measured at, from its   *)
                (* container's start to its kill, in the same units         *)
  Serialised,   (* TRUE: SQLite, one writer at a time; FALSE: READ          *)
                (* COMMITTED, where a key's last_used_at locks its row      *)
  Crashes       (* TRUE: workers may be killed                              *)

ASSUME ConstantsAssumption ==
  /\ IsFiniteSet(Calls) /\ Calls # {} /\ IsFiniteSet(Keys)
  /\ Cookie \notin Keys /\ None \notin Keys \cup Tasks \cup Plans \cup {Cookie}
  /\ MaxKeys \in [Plans -> Nat \ {0}] /\ Limit \in [Plans -> Nat \ {0}]
  /\ MaxRan \in Nat \ {0}
  /\ {Serialised, Crashes} \subseteq BOOLEAN

VARIABLES
  keys,       (* the committed rows of api_keys                             *)
  owned,      (* those that the operator's command has made                 *)
  suspended,  (* not users.is_active                                        *)
  plan,       (* users.plan                                                 *)
  tasks,      (* the committed rows of agent_tasks                          *)
  spent,      (* the usage_events of the last thirty days                   *)
  longest,    (* history: the longest that a run was measured at            *)
  call,       (* where each call is and what its session holds              *)
  locked,     (* the calls whose transaction holds a lock                   *)
  broken,     (* the tasks whose call was killed or raised                  *)
  had         (* history: the plans the account has had since it was last   *)
              (* idle and within its plan                                   *)

rows == <<keys, owned, suspended, plan, tasks, spent, longest>>
vars == <<rows, call, locked, broken, had>>

----------------------------------------------------------------------------
KeyStates  == {"none", "active", "revoked"}
TaskStates == {"none", "working", "input-required", "completed", "failed",
               "canceled"}
Final == {"completed", "failed", "canceled"}

(* run: run_code by REST or MCP; send: by A2A; ask: A2A without operation. *)
Jobs == {"run", "send", "ask", "cancel", "mint", "revoke"}
NeedsKey == {"send", "ask", "cancel"}
HasQuota == {"run", "send", "mint"}
Places == {"rest", "known", "open", "passed", "running", "release",
           "answer", "commit"}

(* with: the credential; plan: that of the user it has loaded and has yet  *)
(* to compare with; obj: the task or the key that the call is about; set,  *)
(* ran: the task state and the seconds its session has yet to write.       *)
CallTypes == [at : Places, job : Jobs, with : Keys \cup {Cookie},
              plan : Plans \cup {None}, obj : Tasks \cup Keys \cup {None},
              set : TaskStates, ran : 0..MaxRan]
Idle == [at |-> "rest", job |-> "run", with |-> Cookie, plan |-> None,
         obj |-> None, set |-> "none", ran |-> 0]

Active == {k \in Keys : keys[k] = "active"}
At(c, place) == call[c].at = place
Does(c, j) == call[c].job = j
Goto(c, place) == call' = [call EXCEPT ![c].at = place]

(* The handler has returned and its transaction is over.                   *)
Return(c) == call' = [call EXCEPT ![c] = Idle]
Unlock(c) == locked' = locked \ {c}

(* A write of c does not wait: the database's lock, or the row's, is free. *)
Free(c, k) == \A d \in locked \ {c} : ~Serialised /\ call[d].with # k
MayWrite(c) == Free(c, IF Does(c, "revoke") THEN call[c].obj ELSE None)

(* The id of a new task or key: in no row and in no session.               *)
Unused(S, table) ==
  {x \in S : table[x] = "none" /\ \A d \in Calls : call[d].obj # x}
New(S, table) ==
  LET left == Unused(S, table) IN IF left = {} THEN {} ELSE {CHOOSE x \in left : TRUE}

(* What a request can be about.                                            *)
Objects(j) == CASE j = "run" -> {None}
                [] j \in {"send", "ask"} -> New(Tasks, tasks)
                [] j = "cancel" -> Tasks
                [] j = "mint" -> New(Keys, keys)
                [] j = "revoke" -> Keys

----------------------------------------------------------------------------
(* Credentials: current_user, and resolve_api_key with                     *)
(* ensure_not_suspended.  What is refused here changes nothing.  The user  *)
(* is loaded here, and its plan is not read again.                         *)
Authenticate(c, j, a, x) ==
  /\ At(c, "rest") /\ ~suspended
  /\ IF a = Cookie THEN j \notin NeedsKey ELSE keys[a] = "active"
  /\ call' = [call EXCEPT ![c] = [Idle EXCEPT
                 !.at = IF a = Cookie THEN "open" ELSE "known",
                 !.job = j, !.with = a, !.obj = x,
                 !.plan = IF j \in HasQuota THEN plan ELSE None]]
  /\ UNCHANGED <<rows, locked, broken>>

(* Mutant of Touch: the session writes back the whole row it has read.     *)
Touch_WholeRow(c) ==
  /\ At(c, "known") /\ Free(c, call[c].with)
  /\ locked' = locked \cup {c}
  /\ keys' = [keys EXCEPT ![call[c].with] = "active"]
  /\ Goto(c, "open")
  /\ UNCHANGED <<owned, suspended, plan, tasks, spent, longest, broken>>

(* The SELECT of ensure_workspace flushes key.last_used_at, which locks    *)
(* until the next commit.                                                  *)
Touch(c) ==
  /\ At(c, "known") /\ Free(c, call[c].with)
  /\ locked' = locked \cup {c}
  /\ Goto(c, "open")
  /\ UNCHANGED <<rows, broken>>

----------------------------------------------------------------------------
(* run_code, called directly or by message/send                            *)

(* Mutant of Exhausted: a run is let through when all is spent.            *)
Exhausted_OffByOne(c) == spent > Limit[call[c].plan]

(* check_exec_budget                                                       *)
Exhausted(c) == spent >= Limit[call[c].plan]

(* A new task is flushed as "working"; then the budget is compared.        *)
Check(c) ==
  /\ At(c, "open") /\ call[c].job \in {"run", "send"}
  /\ IF Exhausted(c)
       THEN call' = [call EXCEPT ![c].at = "answer", ![c].set = "failed",
                                 ![c].plan = None]
       ELSE call' = [call EXCEPT ![c].at = "passed", ![c].plan = None]
  /\ UNCHANGED <<rows, locked, broken>>

(* acquire commits what the session holds, the task included, with every   *)
(* try; in the end it admits the run or raises _busy_error.                *)
Acquire(c) ==
  /\ At(c, "passed") /\ call[c].job \in {"run", "send"} /\ MayWrite(c)
  /\ tasks' = IF Does(c, "send") THEN [tasks EXCEPT ![call[c].obj] = "working"]
                                 ELSE tasks
  /\ Unlock(c)
  /\ \/ Goto(c, "running")
     \/ call' = [call EXCEPT ![c].at = "answer", ![c].set = "failed"]
  /\ UNCHANGED <<keys, owned, suspended, plan, spent, longest, broken>>

(* The driver answers, or raises SandboxUnavailable.  What it measures     *)
(* includes the container's start and its kill, which no timeout covers.   *)
Larger(m, n) == IF m < n THEN n ELSE m
RunEnds(c) ==
  /\ At(c, "running")
  /\ \/ \E n \in 1..MaxRan :
          /\ call' = [call EXCEPT ![c].at = "release", ![c].ran = n,
                                  ![c].set = "completed"]
          /\ longest' = Larger(longest, n)
     \/ call' = [call EXCEPT ![c].at = "release", ![c].set = "failed"]
        /\ UNCHANGED longest
  /\ UNCHANGED <<keys, owned, suspended, plan, tasks, spent, locked, broken>>

(* The `finally`: release deletes the slot and commits.                    *)
Release(c) ==
  /\ At(c, "release") /\ MayWrite(c)
  /\ Goto(c, "answer")
  /\ UNCHANGED <<rows, locked, broken>>

----------------------------------------------------------------------------
(* The other operations                                                    *)

(* message/send that names no operation.                                   *)
Ask(c) ==
  /\ At(c, "open") /\ Does(c, "ask")
  /\ call' = [call EXCEPT ![c].at = "answer", ![c].set = "input-required"]
  /\ UNCHANGED <<rows, locked, broken>>

(* tasks/cancel reads the row; there is none, or the task is over, or it   *)
(* is canceled.                                                            *)
Cancel(c) ==
  /\ At(c, "open") /\ Does(c, "cancel")
  /\ call' = [call EXCEPT ![c].at = "answer",
                 ![c].set = IF tasks[call[c].obj] \in Final \cup {"none"}
                              THEN "none" ELSE "canceled"]
  /\ UNCHANGED <<rows, locked, broken>>

(* create_key counts the active keys before it makes one.                  *)
CountKeys(c) ==
  /\ At(c, "open") /\ Does(c, "mint")
  /\ IF Cardinality(Active) < MaxKeys[call[c].plan]
       THEN /\ call' = [call EXCEPT ![c].at = "passed", ![c].plan = None]
            /\ UNCHANGED locked
       ELSE Return(c) /\ Unlock(c)
  /\ UNCHANGED <<rows, broken>>

(* "the key has to be durable before its owner is told it exists"          *)
InsertKey(c) ==
  /\ At(c, "passed") /\ Does(c, "mint") /\ MayWrite(c)
  /\ keys' = [keys EXCEPT ![call[c].obj] = "active"]
  /\ Goto(c, "answer") /\ Unlock(c)
  /\ UNCHANGED <<owned, suspended, plan, tasks, spent, longest, broken>>

(* revoke_key loads the key: it is not there, or it is stamped.            *)
Revoke(c) ==
  /\ At(c, "open") /\ Does(c, "revoke")
  /\ IF keys[call[c].obj] = "none" THEN Return(c) /\ Unlock(c)
                                   ELSE Goto(c, "answer") /\ UNCHANGED locked
  /\ UNCHANGED <<rows, broken>>

----------------------------------------------------------------------------
(* The end of a call                                                       *)

(* The response leaves; the session's commit follows it.  (tools/call      *)
(* commits first: its commit is the same step, taken before.)              *)
Answer(c) ==
  /\ At(c, "answer")
  /\ Goto(c, "commit")
  /\ UNCHANGED <<rows, locked, broken>>

(* Mutant of Commit: the error path leaves the state alone.                *)
Commit_FailedForgotten(c) ==
  /\ At(c, "commit") /\ MayWrite(c)
  /\ tasks' = IF call[c].obj \in Tasks /\ call[c].set \notin {"none", "failed"}
                THEN [tasks EXCEPT ![call[c].obj] = call[c].set] ELSE tasks
  /\ spent' = spent + call[c].ran
  /\ keys' = IF Does(c, "revoke") THEN [keys EXCEPT ![call[c].obj] = "revoked"]
                                  ELSE keys
  /\ Return(c) /\ Unlock(c)
  /\ UNCHANGED <<owned, suspended, plan, longest, broken>>

(* The session writes the columns its handler has changed; of a run that   *)
(* was refused or failed it has none left, which is how a rollback looks.  *)
Commit(c) ==
  /\ At(c, "commit") /\ MayWrite(c)
  /\ tasks' = IF call[c].obj \in Tasks /\ call[c].set # "none"
                THEN [tasks EXCEPT ![call[c].obj] = call[c].set] ELSE tasks
  /\ spent' = spent + call[c].ran
  /\ keys' = IF Does(c, "revoke") THEN [keys EXCEPT ![call[c].obj] = "revoked"]
                                  ELSE keys
  /\ Return(c) /\ Unlock(c)
  /\ UNCHANGED <<owned, suspended, plan, longest, broken>>

(* The handler is gone: what it had not committed is lost.                 *)
Abandon(c) ==
  /\ broken' = IF Does(c, "send") THEN broken \cup {call[c].obj} ELSE broken
  /\ Return(c) /\ Unlock(c)
  /\ UNCHANGED rows

(* SQLite: another call held the lock for longer than busy_timeout.        *)
LockTimeout(c) ==
  /\ \/ At(c, "known") /\ ~Free(c, call[c].with)
     \/ call[c].at \in {"passed", "release", "commit"} /\ ~MayWrite(c)
  /\ Serialised
  /\ Abandon(c)

Crash(c) == Crashes /\ ~At(c, "rest") /\ Abandon(c)

----------------------------------------------------------------------------
(* The operator, and time                                                  *)

Suspend(b) ==
  /\ Serialised => locked = {}
  /\ suspended # b /\ suspended' = b
  /\ UNCHANGED <<keys, owned, plan, tasks, spent, longest, call, locked, broken>>

(* `plan` of the command line, or a subscription that begins or ends.      *)
SetPlan(p) ==
  /\ Serialised => locked = {}
  /\ plan # p /\ plan' = p
  /\ UNCHANGED <<keys, owned, suspended, tasks, spent, longest, call, locked, broken>>

(* `owner key`: one more key for the owner, whatever the plan allows.      *)
MintOwnerKey(k) ==
  /\ Serialised => locked = {}
  /\ k \in New(Keys, keys)
  /\ keys' = [keys EXCEPT ![k] = "active"]
  /\ owned' = owned \cup {k}
  /\ UNCHANGED <<suspended, plan, tasks, spent, longest, call, locked, broken>>

(* Mutant of Expire: the window is moved past what was used.               *)
Expire_Below ==
  /\ spent' = spent - 1
  /\ UNCHANGED <<keys, owned, suspended, plan, tasks, longest, call, locked, broken>>

(* Usage gets older than thirty days.                                      *)
Expire ==
  /\ spent > 0 /\ spent' = spent - 1
  /\ UNCHANGED <<keys, owned, suspended, plan, tasks, longest, call, locked, broken>>

----------------------------------------------------------------------------
(* A new account has one key.                                               *)
Init ==
  /\ \E k \in Keys :
       /\ k = CHOOSE j \in Keys : TRUE
       /\ keys = [j \in Keys |-> IF j = k THEN "active" ELSE "none"]
  /\ owned = {} /\ suspended = FALSE
  /\ plan \in Plans /\ had = {plan}
  /\ tasks = [t \in Tasks |-> "none"]
  /\ spent = 0 /\ longest = 0
  /\ call = [c \in Calls |-> Idle]
  /\ locked = {} /\ broken = {}

Step(c) ==
  \/ Touch(c)
  \/ Check(c) \/ Acquire(c) \/ RunEnds(c) \/ Release(c)
  \/ Ask(c) \/ Cancel(c) \/ CountKeys(c) \/ InsertKey(c) \/ Revoke(c)
  \/ Answer(c) \/ Commit(c) \/ LockTimeout(c)

Operator ==
  \/ \E b \in BOOLEAN : Suspend(b)
  \/ \E p \in Plans : SetPlan(p)
  \/ \E k \in Keys : MintOwnerKey(k)

(* No request is under way and the account is within its plan.             *)
Settled ==
  /\ \A c \in Calls : At(c, "rest")
  /\ Cardinality(Active \ owned) <= MaxKeys[plan] /\ spent < Limit[plan]
Remember == had' = IF Settled' THEN {plan'} ELSE had \cup {plan'}

Next ==
  /\ \/ \E c \in Calls :
          \/ \E j \in Jobs, a \in Keys \cup {Cookie} :
               \E x \in Objects(j) : Authenticate(c, j, a, x)
          \/ Step(c) \/ Crash(c)
     \/ Operator
     \/ Expire
  /\ Remember

Spec == Init /\ [][Next]_vars

----------------------------------------------------------------------------
(* Properties                                                              *)

TypeOK ==
  /\ keys \in [Keys -> KeyStates]
  /\ owned \subseteq Keys
  /\ suspended \in BOOLEAN
  /\ plan \in Plans /\ had \subseteq Plans
  /\ tasks \in [Tasks -> TaskStates]
  /\ spent \in Nat /\ longest \in Nat
  /\ call \in [Calls -> CallTypes]
  /\ locked \subseteq Calls
  /\ broken \subseteq Tasks

(* Calls that were let through by a count and have not yet added to it.    *)
Minting  == {c \in Calls : Does(c, "mint") /\ At(c, "passed")}
Charging == {c \in Calls : /\ call[c].job \in {"run", "send"}
                           /\ call[c].at \in {"passed", "running", "release",
                                              "answer", "commit"}
                           /\ call[c].set # "failed"}

(* The checks of quotas.py come before the queue, the run and the insert,  *)
(* the amount comes after, and the plan may change at any time.  What that *)
(* can cost does not add up: at any time an account is above a plan it has *)
(* had, since it was last idle and within its plan, by less than what its  *)
(* simultaneous calls can add: one key each, not counting those that the   *)
(* operator made, and its longest run each.                                *)
KeysBound ==
  \E p \in had : Cardinality(Active \ owned) + Cardinality(Minting)
                    < MaxKeys[p] + Cardinality(Calls)
ExecBound ==
  \E p \in had : spent + longest * Cardinality(Charging)
                    < Limit[p] + longest * Cardinality(Calls)
QuotasBounded == KeysBound /\ ExecBound

(* What has happened to a key or a task is not undone by a request that    *)
(* read the row before.  A revocation is for good, whatever the requests   *)
(* that still use the key write to its row; and where writers exclude one  *)
(* another, the result of a task that has ended ("already {state} and      *)
(* cannot be canceled") is not overwritten by a cancel on its way.         *)
KeyAges(k) == \/ keys'[k] = keys[k]
              \/ keys[k] = "none" /\ keys'[k] = "active"
              \/ keys[k] = "active" /\ keys'[k] = "revoked"
ResultStays(t) ==
  Serialised /\ tasks[t] \in {"completed", "failed"} => tasks'[t] = tasks[t]
NothingIsUndone ==
  [][(\A k \in Keys : KeyAges(k)) /\ (\A t \in Tasks : ResultStays(t))]_vars

(* A task that a peer sees "working" is one that a call is still at, or    *)
(* whose call was killed or raised: whatever the others write, no refusal, *)
(* failed run or stale cancel leaves a task in it.                         *)
InHand(t) == \E c \in Calls : Does(c, "send") /\ call[c].obj = t
WorkingIsInHand == \A t \in Tasks : tasks[t] = "working" => InHand(t) \/ t \in broken
===============================================================================
