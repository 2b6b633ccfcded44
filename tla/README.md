# A TLA+ model of AgentSpace

AgentSpace gives an AI agent a workspace, a sandbox to run code in and a public
address to publish from. The program is a FastAPI application
(`src/source/app/`) that several uvicorn workers run side by side. The workers
share the database (SQLite or Postgres), the file tree of the workspaces and
the Docker daemon, and nothing else: whatever has to hold across two requests
has to hold across statements of two transactions, across container calls that
take seconds, and across the death of a worker between any two of them. That
is what the modules of this directory are about.

Line numbers below are those of `src/source/app/`.

## 1. Inventory

| component | state | operations | what is hard | what makes it correct |
|---|---|---|---|---|
| Admission control (`scheduler.py`, `operations.run_code`) | table `exec_slots` | `acquire`, `_try_reserve`, `release`, `_busy_error`; expiry | check-then-insert over several statements, polling with a deadline, lock timeouts, dead workers, deleted accounts, lost replies of the broker | occupancy within the limits; a run that its slot covers is counted; every slot goes, every call is answered |
| Published services (`operations.deploy_*`, `delete_deployment`, `reaper.py`, `hosting._proxy_to_service`, `sandbox/docker_driver.py`) | table `deployments`, Docker's containers, `last_request_at` | deploy service / site, delete, visit, wake, touch, reap | one reaper per worker, each working from a snapshot; container calls and row updates are not atomic; a daemon or a broker out of reach; a failed or killed deploy | an idle service can be woken; no container without a row; an unused container is stopped |
| Account removal (`accounts.purge_user`, `api/auth.delete_account`, `cli.delete_user`) | every table of the account | `purge_user` | races with deploys of the same account | no container survives its account |
| Billing (`billing.py`, `api/billing.py`, `cli.set_plan`) | `subscriptions`, `billing_events`, `users.plan` | `create_checkout`, `apply_event`, `sync_user_plan`, `set_plan` | events duplicated, retried, reordered and handled by two workers at once | an event takes effect once; the plan is the one paid for |
| Registration (`api/auth.py`, `cli` invites) | `users`, `invites`, `api_keys`, `workspaces` | `register`, `_claim_invite`, `revoke_invite`, first key | check-then-burn of an invite; uniqueness left to constraints | a code makes one account; a revoked one none |
| Quotas (`quotas.py`) | `usage_events`, counts of rows | `check_*`, `record_usage` | checked before, charged after, against a plan that may change | plan limits hold up to what is in flight |
| Drafts (`publish.py`, `publish_routes.py`) | JSON files | create, append, publish, discard, expire | read-modify-write of files by several workers, measured while they change | no part lost, nothing comes back, limits exceeded by what is under way at most |
| Agent calls (`a2a_server.py`, `mcp_server.py`, `deps.py`, key management of `api/auth.py`) | `agent_tasks`, `api_keys`, `usage_events` | authenticate, send, get, cancel; mint and revoke a key; run and charge | cancel while working; a key revoked, or an account suspended, while a request of it is under way | what is final is not undone; no task is left "working" by the end of its call |
| Rate limits (`ratelimit.py`) | per-process deques | `check`, `_prune`, `_evict_stale` | sliding window boundary, eviction | at most `limit` calls per window |
| Storage (`storage.py`) | the file tree | resolve, write, move, delete, unzip | path arithmetic | a path resolves inside its workspace |
| Owner bootstrap (`owner.py`, `main.lifespan`, `db.init_db`) | `users`, a credentials file, the schema's revision | `ensure_owner`, `mint_owner_key`, migration | two first boots at once; crash between file and commit | one owner, whose printed key works |
| Launcher (`scripts/start.py`) | its children, `.env` | check, configure, start, open a tunnel, replace, watch, stop | children that die at any place; a control plane replaced on purpose | nothing is left running; the address printed is the one advertised |
| Addresses (`main.SubdomainMiddleware`, `tls_check`, `hosting.serve_space`) | `users.custom_domain`, `deployments`, the file tree | route a host and a path to a file, a service or a page | several names for one thing, several things for one name | one site, by whatever name it is reached |
| Broker (`broker.py`, `sandbox/remote_driver.py`) | none of its own | clamp, forward | lost replies | a request never exceeds the ceilings |
| Protocol front ends (`mcp_server.py`, `api/v1.py`, `web.py`, `profile.py`, `teaching.py`, `templating.py`) | none | routing, wording, rendering | - | - |

The hazards, each at its line, are listed in `PROJECT.json`, with the
properties that would notice them going wrong.

## 2. Plan

The order is that of what is worst to get wrong:

1. `SlotLimits`, `SlotPool`, `ExecAdmission`: the limits on concurrent runs
   protect the machine itself, and are the code with the most interleavings.
2. `ServiceLifecycle`: one deployment, from deploy to delete, with everybody
   who changes row or container.
3. `Billing`: events of Stripe, handled at least once and in any order.
4. `Registration`: invites, names, and the one transaction that uses both.
5. `Workspace`: the files of an account, with drafts, uploads and the disk
   quota that is checked before each write; `DraftStore`: what it promises of
   one draft.
6. `AgentCalls`: what an account's agents do at the same time, from
   authentication to commit: tasks, keys, and the compute that is charged.
7. `Server`, made of `Startup`, `Launcher`, `RateLimit` and `Addresses`: the
   process around the operations.

What is worth doing next:

- `check_deployments` and the removal of a workspace with its account;
- `storage.resolve` over small trees with links.

## 3. Modules

Every module states what it models in its header; its variables are commented
one by one. An action is a stretch of code between two points where another
request, worker or the operating system may come in: a statement sent to the
database, a call of the Docker daemon, a file operation, a commit.

**`SlotLimits`** declares the limits (`Budget`, `MaxPerUser`) and the sums over
slots. **`SlotPool`** is the abstract specification: runs enter a pool only if
both limits hold with them inside.

**`ExecAdmission`** (`scheduler.py`, `operations.run_code`). `slots` and
`expires` are the rows of `exec_slots`; `seenUsed`, `seenMine`, `deadline` and
`stamp` are the locals of `acquire` and `_try_reserve`; `writer` is SQLite's
write lock. A try is `BeginTry` (the clock is read), `DeleteExpired`,
`ReadUsed`, `ReadMine`, then `Refuse` or `Admit` with the commit. A DELETE that
waits too long for the lock is `DeleteLocked` or `ReleaseLocked`. `BusyUsed`
and `BusyError` are `_busy_error`. `StartContainer`, `RunEnds`,
`DriverUnavailable`, `ReplyLost` and `Release` are `run_code`. `Purge` is the
commit of `accounts.purge_user`, which takes the slots of an account whose runs
go on; what a run of it writes later finds no row, or on Postgres fails on the
foreign key (`InsertFails`). Time is a clock; `Tick` may not pass what the code
bounds (the timeout of the lock, of a sleep). How long a container takes to
start and to go nothing in the code bounds, so that a run may outlast its slot:
the clock waits for it up to `MaxRun`, a bound of the model. The constants
`Serialised`, `Remote`, `Crashes` and `OtherWriters` choose database, driver and
surroundings; `Deletable` bounds whose account may go. `rivals[r]` is a history variable:
who was admitted since r read the occupancy.

**`ServiceLifecycle`** (`operations.deploy_service`, `deploy_site`,
`delete_deployment`, `accounts.purge_user`, `hosting._proxy_to_service`,
`reaper.py`, the Docker driver). `row` is the committed row, `box` the
container, `loaded[h]` the row as the session of handler h read it, `handle[h]`
what the driver returned to it. Owners' calls go `Call`, `RemoveOld`,
`ClearName`, `StartService`, then a commit; visitors `Visit`, then `Touch` or
`WakeStarts`/`WakeMisses` and `WakeCommits`/`WakeGivesUp`, then `Proxy`;
reapers `Snapshot`, `Stop`, `Mark`. With `Faults`, the daemon or the broker gets
out of reach and back (`Outage`): meanwhile `RemoveRaises` ends an owner's call
before the row is touched and `StopRaises` makes a reaper's pass go on without
marking the row; `WakeRaises` is a start that raises what `wake` does not catch,
`StartLeavesBox` a failed start whose clean-up fails too. `Flush` writes the columns that differ from
what was loaded, as the ORM does; `Patch` is an UPDATE by id, which finds
nothing when the row is gone. Ids and ports are numbers; one that nobody refers
to any more may be used again. `fresh` says whether `last_request_at` is inside
the idle window, and `Age` lets it fall out of it.

**`Billing`** (`billing.py`, `api/billing.py`, `cli.set_plan`). Stripe is the
environment: `Buy`, `Reprice`, `Settle`, `Lapse`, `End` and `Notify` change the
account's subscriptions and send events; what has not been answered with a 200
is delivered again. A webhook request is `Receive` (duplicate check and user),
`Load` (`get_or_create_subscription`), `Flush` (what is written before the
commit), `Reply` and `Commit`, in one of the two orders `EarlyReply` chooses.
`FlushFails` and `CommitConflicts` are the unique keys. `Checkout` and `Grant`
are the two other writers. The account begins with any plan, as `default_plan`
of the settings may name any.

**`Registration`** (`api/auth.register`, the invite commands of `cli.py`).
`invite`, `users` are the committed tables; a registration goes `Claim`,
`CheckNames`, `InsertUser`, `BurnInvite`, `Commit`, `Reply`. What it has
written before its commit is in `pc`, together with the locks that follow from
it. `made`, `before` and `revoked` are history.

**`Workspace`** (`publish.py`, `publish_routes.py`, `storage.py`, the write
paths of `operations.py` and `api/v1.py`, `quotas.check_disk`). `draft[d]` is
the JSON file of a draft as the parts it holds and the number of bytes that are
there, `page[p]` the size of another file, `call[w]` what worker w is doing.
Opening a file for writing truncates it (`OpenDraft`, `Opened`), writing is a
step of its own (`WriteDraft`, `Fill`), and between the two anybody may read,
unlink, replace or move it; `fd` says whether the handle still leads to a file,
`to` to which one after a move. `quotas.check_disk` walks the tree and skips
what it cannot stat, so that of a file it counts what was there when it came by.
While w is at `check`, `low[w]` keeps the least size each file has had since the
walk began (`Measure`, a part of every step), and `Check` lets the call through
when these fit (`Counted`): the walk that misses most. `StoreArchive` and
`ExtractMember` are `extract_zip`. `MoveDraft` is `POST /files/move` of a
draft's file, which `api/v1.py:148` does not treat differently from another.
Two variables are history: `disturbed`, the drafts two calls worked on at once,
one of whose calls was killed, or whose file was moved away; `slipped`, that a
file was moved during a measure or a draft became a page.

**`DraftStore`** is the abstract specification of one draft: parts that are
added at its end, what is being published of it, and whether it is new, there
or gone. `Workspace` maps itself to it draft by draft (`StateOf`, `PartsOf`,
`TakenOf`): a part counts from the moment its request is answered, so of a file
that is being written it is all parts but the last.

**`AgentCalls`** (`a2a_server.message/send` and `tasks/cancel`,
`operations.run_code` around its slot, `deps.current_user`, `create_key` and
`revoke_key`, `quotas.check_exec_budget` and `check_api_keys`). A call goes
`Authenticate`, which loads the user with its plan, `Touch` (the write of
`last_used_at`), then what it is for: `Check`, `Acquire`, `RunEnds`, `Release`
for a run, `Ask` for a message without an operation, `Cancel`, `CountKeys` and
`InsertKey`, `Revoke`; then `Answer` and `Commit`. It may be killed (`Crash`),
lose the lock (`LockTimeout`) or raise (`Abandon`) in between. The operator
suspends and restores the account and makes keys for it without any check
(`MintOwnerKey`; `owned` are these), billing and the operator change its plan
(`SetPlan`), and compute falls out of the thirty days (`Expire`). What a run is
charged is measured around the container's start and its kill and exceeds the
timeout; the longest so far is kept in `longest`. `had` is history too: the
plans the account has had since it was last idle and within its plan.

**`Startup`** (`main.lifespan`, `db.run_migrations`, `owner.py`,
`cli.delete_user`). A worker reads the revision, migrates, checks the sandbox
runtime, looks for the owner, inserts it, empties and fills the credentials
file, commits. Between the flush of the owner's row (`InsertOwner`) and the
commit nobody gets past the same insert; the file is outside the transaction.

**`Launcher`** (`scripts/start.py`) extends it: `at` is the place in `main()`,
`children` its list of processes, `started` those this run has started, and the
control plane is the worker `Main`. A run that raises before it watches (`Raise`,
`Replace`) leaves its processes to the next one, which finds the ports taken
until they are gone. `env`, `advertised` and `shown` are the
public address in `.env`, in the settings of the running app and on the
screen.

**`RateLimit`** (`ratelimit.py`, the limits of `login` and `register`). `hits`
is the table of one worker; `attempts` is history, what was asked and what was
answered. Time is counted in half seconds.

**`Addresses`** (`main.SubdomainMiddleware` and `tls_check`, `hosting.py`): the
answer to a request as operators on host, path, deployments and files, and one
action, `Visit`.

**`Server`** puts the four together. They share no state, apart from the worker
that `Launcher` starts and `Startup` describes, so one of the three groups
moves in a behaviour (`moves`).

`MC*` give constants their values; `*_proofs` hold the theorems. In a component
module, definitions named `X_Something` are mutants of `X`: a plausible bug,
unused in the specification, that shows each property can fail.

## 4. Runs

| run | question | bounds |
|---|---|---|
| `exec_sqlite` | With one writer at a time, killed workers, an account deleted at any moment and other transactions that hold the lock as long as they like: do the live slots behave like the pool, is a run that is within its time counted, does every slot go and every call end? | 3 requests of 2 accounts, one of which may be deleted, budget 3 with runs of 2, 1 and 2, one run per account, arrivals at time 0, timeout and grace of 1 and runs of up to 3, 7 ticks |
| `exec_postgres` | Under READ COMMITTED, with a broker that loses replies: is an admission over the limits explained by those admitted between its check and its insert? | 4 requests, one of which fits nowhere, an account that may be deleted, 4 ticks, coroutines may be left alone for the whole run |
| `services_sqlite` | With owners' calls that exclude one another and a single worker's reaper: does every container have its row, can an idle service be woken, is waking invisible, is what is listed as running reachable, does an unused service stop? | one owner, visitors and one reaper, as in the cfg |
| `services_faults` | With kills, daemon calls that fail and outages of the daemon or the broker: is a dead service noticed once visits cease and the daemon can be reached? | one owner, one visitor, 2 reapers, 2 calls or kills, any number of outages |
| `services_workers` | Is a service listed as running reachable when there are several workers? No, see section 8. | 2 visitors, 2 reapers |
| `billing` | Do events apply once, is the plan the mirror's, and the one paid for when events come in order; is every event answered in the end? | any plan to begin with, 3 events, 2 requests at a time, one failure, repetition, checkout or grant |
| `billing_retry` | Can a retried cancellation take a new plan away? Yes, see section 8. | the same with one request at a time |
| `registration` | Do names stay unique, do revoked codes make no account, do burnt codes and accounts match, does every registration end? | 3 registrations that share a code, a name and an address pairwise, 4 acts of the operator, expiries or kills |
| `registration_invite` | Does each code work once? No, see section 8. | the same on SQLite, one act |
| `workspace` | What can quota and draft limit be exceeded by; is a part lost, or does a draft come back, other than where two calls were at it; and does a call act on a draft at once everywhere else, as `DraftStore` says? | 2 workers, 3 drafts, 3 pages, quota and upload limit 2, one draft allowed of 2 parts, 5 calls, moves or kills |
| `calls` | Quotas are checked before and charged after, against the plan that was loaded, and keys and tasks are read long before they are written: what can be exceeded, is anything final undone, does a task stay "working" after its call? | 2 requests at a time of one account, on SQLite, with lock timeouts, suspensions and kills, in one of two scenes: three keys, made by the account or by the operator, two plans, changed at any time, and runs measured at up to twice the smaller plan's limit; or one task, two keys, one plan and runs of one unit |
| `server` | Does the owner's key survive any boot; does `start.py` stop what it started; does the limiter count every window; is a space one site by every name? | 2 workers, 3 keys, 2 runs of `start.py`; 2 hosts, 2 accounts, limits of 1 and 2, a table of 2 keys, 6 ticks, 4 attempts; a space of 5 files and 5 deployments, 7 host names, 16 paths |

Why these bounds are enough to see what could go wrong:

- *Admission.* The three runs are chosen so that every verdict occurs: r1 and
  r2 collide on the account's limit, r1 and r3 on memory, r2 and r3 fit. `MaxRun`
  is longer than timeout and grace, so that runs overrun their slots; seven
  ticks are longer than queueing, lock wait, run and expiry in sequence.
  Larger `Lag` on Postgres lets a request stop between its check and its insert
  for as long as anybody else needs. The liveness properties are judged in
  behaviours in which the clock stops at `MaxTime`; everything that starts at
  time 0 is over before that, so stopping the clock hides nothing.
- *Services.* One account's name has one container name, so one row and one
  container are all there is. Ids are used again once nobody refers to them, so
  twelve do not run out (`IdsLeft`), and a stale id is one somebody holds.
- *Billing.* A purchase is two events, so three allow a purchase and a
  cancellation, or a purchase and a change, in every order. `MaxExtras` allows
  any one disturbance between any two steps.
- *Workspace.* Two workers and two pages of the size of an upload fill and
  overfill the quota; three drafts are one more than `DraftCap` allows. Workers,
  drafts and pages are symmetric and the run checks no liveness. `TextOf`
  chooses a worker, but only of one where no two calls are at a draft, and the
  property speaks of no other draft; so symmetry is sound. In `calls` the calls
  are symmetric, and so are two of the keys, which only differ once a request
  has taken one of them; it checks no liveness either.
- *Agent calls.* Plan limits of one make two calls enough to exceed them; the
  third key lets both mint beside the one that authenticates them. Two plans
  are enough for a downgrade under way, and runs of more than one unit let one
  charge pass a limit by itself. One task is enough, as tasks only meet a send
  and a cancel of the same id. What an account was charged and what its peers
  see of a task have nothing to say to one another, so the two runs each leave
  out what the other is about.
- *Server.* The four parts share no state but the worker that `start.py` runs,
  so `moves` picks the part that a behaviour is about, and their states add up
  instead of multiplying. Two workers meet at the owner's insert and a third
  could only wait behind them. Six half seconds are two windows of the limiter,
  and a table of two keys overflows at the third. Routing keeps no state: one
  request to each world, over all worlds, is everything there is.

`CHECK_DEADLOCK` stays on in every run but `server`: a component with nothing
to do takes `Quiet` or serves the next call, one in which somebody waits for
ever would be reported. In `server` the keys, runs, ticks and attempts are used
up at some point, and there is nothing to wait for.

## 5. Fairness

- `ExecAdmission`: weak fairness of `Step(r)`, because the event loop of a
  living worker comes back to each of its coroutines, and of `Tick`. None on
  arrivals, kills, or the end of another transaction: that a lock is given back
  is not assumed, `database_locked` is the code's answer to it.
- `ServiceLifecycle`: weak fairness of each owner's, visitor's and reaper's
  next step (`reaper.run_forever` loops as long as its process lives) and of
  `Age`. Outages come and go as they like; `DeadIsNoticed` is about behaviours
  in which they cease, because a pass skips the service whenever `stop_service`
  raises (`reaper.py:148-150`). A handler may however end at any time by `Crash` or `Locked`. None on
  `Call` and `Visit`.
- `Billing`: weak fairness of `Apply(w)` and `Deliver(n)`. Stripe repeats a
  delivery for days; the model lets it do so until it is answered.
- `Registration`: weak fairness of `Register(r)`.
- `Workspace`, `AgentCalls`, `Server`: none, their properties are safety.

## 6. What is proved

The theorems hold for every value of the constants that satisfies the named
assumptions: limits are positive numbers (`LimitsAssumption`), sets of actors
are disjoint and values such as `None` are outside the sets they stand apart
from (`ConstantsAssumption`, `NoneAssumption`, `NothingAssumption`,
`WorkspaceAssumption`, `StartupAssumption`), runs of `start.py` are counted
from one and its control plane is one of the workers (`LauncherAssumption`),
the rules of the limiter are positive and its two login windows the same
(`RateLimitAssumption`), a file and a directory are sequences of segments and a
deployment's name has no dot, which `NAME_RE` sees to (`AddressesAssumption`),
and requests at a time and keys are finite (`ConstantsAssumption` of
`AgentCalls`). Nothing is assumed of how long anything takes; where a bound on
time is needed it is a premise inside the property, as in `Covered`.

**Admission.** The inductive invariant is `CheckInv`: besides types, a request
between its DELETE and its commit holds the write lock if there is one, no
stamp lies in the future, a row belongs to a request that is past its
admission, and what a request has read is an upper bound of what is live now,
its rivals set aside. The last part (`ReadsBound`) is what makes the insert
safe: with room for the bound there is room for what is there. From it follow
`OvershootBounded` (any database), `LimitsAreHonoured` and `ImplementsSlotPool`
(one writer, hence no rivals). `SlotsAreKept` reads off the actions: a row goes
by its request's release, after its expiry, or with its account. `RunsAreCounted`
is about a run that is covered: its worker waits, its account exists, and it has
not lasted longer, check and lock wait included, than timeout and grace. Its
expiry is then in the future, so that nobody's clean-up takes its row, and
nobody else's release does. With the limits it gives `MachineIsSafe`: the
containers of covered runs fit the machine. Neither says anything of the
containers of killed workers, lost replies, deleted accounts or runs over their
time, which go on while their memory is given to somebody else.
The lemmas of `SlotLimits_proofs` are the arithmetic of sums over
sets of slots.

**Services.** `TypeInv` strengthens the types by what a session holds at each
place. `CallInv` says that, between owners' calls, row and container match
(`Matched`), and what the call under way has loaded and done so far
(`Underway`). It is inductive where owners' calls exclude one another, nobody
is killed and no call of the daemon fails, however many visitors and reapers there are: a
visitor or a reaper keeps the identity of row and container
(`ShapeIsEnough`). `ContainersHaveRows` and `SleepersCanWake` follow.
`VisitInv` is what visitors and the reaper owe each other while nobody
redeploys: whoever wakes the service has no reaper under way, since a reaper
starts on a row that is running and a waking visitor on one that is not, or on
one it has just stamped as fresh; the address a visitor holds is reachable; and
the reaper marks a row idle only when the container is down. It needs one
reaper (with two it is false, see finding 1) and gives `WakingIsInvisible` and
`ListedIsReachable`.

**Billing.** `AnsweredInv`: an event nobody delivers any more is recorded,
lost, or carried by a request that has answered for it. `SyncInv`: a request
that nobody overlaps knows the current plan and, once it has read it, the
current row, so that what it writes keeps plan and mirror together.
`EventsApplyOnce` follows from the commit that inserts the event's id.
`OrderInv` relates both ends of the queue: as long as nothing was out of order,
there is a sequence of rows, one for each event sent (`Replays`), the mirror is
the one the recorded prefix has reached, the request under way carries the next
event, and the last row says what is billed (`Agrees`). A commit moves along the
sequence, a step of Stripe makes it longer. With the queue empty and nobody
under way the prefix is everything (`AnsweredInv`), and the plan is the
mirror's (`SyncInv`): `MoneyIsReconciled`.

**Registration.** `LocksInv`: a code being burnt is still there, and those who
have written their user clash neither with one another nor with an account.
`HistoryInv`: what was made, withdrawn and read. From the two follow the
theorems on names, codes and answers; `TheAccountsAddUp` joins three of them
into the one that the run checks.

**Workspace.** `ShapeInv` says what a call has in hand at each place. The
quota's bound cannot be inductive by itself, since a call may have passed the
check and not yet written; `GrantInv` counts what every call may still write
as if it were there. Nor is it enough that a call gets a grant only when what it
measured fits the limit, because the walk may have missed what others wrote
since it began. `GrantInv` therefore gives the measures that are under way
turns (`InTurn`): the oldest k of them may have missed everything, each of the
others knows of all but one upload of each worker that is neither it nor in
turn before it. A grant spends a turn, and a write, a deletion or the beginning
of a measure keeps the order. As long as nothing slipped past a walk by a move,
and no draft became a page, this bounds the pages by one upload for each worker.
`CapInv` does the same for draft files:
those that are there together with those a call is about to write. `FileInv`
says, of a draft that only one call at a time has worked on, what is in its
file and what that call knows of it (`Knows`): the text it will write is what
was acknowledged and one part more, what it publishes is what was acknowledged.
A draft whose file was moved away counts as disturbed. Every step either passes such a draft by (`Aside`) or is the step of the one
call that is at it; `KeptUntilGone` follows. `OrderInv`
adds the order: the part under way bears the last number, no answered part
does, and those that were answered come before it in the order they have in the
file; a draft that was numbered and never answered is one that a call is about
to write. With it every action is a step of `DraftStore`, or none
(`CallsActAtOnce`): `WriteDraft` adds, `PublishLoads` takes, `Check` may refuse,
`Discard` and `ExpireUnlinks` drop, everything else goes unseen
(`NothingSeen`). With one worker that is never killed (`docker/entrypoint.sh:18` starts two
unless told otherwise) nothing is ever disturbed but by a move, and `Workspace`
implements `DraftStore` for every draft that is not moved out of its directory
(`OneWorkerKeepsStores`).

**Agent calls.** `SessionInv` says what a session holds at each place, and that
a lock belongs to a call under way. The bounds of `QuotasBounded` are not
inductive in the number of calls that were let through: the sum of what is
there and of what those calls may add is, because a call is let through only
when there is room for one, and the others are one fewer than all calls. A call
compares with the plan it has loaded; that plan is one of `had`, and the bound
is that of the most generous of them. A plan is dropped from `had` only when no
call is under way and what is counted is within the present one. A charge is at
most `longest`, which only grows, and so do the bounds with it. Keys of the
operator's command are counted apart. For
`NothingUndone`, `KeysRead` and `TasksRead` say that what a session has read is
still so when it writes: the key it stamps exists, the key it mints does not,
the task it cancels is not over, which holds where the session has held
SQLite's write lock since it touched its own key. `EndsInv` is what makes
`WorkInHand` inductive: by the time a call that created a task can let go of it,
its session has a state to write, and never "working".

**Start-up.** `OwnerInv`: between the flush of the owner's row and the commit
there is at most one worker, and no owner; a file that is written carries that
worker's key. `TheKeyIsKept` follows, because the commit is the only way in.

**Launcher.** `LaunchInv` says what is on the list of children at each place of
`main()` (`ProcsInv`), which address the app has been started with (`UrlInv`)
and that, unless something died, what is on the list runs (`WatchInv`). It
needs `OwnerInv`, because the control plane is one of the workers.

**Rate limits.** `Limited` speaks of the history of attempts, while the code
has nothing but its buckets. `LimitInv` ties the two: for each key there is an increasing
enumeration of attempts that were let through, the bucket holds their times,
and what it does not list has left the window (`Remembers`). Hence, after
pruning, the bucket's length is the number of those let through in the window
(`ListedAreCounted`), an eviction forgets only what is past the longest window
(`EvictionForgets`), and the first of the bucket is the first to leave, which
makes the advertised wait the right one (`FirstLeavesFirst`, `WaitIsRounded`).

**Addresses.** `AddressInv` is that the answer is the operator's value on a
world that has not changed since; the work is in the operators: what a directory
sends lies below it and is not hidden (`StaticIsBelow`), a file is sent for its
own path (`FileIsServed`), a name picks its deployment (`NamedIsPicked`). Both
are pure lemmas on prefixes of sequences, for files of any depth.

## 7. What is only model-checked

Liveness under fairness is out of the prover's reach: `SlotsEventuallyFree`,
`EveryCallEnds`, `UnusedIsStopped`, `DeadIsNoticed`, `QueueDrains`,
`EveryRegistrationEnds`. Every invariant and every action property
that a passing run checks is also a theorem.

## 8. Where code and documentation disagree

1. **Several reapers** (`services_workers`, `reaper.py:146`). Each worker has
   its own reaper and its own snapshot. The second one stops a container that
   the first has put to sleep and a visitor has just woken. The row then says
   running; each request refreshes `last_request_at` before it fails to
   connect, so no pass corrects it while visits go on. The documentation says
   idling costs latency and not availability.
2. **Retried cancellation** (`billing_retry`, `billing.py:226`). Only events
   whose transaction has committed are known as duplicates. A cancellation
   whose first delivery failed, retried after the account has subscribed again,
   sets the plan to free. The documentation says that recorded ids prevent it.
3. **Invites** (`registration_invite`, `api/auth.py:111`). Two registrations
   that have read the same unused code both make an account, on SQLite too,
   because the code is read before the transaction takes the write lock. The
   documentation says each code works once.

The quotations, with their lines, are in `PROJECT.json`.

## 9. Abstractions, and what is not modelled

*Admission.* A call with an API key may already hold SQLite's write lock when
it enters `acquire`, as authentication updates `last_used_at`; a request here
takes it at its DELETE at the latest, which allows more interleavings. The
wording of the busy error and its counts are left out, the code of the error is
not. The container of a killed worker, of a run whose reply was lost, of a
deleted account (`accounts.py:64` takes the slots and stops services only) or of
a run that outlasts its slot goes on while its memory is given to somebody else:
the model contains all four, and `ContainersFitBudget` holds for the others.
`scheduler.py` calls its grace a margin for a container's start and removal;
each call of the daemon may take its own timeout, and the remote driver waits
for the broker for the whole grace, so nothing here assumes that it suffices. A
request whose account is purged while it waits for room is admitted all the same
on SQLite, whose foreign keys are off.

*Services.* Plans that never sleep are left out, and so is the choice among
several deployments. `Age` assumes that a request reaches its container within
the idle window. Only a call with an API key takes the write lock early, with
`last_used_at`. Owners with a cookie session, among them the account's own
deletion, and the operator's `delete_user` do not: on SQLite too they behave as
with `Serialised = FALSE`, and the overlap of a deploy with a purge exists
there. `services_sqlite` and the theorems on rows and containers are about
calls that exclude one another. The drivers swallow most errors of the daemon
once they have reached it; what raises is in the actions named in section 3. The model has some
behaviours no run makes a claim about: a visit during a redeploy may mark the
new container's row stopped (`reaper.py:60-65`), a reaper may mark a redeployed
service idle, a deploy that overlaps `purge_user` under READ COMMITTED may
leave its container behind, a failed start whose clean-up fails leaves one too, `deploy_site` keeps a former service's container
until the next redeploy or deletion.

*Billing.* One account. Which account an event belongs to, customer ids, the
statuses "trialing" and "incomplete", the signature, the deletion of the
account and events without an id are left out. Reads on SQLite run outside the
write transaction, as with the driver's legacy transaction control. Whether the
commit precedes or follows the 200 depends on when the framework tears the
session's dependency down; `EarlyReply` is the constant for it, TRUE in the
`billing` run (`api/auth.py` 198-203 commits by itself for this reason,
`webhook` does not). Two overlapping requests may leave a plan that is not the
mirror's, and events out of order one that is not paid for; `upset` records
what happened, so that the properties say when they hold. The overlaps
themselves, and a checkout that meets an event, are hazards without a property.

*Registration.* The instance requires invites. Passwords, login, key management
after registration and domains are left out. For safety, Postgres allows every
interleaving SQLite does; the `registration` run is the wider one.

*Workspace.* One worker runs a handler from its first to its last file
operation, as nothing in between suspends it; `docker/entrypoint.sh:18` starts
two workers by default; the walk of `disk_usage` is the exception, since other
workers go on meanwhile. An archive is measured packed and written unpacked, and
drafts and what the sandbox writes are not checked at all, so "Per-user quotas
cap one workspace" (`quotas.py:31`) holds for pages only, up to the bound that is
proved: one upload for each worker. Even that is lost when a file is moved while
another worker measures, which may hide it from the walk, and when a draft is
moved out of `.drafts` (`slipped`): whoever stages and moves drafts in turn fills
the disk with pages that were never compared with the quota. Appends of two workers to one draft may lose
a part whose reply said it was held (`publish_routes.py:215-223`), and a draft
half written by one may be unlinked by the other's `_expire_drafts`: this is
what `disturbed` leaves out. Not modelled: directories; two uploads of one file
name, which share an archive; files that a client writes into `.drafts`, moves
into it or deletes from it by the file API (moving one out is `MoveDraft`);
what the account's containers write to the workspace they have mounted; and the
removal of the workspace with its account.

*Agent calls.* A plan that is lowered leaves an account above its limits until
usage has aged or keys are revoked; `had` says against which plans it is held.
A charge has no bound in the code (`duration_ms` spans start, wait and kill),
`MaxRan` is the model's. Of the operations a message may name, only `run_code` and none
at all are modelled: the others change tables other modules are about, between
the same commits. `check_deployments` has the shape of `check_api_keys`. The
model shows some things no property claims: the "completed" of a run overwrites
the "canceled" of a cancel that came while it ran; on Postgres a cancel may
overwrite a result in the same way, as nothing locks the row between its read
and its commit (`a2a_server.py:375`); a task stays "working" for ever when its
call is killed, or raises something that is not an `AgentSpaceError`, after the
scheduler has committed the row (`broken`); an A2A answer leaves before the
commit it speaks of, whereas MCP's `tools/call` commits first.

*Start-up.* A migration is one step: SQLite killed inside one is not modelled.
Nor is an owner who revokes the key in the file.

*Launcher.* `control.wait(timeout=10)` (`start.py:302`) may raise
`TimeoutExpired`, which nothing catches: broker and tunnel go on without their
launcher. So may whatever else raises before the `try` of `start.py:309`, an
early Ctrl-C among it (`Raise`). The place "raised" stands for these and
`LauncherKeepsItsWord` says nothing of it: what such a run has started stays.
The next run may begin at once and is refused as long as a port is taken; a
control plane that has closed its port and hangs counts as ended. A later run
without a tunnel keeps the dead tunnel's address in `.env`, which `Configure`
shows.

*Rate limits.* A table belongs to one worker and to one run of it, so that an
instance of n workers lets through up to n times the limit; the property is
about one table. Eviction drops stale keys only: that the table "cannot grow
without limit" holds for those. `login` counts every attempt, including the
ones that succeed.

*Addresses.* A space has no symbolic links (`storage.resolve` is not modelled),
a host name has been normalised, an ETag is the identity of a file. The content
of listing and profile pages is left out. Two things the operators show and no
property claims: `PLATFORM_PREFIXES` is compared by `startswith`, so that a
page `apiary.html` on a subdomain is taken for the platform's; `tls_check`
approves names below a subdomain, and subdomains of nobody, which
`SubdomainMiddleware` sends to the apex.

*Not modelled at all*: the protocol front ends, which route and render; the
security helpers, pure functions on strings; the local and none drivers, for
tests and for installations without a sandbox; the installation scripts, run
once by an operator.
