# gold-desire: a verification project

gold-desire collects A-share market data during the trading day, runs
limit-up strategies on it and shows both on live pages. This directory holds
TLA+ models of the parts of it that are hard to test, the TLC configurations
that check them on small instances, and proofs of their main safety properties
for every instance. The reference is the code under `backend/app` and
`frontend/src`; the lines each definition stands for are listed under `map` in
`PROJECT.json`.

## 1. The system

Four kinds of process share one PostgreSQL database and one Redis: the ingest
**worker**, one or more **API** processes, the **agent** endpoints inside the
API, and the **browser** pages.

| component | state | operations | talks to |
|---|---|---|---|
| ingest scheduler (`ingest/scheduler.py`) | `_last_attempt` in memory, marks in `pool_snapshot` | `run_once`, `run_forever` | executor, calendar, maintenance, phases, events |
| task executor (`ingest/pipeline.py`) | one `ingest_jobs` row a run, raw archive | `run_task`, `run_many` | data sources, writers |
| calendar and marks (`ingest/calendar_store.py`) | stored calendar, completion marks | `is_trading_day`, `_state_status`, `_state_mark` | trading_calendar task |
| tasks and windows (`ingest/tasks.py`, `windows.py`) | declarations | derived arguments, `in_window` | stored pools and ladders |
| writers and pools (`ingest/writers.py`, `repositories/pool.py`) | market tables | replace, supplement, merge, aggregate | executor, manual trigger |
| maintenance (`repositories/retention.py`, `db/partitions.py`) | market tables, month partitions | retention deletes, partition DDL | the tick's session, a second connection |
| strategy phases (`ingest/strategy_hooks.py`, `strategies/registry.py`) | results, marks | `run_strategy_phases`, `run_phase` | stored bars, event bus |
| events (`ingest/events.py`) | none | invalidate, publish | L2, event bus |
| manual trigger (`ingest/api_hooks.py`) | none | `trigger_task` | executor, in a request |
| versioned configuration (`repositories/config.py`) | versions of strategy and factor parameters | save, roll back, activate | admin endpoints, agent tools |
| read cache (`services/cache_policy.py`, `core/cache.py`) | L1 per process, L2 in Redis | `get_or_load`, `invalidate` | every read endpoint |
| websocket hub and bus (`api/ws.py`, `core/ws_bus.py`) | connections, channel sets | publish, relay, subscribe | worker, pages |
| page refresh (`hooks/useChannelRefresh.ts`, `lib/ws.ts`) | socket, queries | refetch on event or timer, reconnect | hub, REST |
| data sources (`datasources/`) | order in memory, token buckets | resolve with failover, acquire | upstreams |
| agent (`agent/`, `services/agent_service.py`) | messages, pending confirmations | run a turn, confirm | model, tools, cache |
| accounts (`services/user_service.py`, `role_service.py`, `auth_service.py`) | users, roles, invitations | change role, disable, consume | admin endpoints |
| limits (`core/rate_limit.py`, `core/captcha.py`) | counters and one-time entries in the cache | hit, record, consume | middleware, login |
| backtests (`services/report_service.py`, `engine/backtest.py`) | `backtest_runs` rows, tasks in memory | start, execute | stored bars |
| market cycle (`services/cycle.py`) | one state a day | judge | sentiment writer |
| numeric core (`engine/`, `factors/`, strategy plugins) | none | samples, gates, sell rules, portfolio | bars |

What is hard here, and what makes each part correct:

* **The day of the worker.** A tick runs dozens of tasks in one database
  session with a commit after each, is interrupted by exceptions, crashes and
  redeployments, and is repeated every 15 seconds. A one-shot task must
  complete once and not be lost; an interval task must go on; a success must
  mean that the rows are there; events must follow the commit.
* **Maintenance.** Two connections of one process take table locks.
* **Configuration.** Two requests activate versions of one owner under READ
  COMMITTED; one version must be active.
* **Refresh.** An event, two cache levels and several processes must not leave
  a page on old rows.
* **Cache-held state.** Confirmations, captchas, counters and invitations are
  read, then written.
* **Memory-held state.** The source order, the token buckets and background
  backtests live in one process.

`PROJECT.json` lists every hazard at its line, with the properties that cover
it or the reason why none does yet.

## 2. Modules

| module | stands for |
|---|---|
| `IngestScheduler` | the worker over one trade date, with the manual trigger of the API |
| `DailyRegister` | what the worker promises about its one-shot tasks; abstract |
| `IngestScheduler_proofs` | theorems about the worker |
| `MaintenanceLocks` | the table locks of the daily maintenance, beside readers |
| `MaintenanceLocks_proofs` | theorems about the maintenance |
| `VersionedConfig` | concurrent saves, rollbacks and activations of one owner |
| `VersionRegister` | what they promise about the newest versions; abstract |
| `VersionedConfig_proofs` | theorems about them |
| `LiveRefresh` | commit, invalidation, event, caches and pages for one cached key |
| `LiveRefresh_proofs` | theorems about the caches |
| `StrategyPhases` | the strategy phases of a tick: gates, isolation, marks, advice |
| `PoolWriters` | the rounds of a date in the tables that are rewritten all day |
| `SourceFailover` | which data source answers, and the requests that change the order |
| `TokenBucket` | the rate limit of one source with concurrent callers |
| `Accounts` | users, roles and invitations under overlapping requests |
| `RequestLimits` | counters, login lock and captcha over a cache of get, set and delete |
| `Assistant` | a turn of the agent, and confirmations that later requests take up |
| `BacktestRun` | a backtest row between its request and its background task |
| `Schema`, `Releases` | the tables revision by revision; upgrades, downgrades, restores |
| `BoardRules`, `DragonEngine`, `FactorBands`, `CycleJudge` | pure: board patterns; paths, sales and portfolio; parameters, bands and statistics; the judgement of the market cycle |
| `Requests_proofs` | theorems about `Accounts`, `RequestLimits` and `Assistant` |
| `Collection_proofs` | theorems about `SourceFailover`, `TokenBucket` and `PoolWriters` |
| `Strategies_proofs` | theorems about `StrategyPhases`, `BacktestRun` and the pure modules |
| `Services_proofs` | theorems about `Schema` and `Releases`, and about `MCServices`, which composes all parts |
| `MCServices` | the instance of all modules after `LiveRefresh` |
| `MC...` | the other instances that TLC checks |

A module with states contains, before an action or an operator, *faulty variants* of
it (named so in their comments). They are not part of `Next`; each property was
seen to fail when the variant takes the place of its original, so none of the
properties is vacuous on its instance.

### IngestScheduler

One date is enough because marks, `_last_attempt` and calendar rows are keyed
by the date. The variables fall into the groups that decide what a failure
takes away:

* *committed rows*: `status` (marks), `stored` (rounds of a task whose rows are
  there), `calendar`, `job`;
* *session*: `wStatus`, `wDone`, `wJob`, `wRounds`, what the open transaction
  has written. `CommitMarks` makes it permanent, `DropSession` throws it away;
* *memory*: `pc`, `cursor`, `plan`, `moment`, `lastAttempt`, `outcome`;
* *observability*: `completions` and `announced`, which no action reads.

`outcome` is what `run_task` returned; no action of `Next` reads it either.

| action | code |
|---|---|
| `BeginTick`, `CheckCalendar`, `CheckCalendarOffline` | `run_once` to the calendar gate, `is_trading_day` |
| `SkipTask`, `StartTask`, `RunRound`, `FinishTask`, `FailTask`, `CommitTask`, `NotifyTask`, `TasksDone` | the task loop and `run_task`; one round is one element of `args_list` |
| `SkipDailyJob`, `RunDailyJob`, `FailDailyJob`, `HangInMaintenance` | `_maybe_maintenance`, `_maybe_pool_amount` with their commits |
| `SkipPhase`, `RunPhase`, `FailPhase` | `_maybe_strategies`, `_maybe_opening`, `run_strategy_phases` |
| `CommitTick` | the commit at the end of `run_once` |
| `AbortTick` | a database error: the exception leaves `run_once`, `run_forever` logs it |
| `Crash`, `Restart`, `AdvanceClock` | the process and the clock |
| `Trigger` | `trigger_task` in its own transaction |

The tasks, their windows, intervals and rounds are constants, so the theorems
hold for every task table. Moments stand for stretches of the day: a tick in
the same moment as an earlier one repeats it.

### DailyRegister

Two sets, `done` and `told`: items are completed once, never undone and told of
only afterwards. `IngestScheduler` implements it with `done` as the one-shot
tasks whose committed mark is "succeeded", and `told` as those that were
announced. Ticks, sessions, retries and crashes are stutters.

### MaintenanceLocks

The tick's session reads its mark (a share lock) and deletes (row locks) from
several tables; these stay until the commit. `RequestPartition` asks for the
exclusive lock of a parent table on a second connection. The lock manager is
external: `Request`, `Grant` and `Release` model a queue per database in which
a request waits for conflicting holders and for conflicting requests before it.
A crash leaves the waiting connection behind (`orphan`) until the wait is over.
`IngestScheduler` uses the result of this module: `HangInMaintenance` is taken
when, and only when, there is a partition to create.

### VersionedConfig

One owner. A request is a transaction: `Number` reads the largest version,
`Insert` flushes the draft (waiting for a transaction with the same key, and
failing when it was committed), `Snapshot` and `Archive` are the two moments of
the archiving UPDATE under READ COMMITTED, `Commit` makes the target active.
The draft status is not committed anywhere and does not appear. `mix` chooses
which operations run beside each other in a behaviour, because the code keeps
its promise within a mix and not across.

### VersionRegister

A history `1 .. newest` and one version `inForce`. `Save` appends a version and
puts it in force, `Activate` puts any version of the history in force.
`VersionedConfig` implements it in every mix, across the kinds of requests too,
with `newest` as the largest stored version and `inForce` as the largest active
one (0 if there were none), which is the first active row that `list_versions`
shows. So the owner is never left without a version in force. Requests under way
and failed ones are stutters, and so is the commit of an activation that has not
seen a newer active version: it leaves that one active beside its own target. That is how far the promise of one active version survives overlapping requests
of both kinds (`config_active` shows that it does not survive whole).
`get_active` asks for no order: with two active rows it may return either, so
the register speaks of the newest active row and not of what `get_active` returns.

### LiveRefresh

One cached key; its rows are a version number. `Serve` takes `get_or_load` one
`await` at a time; `InvalidateL2` and `Publish` are the two steps of
`notify_ingest_completed`; `WriteOther` is another task on the same channel.
Time is a tick that ages entries; a request may last `MaxAge` ticks. An event
makes a page ask again as `invalidateQueries` of TanStack Query 5 does: the
request in flight of a page that shows something is dropped, but the first load of a
page (`shown` is `Blank`) is not, and the event joins it. `Loaded` are the pages
that were open before and show the first version, whether or not they are
refetching it.

### StrategyPhases

`IngestScheduler` knows a phase by its mark; this module opens it up.
`BeginStrategyTick` picks the phases that are due, `ReadGate` reads the cycle
once a phase, `GateStrategy` and `RunStrategy` serve one strategy each.
`StrategyRaises` is an exception in Python, after which the next strategy runs;
`DatabaseRefuses` breaks the transaction, and with it every later strategy and
the tick. `MarkPhase` and `CommitStrategyTick` end it, `DropStrategyTick` loses
it. `ReadDefinitions` and `CommitDefinitions` are the synchronisation at the
start of the API, which writes back the switch it has read.

### PoolWriters

A run of a writer is one transaction whose statements are separate actions, with
the snapshot of each. Two actors, the worker and a manual trigger, run replacement,
amounts, aggregation, the merge of opening quotes and the market cycle.
The history variable `mixed` records that two runs of one kind overlapped, where
the code makes no promise; each property names the overlaps that it excludes.

### SourceFailover and TokenBucket

`SourceFailover` follows one fetch: `BeginFetch` resolves the order, `RetrySource`
asks a source again, `NextSource` goes on to the next, `EscapeLoop` leaves on an
exception of another kind, `SourceAnswers` and `EndFetch` use the rows. Edits of the order change
the memory of the API process one capability at a time and commit afterwards;
`RestartProcess` loads what the code loads. `TokenBucket` is `acquire` with its
one sleep: fractions are whole credits, a sleep may end late, and `granted`
counts grants by age to state the rate.

### Accounts, RequestLimits, Assistant, BacktestRun

These are requests that read, check and write. A request is an authenticated
actor, a load, a check and a commit, and two of them interleave at the awaits.
`raced`, `overlapped` and `reused` remember overlaps. `Assistant` adds the loop
around the model with its budgets, the tools it may ask for and the confirmation that another request executes.
In `RequestLimits` a tick is half a second, the grain in which the code rounds: a
lock's last half second reads as none (`Refuses`), an entry's life in the cache may
end half a second before its window or after it (`Rounded`), and the deletion of a
lock that was read as over takes whatever lock is there by then (`DropLock`).
`BacktestRun` adds the task that starts before the row of its run is committed,
and the process that stops with it. A task ends in one of four ways: it has written
its end (`ended`), its failure met no row (`unseen`), the write of the failure
failed itself (`raised`), or its process stopped (`lost`). `EndedRunsAreFinal` is
about the first: no row is final but by such an end, so that a failure that met no
row (`unseen`) leaves the run that is committed after it pending, which `findings`
records. The list of runs that both invalidate is a key of the read cache:
how stale it may be is what `LiveRefresh` says of such keys.

### Schema and Releases

`Schema` holds the tables as the revisions build them, and those that the
models declare; `SchemaAssumption` says the last revision reaches the declared
tables. `Releases` moves code and tables apart and together again with the
scripts of the operator. `early` are the tables that the worker's `create_all` made
before their revision (`EnsureSchema`, at every start of the worker): an upgrade
that would create one of them fails (`CanUpgrade`), and so does one whose
identifier does not fit the version column, which with the 32 characters of Alembic
is every upgrade to `0011`. So no API of that release serves in the run; its worker
does start, and its upgrades fail.

### The pure modules

`BoardRules`, `DragonEngine`, `FactorBands` and `CycleJudge` are operators.
Numbers are integers on a scale that keeps the comparisons of the code exact,
rounding at a threshold is left out. What they promise are formulas with the
inputs as parameters, so that an instance chooses the inputs; `MCServices`
assumes them, and TLC evaluates every assumption before it checks a state. Some of
these formulas are existential: they show that a case a comment excludes does
occur (`OpeningIsBlind`, `LastBoardIsUnchecked`, `SwitchForgets`,
`IceYieldsToDivergence`, `BandsMayOverlap`, `DegradedIsKept`,
`DegradedCountsAsOther`, `OverridesShareAVersion`). `LeaderNeverFalls` says
that the rule for a fallen leader has no input that fires it, as the leader is
taken from the limit-ups of the same day.

### MCServices

The service modules share nothing but the database, so one instance runs them
side by side: `part` chooses the one that moves, and the others keep their
initial state. The limits take two turns, as `login` and as `registration`: the
counters of the two have nothing in common but the clock. Actors of all parts are the same two model values, so one
symmetry serves all of them, and it is used for invariants only.

## 3. Runs

| run | checks | result |
|---|---|---|
| `day_safety` | three moments, four tasks (one-shot, interval, derived, with one or two rounds), a fault, a crash, a trigger | type, completion once, events after commits, success means stored, no orphaned job, every due task served, marks final, implements `DailyRegister` |
| `day_liveness` | two moments, three tasks, two faults and a crash | ticks end; one-shots, jobs and phases succeed in the end; holidays fall quiet |
| `day_phases` | the same day | **violated**: phases succeed on missing bars |
| `day_failures` | the same day | **violated**: a database error leaves no job row |
| `locks_steady` | three tables, two readers, a DDL error and a crash | the mark stands for partitions; who waits, and what frees them |
| `locks_hang` | the same | **violated**: maintenance waits for its own tick |
| `config_requests` | three requests, three versions, one failure | one active version within a mix, last save in force, requests end, implements `VersionRegister` |
| `config_active` | two requests, a save and an activation | **violated**: two active versions |
| `refresh_caches` | two API processes, two requests, a write, a foreign event, a fault | no answer older than the lifetimes allow |
| `refresh_polled` | one process, a polled page that is opened and a pushed one that was open, a write, a fault | caches and polled pages catch up; the pushed page asks after the write |
| `refresh_pushed` | one process, an open page, two tasks on one channel, no fault | **violated**: the page keeps the old rows |
| `services` | one of nine parts at a time, login and registration apart, two actors each (below) | each part keeps its promises; all assumptions of the pure modules hold |

The violated properties quote what a comment or a document says; each is
explained under `findings` in `PROJECT.json`.

**Bounds.** `MaxFaults`, `MaxCrashes`, `MaxTriggers`, `MaxFailures`,
`MaxWrites`, `MaxOthers` and `MaxAge` cap what the environment does, `Horizon`,
`MaxVersion` and the sets of tasks, tables, readers, requests, processes and
slots the size. They are chosen so that each interesting case occurs:

* a task with two rounds can fail between them; a task before and one behind it
  in the order can be starved; one fault, one crash and one trigger can fall on
  any step, in any order; in the liveness run two faults can hit a task and its
  retry;
* the first and the last table of the maintenance differ from the table of the
  marks, and one reader can hold a lock while another waits;
* three requests let one commit while another waits and a third starts; three
  versions let an older version be activated while two are saved;
* in `services`, two actors overlap in every way, and `MaxCalls`, `MaxRuns`,
  `MaxTurns` and `MaxEdits` let a third request follow the two. A bucket of two tokens with three ticks a token is empty, full and
  waited for within six ticks. Two upstreams and the fake one, with two attempts
  each, give every order and every failure. The releases are 4, 10 and 11: between them
  tables are created and change for older code, and the last one cannot be installed;
* in its parts for the login and the registration, a limit of one hit and two failures is reached and passed; windows of
  four ticks end during a request, with every rounding of what is left of them.
  `Followed` ends that part once both counters have been used by two requests at
  once, of which `LimitsHold` says nothing any more;
* the pure modules are evaluated on every history of four bars from five
  closes, and of seven bars with limit-ups on any of six days, samples on either side of each threshold, runs of eight days for a
  switch of two and three, every order of two and three thresholds;
* two processes and two slots let a late fill on one race a read on the other;
  the TTLs differ and both entries can expire during a request.

`refresh_caches` uses symmetry in processes and slots, and `services` in
actors, for invariants only. Deadlock is checked
in no run: when the bounds are used up and the day, the maintenance or the requests
are over, the models really have nothing left to do. That nobody is stuck before is
what the liveness properties say (`RequestsEnd`, `EveryTickEnds`,
`CompletesWithoutNewPartitions`).

**Fairness.** The worker is an event loop that waits for upstreams, whose
clients have timeouts (`datasources/providers`), and for the database, whose
statements end except for the one that `locks_hang` shows; `run_forever`
catches every exception and sleeps a fixed time: weak fairness of its steps. The worker is restarted by the compose policy
`unless-stopped`: weak fairness of `Restart`. Faults, crashes, triggers and
requests are under no fairness. In `VersionedConfig` each request goes on when
it can, and PostgreSQL serves the waiters of a row lock in turn: strong
fairness of `Archive`. In `LiveRefresh` the retries of subscriptions and
sockets are timers (weak fairness), and `Send` is strongly fair because a free
slot stands for a server that takes up requests in turn.

## 4. Proofs

The proofs hold for every value of the constants that the named assumptions of
the modules admit: every task table, window, interval, number of rounds, horizon
and bound (`TasksAssumption`, `DayAssumption`, `BoundsAssumption`), all requests,
versions and failures (`ConfigAssumption`), all tables, deletes and readers, all
processes, pages and lifetimes (`RefreshAssumption`), all users, roles and codes
(`AccountsAssumption`), all limits and windows (`LimitsAssumption`), all budgets,
tokens, runs and pages, all sources and orders (`FailoverAssumption`), rates and
delays (`BucketAssumption`), securities and judgements (`WritersAssumption`,
`PhasesAssumption`), and all releases (`ReleaseAssumption`). TLC evaluates each
assumption on the instances of the runs.

Modules whose variables have different names share a proof module, with a section
each. Every invariant and action property that a run checks is stated by a
theorem, and so is every refinement.

### The worker

`IInv` is the inductive invariant. The properties alone are not inductive: a
commit may complete a key once more unless the session knew of its success.

* `SessionInv` ties the session to the committed marks: outside the commit of a
  task the session's marks of tasks are the committed ones, every key in
  `wDone` is marked succeeded in the session, a committed success of a one-shot
  key is seen by the session, and nothing is pending between tasks.
* `RunInv` follows one run: a one-shot task in progress is not yet succeeded,
  and when the run is to be committed its job status and mark agree and, for a
  success, all its rounds are written.
* `CountInv` says that a completed key is succeeded, completed once at most,
  and not pending again.
* `TaskEventsFollowCommits`, `SuccessIsStored` and `NoOrphanedJob` complete it.

One lemma a part (`TypeStep`, `SessionStep`, `RunStep`, `CountStep`,
`EventStep`, `StoredStep`, `JobStep`) has a step for each action that disturbs
it. `CompletedOnce`, `EventsFollowCommits`, `SuccessMeansStored` and
`NoJobOrphaned` follow; `MarksAreFinal` is an action property from the same
invariant. `LoopServesAll` needs an invariant of its own, `LoopInv`: every task
before the cursor has been served. `Refinement` maps each step to a step of
`DailyRegister` or to a stutter; only `CommitTask` of a successful one-shot
task and `NotifyTask` of a one-shot task are not stutters.

### The versions

`IInv` says that the stored versions are `1 .. n` (`HistoryInv`), that a
draft past its INSERT is `n + 1` (`PlaceInv`) and belongs to one request
(`DraftInv`), that the snapshot of an UPDATE has every row when all requests
are of one kind (`SeenInv`), and which version is active (`ActiveInv`).
`OneActive`, `SomeActive` and `LastSaveInForce` follow.

The refinement of `VersionRegister` holds in every mix, where snapshots do miss
rows, and so needs what they still have in common. `SnapshotInv`: a request that
has taken the snapshot of its UPDATE has seen a beginning `1 .. k` of the history
and its own draft, with the target of an activation in it. `TopInv`: one active
version is the newest active one. `CommitTop` computes what a commit makes the
newest active version: a draft is `n + 1` and above all others; an activation
archives `1 .. k`, so that its target is the newest unless a version above `k` is
active, and that one was the newest before. `StepsOfTheRegister` turns these
cases into `Save`, `Activate` or a stutter.

That overlapping requests end (`RequestsEnd`) stays with TLC. It rests on one
abstraction: `Archive` takes the rows of an activation in one step. The UPDATE
(`repositories/config.py:112`) has no ORDER BY, so two of them could lock the rows
of one owner in different orders and wait for each other; PostgreSQL then fails one,
which is the step `Fail` of the model, taken a little earlier.

### The maintenance

The deletes and the mark of the tick are statements of its session, the
partitions are created on a second connection. `MarkTableInv` says that from its
first statement on, the read of the mark, until its commit the tick claims the
table of the marks, and holds it when the partitions are due. `ConnectionInv`
says that all locks of the second connection are exclusive and exist only while
the tick waits for it or has been stopped. So the partition of the table of the
marks is never granted its lock. `PartitionInv` concludes: either all partitions
were there from the beginning, and then no lock is ever exclusive and the queue
is empty, or none is ever created and the tick never reaches its mark.
`MarkMeansPartitions` and `OnlyNewPartitionsStopReads` follow, and
`PartitionsAreNeverCreated`, which generalises what `locks_hang` shows: the
maintenance as it is written cannot create the partitions that it is there to
create. The proof rests on lemmas about the queue of the lock manager (what
removing one request leaves, who is granted what).

### The caches

`StalenessIsBounded` is not inductive: it says nothing of entries that are not
answers yet. `LagInv` bounds for every entry the sum of how long its version has
been superseded and of the life it has left. A tick raises the first by at most
one and lowers the second by one; a request that copies an entry from one level to
the other starts from what the entry had left, and adds no more than its own age
(`MaxAge`). `InboxInv` bounds the events under way for the type invariant.

### The assistant

`TokenInv` says of a token that no two requests have found at once: it has one
holder, it has not been executed while it is stored or held, and the store has
lost it when its holder goes on to execute. `CallInv` counts the calls without a
result as those of the last answer that are left. `AskedInv` says that whoever
holds or has executed a token has found it in the transaction of the chat that
asked for it. `ExecutedOnce` and `NothingUnasked` follow.

### The accounts

What a request has checked is stale when it commits unless nobody else was in a
section that depends on it. `SectionInv` says that in a kind of section that has
never overlapped there is one request at most; `AdminInv`, `RoleInv` and
`InviteInv` say what this request may still rely on: the row it loaded is the row
that is stored, and if it takes an administrator away there is another one
(`AnotherAdmin`, from the cardinality that `_forbid_last_admin` counts); the role
that it assigns exists, or the role that it drops is not in use; its invitation
is unused. `CallPlaceInv` holds without that condition: what each step carries. The
frame lemmas (`AdminFrame`, `RoleFrame`, `InviteFrame`) deal with all steps that
nobody enters by; the lemmas of `Load`, `SetRole`, `SetEnabled` and the three
commits have one part for each conjunct. A request of another kind is the
interesting case: a registration adds a row and can take no administrator away, a
PATCH that names no role writes none.

### The backtests

`BacktestInv` says that a row is hidden until its request commits, so that no task
writes its end before: a report waits at the unique key and a failure meets no
row. After a rollback there is no row but the one that the task inserts, with its
report, as its last step. `EndedIsFinal` follows.

### The bands

`NoValueIsLost` and `AscendingBandsAreDisjoint` hold for all thresholds and all
values. `SidesAreDeclared` and `SidesAreOneSided` state what the declarations of
the factors have in common, `HoldsBetweenCuts` says when a band has a value in
terms of the cuts around it. The first theorem needs no order of the thresholds: a
value that is not in the first band has passed a cut, and the band after the
last cut it has passed has it. `BandsAreAlwaysSteps` adds which one
`select_bucket` takes: if the thresholds ascend, the cuts that a value has passed
are the first ones, so their number is the last of them, and its band is the next.

### The limits

A counter that one request at a time reads and writes counts every request that it
lets through, wherever it is: in the cache, or as a copy in the hands of the one
that is about to write it back. `LivesInv` says that such an entry is gone at most
one tick before its window is over. `HitsInv` says what it covers: while it has ticks
left, the requests since it began are at most its count, and those of the ticks
before at most one more window of `Limit`. When it ages, both windows shift. The tick
that rounding may take from a window is why the bound is one on `Window - 1` ticks:
no ticks but one of a window, wherever they fall, see more than `2 * Limit`.

The login guard is harder, since a wrong password is counted only after it was
verified. `FailsInv` counts the requests that are between the two (`Open`) beside
the counter, and while the lock is set those that were past it before
(`Verifying`); `Begun` says that the window of a counter is as old as its first
wrong password. The sum is the bound of `GuessesAreBounded`:

    LeftOver + MaxFailures + (Cardinality(Visitor) - 1)

the `MaxFailures - 2` that a counter may hold when it runs out (the one that began
it is out of the window by then), those that lock, and one for each other request
that was past the lock. A counter that two have used at once, that a success has
reset, or a lock that was deleted for an expired one is exempted (`overlapped`):
nothing bounds the passwords that follow. `CaptchaInv` says that an answer that was presented is no
longer stored. `LimitsHold` follows.

### The rate of a source

`RateIsKept` speaks of one stretch of ticks, the invariant of all of them: for
every `a`, what was granted in the last `a` ticks and what is in the bucket now
are together at most a full bucket and `a` ticks of refill (`BucketInv`). A tick
lets one more in on both sides; a token that is taken moves from one term to the
other. A caller that sleeps for its deficit empties the bucket and puts its clock
ahead. Unless another one uses the bucket meanwhile (`together`), it has the
bucket to itself, and `Slept` says what its sleep has earned by now, also when it
ends late.

### The sources

`FetchInv`: production has struck the fake source from the list of the fetch, and
the sources that have failed are those before the one that is asked. `EditInv`:
unless one was torn, one request for new orders is in flight at most, and the
memory is what was accepted with the lists that it has set so far laid over it
(`With`). The commit makes this the accepted order, a request that is refused
before it has set anything leaves it, and any other end is torn.

### The writers of the pools

A replacement deletes what its snapshot shows. It leaves its own batch and nothing
else if it sees the whole table, and that holds (`Fresh`) as long as it is the
only run of its kind (`Alone`), because no other statement changes the birth of a
row: supplements and sums fill cells. `PoolInv`, `SumInv` and `CoreInv` say this
for the pool, its amounts (of the rows whose codes had minute bars when they were last
summed, `counted`) and the core counts, each unless runs that depend on
each other have mixed; `QuoteInv` says the same of the payload of the opening
quotes. `RunsInPlace` ties each run to its statement, `RowsAreBorn` the rows to
the runs before the next. `JudgeInv` needs no exception for overlaps: whoever has
written the sentiment row of the date holds it until it ends, so one run judges at
a time, and what was announced is stored or is what that run is about to store,
unless an announcement was lost. `CommitRun` has one lemma for each conjunct.

### The phases of the worker

Runs of phases are numbered. `StoredInOrder` and `TickInOrder` say that the marks,
rows and errors in the session of a tick are of later runs than all that is
stored; `TickInPlace`, `RowsHaveRuns` and `ErrorsHaveRuns` that each of them
belongs to a run that is marked in the session or in progress; `SessionIsWhole`
that a run marked as succeeded has no error and no advice of a strategy that the
gate held back; `ProducedIsKept` that what a run of the session produced is among
its rows. The commit stores all of it and a refusal drops all of it, so that
`StoredIsWhole`, which is what `SucceededPhasesAreWhole` says, is kept. Steps that
change the judgement or the switches meanwhile touch neither.

### The releases

The tables of a revision are a function of its number. `UpgradedFacts` says of each
of the eleven revisions what it keeps: all but 1 and the three of `Breaking` keep
every table, add columns that programs need not name and make others optional
(`Covers`, which is reflexive and transitive and implies `Serves`). `SchemaKeeps`
puts them in a row: what no breaking revision separates stays compatible.
`ReleaseIInv` is short: the worker runs the release of the API, and while the API
serves and nothing has changed the database under it (`apart`), the installed
revision is that of its release. Tables that the worker has created early keep an API
from serving (see `findings`), not from finding its tables. `ServedTablesFit` follows from both: where the
schema was changed, by an upgrade, either a breaking revision lies between or the
tables still fit.

### The pure rules

`MCServices` evaluates what the pure modules promise over small sets of inputs.
Those promises that no sum, fold or count enters are theorems about all inputs of
the shape that the code has:

* `GoodDaysAreGood` and `WorseIsNeverBetter`: all thresholds and all indicators,
  missing ones among them. Both go through the rules of the judgement in their
  order; the second shows that each rule before the one that fires on the better
  day fires on the worse one, or a worse rule does (`IceYieldsToDivergence` is the
  exception that it names).
* `NoLeaderEverFalls`: all pools whose boards and seals are bounded, which those
  of a table's rows are. The bound is what lets the largest number of boards exist;
  the leader is then one of the limit-ups.
* `ParametersAreLayered`: all schemas whose own defaults are legal, all rows and
  overrides, for at most one active row (`OneActiveWithinAMix` says when).
* `OpeningIsAlwaysBlind`: all histories of bars without previous closes. The wave
  that has to precede a falling bar is empty.
* `StructureIsAlwaysSound`: all histories and all windows of at least one bar. Two
  limit-ups beside each other belong to a wave of the window (`PairsAreInWaves`), and
  the rule that throws out earlier waves then leaves no such pair in the days looked
  back over. The same rule shows that of three boards the last is a limit-up, which
  the code never looks at: without it the first two would be an earlier wave.
* `SalesAreAlwaysBounded`: all prices, stops and numbers of days. It takes for
  granted that the joined minutes of the days held are a sequence of prices: the
  join is a fold (`FlattenSeq`), whose value needs induction.

`LeastNumber` and `LargestNumber` are what they have in common: the first index
that satisfies something, or the last, exists.

### The composition

The theorems about the services speak of one module each. `PartsStart` and
`PartsStep` say of `MCServices` that its initial states are those of every part,
and that each of its steps is a step of one part and a stutter of the others.
`PartsAreImplemented` concludes that a behaviour of the composition, seen through
the variables of a part, is a behaviour of that part: the parts do not disturb
each other. `ServicesTypeCorrect` and `PromisesHoldTogether` carry every type
invariant and every promise over to the composition, which is what the run
`services` checks.

### Types and budgets

The type theorems say more than types where the model counts. For the assistant,
`BudgetInv` keeps every chat within its turns and tool calls. Its tokens are not a
hard limit: the loop counts what the provider reports after the answer
(`loop.py:402`), and it asks again only with tokens left, so a chat exceeds them by
less than its largest answer (`MaxTokens - 1 + MaxCost`). And `RanInv` bounds the
executions of a token even when requests have raced for it: nothing is executed
before the token is gone, nobody finds it after that, and each of those that had
found it executes it once. The executions and the holders of a token together are
never more than the confirming requests.

### What stays with TLC

* Liveness under fairness: `EveryTickEnds`, `OneShotsEventuallySucceed`,
  `HolidayFallsQuiet`, `CompletesWithoutNewPartitions`, `StoppingFreesReaders`,
  `RequestsEnd`, `CachesCatchUp`, `PolledPagesCatchUp` and `PushedPagesAsk`.
* The five violations: TLC finds them on an instance, which is enough for an
  existence.
* `SchemaAssumption`, that the last revision reaches the tables that the models
  declare, is one computation without a parameter: TLC evaluates it.
* What the pure modules promise about sums, folds and counts, which needs
  induction over data: `StatisticsAddUp`, `QuantilesAreOrdered`,
  `SwitchIsHysteresis`, `PortfolioIsCapped`, `PicksAreTheLargest`, `StIsIgnored`
  and `OpeningAgreesWithSamples`; and `KeyStandsForResult`, which takes an
  operator as a parameter.
* The existential ones (`LastBoardIsUnchecked`, `SwitchForgets` and the like):
  TLC finds the case.

## 5. What the models leave out

* Payloads, contracts and mappings (`datasources/contracts`, `mappings`,
  `providers`): translation of records, without state. A round stores its rows
  or does not.
* How indicators are computed from bars, except for the patterns of
  `BoardRules`; floating-point rounding; the shape factor, five labels compared
  for equality.
* The index in the market cycle: no code collects it, so that rule has no input.
* Passwords and tokens: they are calls of a library; only whether a login
  succeeds is modelled.
* Read services, REST endpoints and pages other than as readers of
  `LiveRefresh`: queries without writes. Replay (`ingest/replay.py`) repeats
  rounds of a stored day by the same writers.
* The hazards at `ingest_service.py:88`, `ws.ts:156` and
  `useChannelRefresh.ts:9` have no property yet: `LiveRefresh` has no
  administrative writer, one channel and one page on a socket, and no refetch on
  reconnect.
* A run of `run_once` with an explicit window or date, as the command line and
  tests use it.
* A stored calendar that becomes older than its five days within the date, and
  an upstream that changes its mind about a date.
* The mark of the maintenance when the *deletes* fail: a case of `AbortTick`.
* More than one worker: the compose file runs one.
* SQLite, which ignores partitions and serialises writers.

Drift between documents and code that no run shows: `docs/architecture.md`
names the two cache levels the other way round (line 70), and the retention
table of `docs/data-flow.md` keeps daily bars and ladders for ever and pools for
90 days, where `repositories/retention.py` keeps 60 trading days, 365 days and
30 trading days.

Disagreements found by reading while modelling, beside those a run shows, are
listed under `findings` in `PROJECT.json` without a run; where an assumption of
`MCServices` evaluates them, the entry names it.

## 6. Plan

Done: the worker, the register it implements, its phases, writers, sources and
maintenance; versions, refresh, accounts, limits, assistant, backtests,
releases; board rules, dragon engine, factors and market cycle; the theorems
above, of the composition and of the pure rules among them. Next, in this order:

1. **Refresh, second part.** Administrative writers in `LiveRefresh` that
   invalidate before they commit; several components and channels per socket,
   with the subscription that replaces the set; what a reconnect should ask.
2. **Proofs.** Abstract specifications of the parts of `services` (a limit that
   counts, a table that is replaced at once) that the detailed modules implement.
3. **Retention.** The cutoff by trading days against a reference definition.
4. **Mappings.** The transforms of `datasources/mappings` that change a value
   (units, dates, ratios) against what the contracts say of their fields.
