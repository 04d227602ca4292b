# A verification of dataflow-studio

dataflow-studio runs data pipelines: a Django REST API stores workspaces, data
sources and pipelines; Celery workers execute pipeline runs; django-celery-beat
starts scheduled runs; a warehouse table, a metadata catalogue and a React
front end show the results. This directory holds TLA+ modules of the parts of it
that are hard to test, the TLC configurations that check them on small
instances, and proofs that TLAPS checks for instances of every size.

    tlc -workers 2 -config PipelineRun_crash.cfg MCPipelineRun   # one run
    tlapm PipelineRun_proofs.tla                                  # its proofs

`PROJECT.json` lists every run, which source lines each definition stands for,
and for each property a plausible bug that would violate it.

## The system

| Component | State | Operations | Talks to |
|---|---|---|---|
| `apps/pipelines` | Pipeline, PipelineRun, DeadLetterRecord, PipelineWatermark rows | create, patch, clone, pause, resume, delete, run; execute an attempt; retry; fail | API requests; Celery messages; the ETL engine; metadata, validation, notifications after a success |
| `apps/scheduler` | PeriodicTask and CrontabSchedule rows (django-celery-beat) | `sync_schedule` on every Pipeline save; retry a failed run; list the queue and the dead letters | `post_save` signal of Pipeline; beat sends messages |
| Celery and Redis | messages, unacknowledged messages | deliver, acknowledge, redeliver after the visibility timeout | API and beat send, workers receive |
| `apps/warehouse` | Customer rows (versions of a customer) | Type 1 upsert, Type 2 upsert | called by the engine as the loader of a target |
| `apps/etl` | none | extract, incremental filter, clean, validate, transform, load | the outside; the loader |
| `apps/metadata` | Dataset, SchemaVersion, ColumnStats, ColumnAnomaly, lineage rows, Parquet files | `record_ingest` after a success | called by `execute_attempt` |
| `apps/validation` | Scorecard rows | `persist_scorecard` | called by `execute_attempt` |
| `apps/workspaces`, `apps/datasources` | Workspace, WorkspaceMembership, DataSource rows | create, add and remove members; create, move and delete sources | every other app's querysets |
| `apps/common` | IdempotencyKey rows | the `idempotent` decorator; encrypted fields; errors; health | wraps the run endpoint |
| `apps/notifications`, `apps/audit`, `apps/monitoring` | logs, audit rows, counters | notify, record, count | called after the action they report |
| `apps/accounts`, `apps/platform_admin` | users, roles, settings | register, log in, refresh (SimpleJWT), deactivate | permissions of every view |
| `frontend` | tokens in local storage, shared by tabs; user, page state and requests in flight of each tab | sign in and out, refresh tokens, show a pipeline, act on it, start and poll a run | the API |

What makes the behaviour hard: messages are acknowledged late and delivered
again after a crash or a timeout; handlers are several database statements, most
of them outside a transaction, and other handlers and crashes come between;
values are read, computed with in Python and written back; two loads of one
table run at once; in the browser, everything that awaits an answer goes on with what has
become of the page, the tokens and the user meanwhile. `PROJECT.json` lists each hazard with its line and the
properties aimed at it.

## What makes each part correct

| Part | Hard behaviour | Correct means | Where |
|---|---|---|---|
| promise to clients | the same | a run is opened once, due, then kept or, with an excuse, broken, for good | `RunContract` |
| life of a run | late acknowledgement, redelivery, kills between two writes, retries that count again | no run is lost, none is executed twice at once, `FAILED` means exhausted, settled is for good, every run settles | `PipelineRun` |
| warehouse loads | chunks that commit one by one, row locks, unique violations, deadlocks, reloads | a customer who is served stays served by exactly one current version; every row of a source gets there; a reload changes nothing | `Warehouse` |
| run endpoint | a client that retries while its first request is still served | a retry after an answer gets that answer, nobody gets another's | `Idempotency` |
| schedules | requests that save and sync a copy of the row others are changing | a save nobody overlaps leaves beat in step with the row | `Scheduler` |
| incremental runs | rows that arrive late, behind the page an extraction is at, or while a batch loads; runs that overlap or fail | no row that arrives in time is passed over, unless a paged extraction leaves it behind; without overlap no old version stays served | `Incremental` |
| metadata catalog | read, compute, write without locks; a kill half-way | the schema history is a chain, the catalog of a run that is through is complete, gold lacks no load of its dataset | `Catalog` |
| tenancy | checks and writes that are separate statements: memberships that end, rows that are moved, deleted or saved late in between | rows point at rows; a pipeline stays in the workspace of its source; nothing comes into a workspace but from its members; owners remain; what was answered is audited | `Tenancy` |
| inside a run | pages and attempts, the order of repairs, rules that see another frame than the loader, repeated attempts, channels that fail | every record of an undisturbed source comes in once; only hopeless rows are dropped; no inadmissible frame is loaded; the scorecard is of the last attempt; the owner hears of the outcome of a task that comes to its end | `Frames`, `Engine` |
| signing in | refreshes shared by requests and overtaken by logouts and logins; tabs that share tokens | the two tokens are of one user, whom tabs show; an access token that expires signs nobody out; nobody waits for ever | `Session` |
| page of a pipeline | answers out of order, actions that reload an old id, one ref and one interval for all polls | the page is about its route; a run it started is polled until its end is shown | `PipelinePage` |

## Modules

Every module models handlers at the grain at which others can see them: one step
is one database statement or transaction, one message, one file. Its variables are the rows, the messages
and the locals of each process; its actions are named after functions of the
code. Names that start a comment with "history" are variables that no action
reads and only properties use. The end of most modules holds operators that are
not part of the specification, or that stand beside the action they alter: bugs
of the kind the properties exist to notice, which `PROJECT.json` names as
mutants.

### PipelineRun (`apps/pipelines/services.py`, `tasks.py`, `views.py`, `scheduler/views.py`)

State: `status`, `retryCount` and `deadLetter` are the rows; `recorded` is the
scorecard, watermark, metadata and notification that follow a success;
`msgState` and `msgRun` are the broker; `pc`, `holds`, `run`, `attempt`, `limit`
belong to the workers.

| Code | Action |
|---|---|
| `start_run` in `PipelineViewSet.run`, `RetryFailedRunView.post` | `PostRun`, `PostRetry` |
| `run_pipeline_task.delay`, eager mode, a web process that dies first | `Enqueue`, `EnqueueEager`, `RequestDies` |
| `execute_pipeline` | `ExecutePipeline` |
| beat, the broker, the visibility timeout | `Tick`, `Deliver`, `Redeliver` |
| `run_pipeline_task` up to the loop | `LookUpRun`, `StartCronRun` |
| `execute_attempt` | `BeginAttempt`, `EngineReturns`, `EngineRaises`, `SaveSucceeded`, `RecordSuccess` |
| `mark_retrying`, `mark_failed` | `MarkRetrying`, `SaveFailed`, `FileDeadLetter` |
| an exception nobody catches, before or after the run is looked up; the acknowledgement; `kill -9` | `LookUpFails`, `UnexpectedError`; `Finish`; `Crash` |

`MarkRetrying` and the sleep before the next attempt are one step, since
nothing is written in between. The engine is one step that returns or raises: its load is `Warehouse`.

### RunContract

What whoever opened a run may rely on, and no more: `Open`, then `Show` of any
status while the run is due, then `Keep` or, for a run that is excused, `Break`.
`PipelineRun` implements it (`ImplementsContract`) under a mapping of its state:
a run is due (`StageOf`) while a request, a message or a worker still has it,
and kept when nobody has and everything it leaves behind is recorded. `Excused` are the
runs of beat messages (finding `cron_orphan`), those somebody left with an unexpected error or
by dying, and all runs once the visibility timeout has expired under a live worker.
The contract says so little of the status of a due run because the code does:
a redelivered run goes from `SUCCEEDED` or `FAILED` back to `RUNNING`.

### Warehouse (`apps/warehouse/services.py`)

`hist[k]` is the committed versions of a customer, `draft[k]` and `lock[k]` those
of the open transaction that holds the row. `ReadCurrent`, `Close` and `Insert`
are the three statements of `upsert_customers_scd2` for a row, `Upsert` is the
`update_or_create` of `upsert_customers`, `Commit` ends a chunk. A statement that
needs a lock another transaction holds waits; `DeadlockVictim`, `IntegrityError`
and `Kill` roll back the open chunk, after which the load may start again
(`MaxTries`). A load compares the cell as it comes from the frame with the text that the column
holds (`Stored` says which, for each value): a text equals it, a number or the NaN of an empty cell never does.

### Idempotency (`apps/common/idempotency.py` around the run endpoint)

`Arrive`, `Replay` or `Miss`, `View` (or `ViewFails`, `ViewRaises`), `Store` or
`StoreConflict`, with `Die` anywhere. `records` is the table; `before` remembers
what had been answered when a request came in.

### Scheduler (`apps/scheduler/services.py`, `signals.py`; `apps/pipelines/views.py`)

A request loads a row (`BeginPatch`, `BeginAction`, `BeginClone`,
`BeginCreate`), writes all of it (`SaveAll`) or `is_active` alone (`SaveActive`,
which fails on a deleted row), and then syncs from its own copy: `RemoveEntry`, or
`GetCrontab`, `MakeCrontab`, `WriteEntry`. `crontabs` counts the rows of each
expression: two of them, which the race in `get_or_create` can leave, make every
later sync of that expression fail (`GetCrontabFails`).

### Incremental (`apps/etl/incremental.py`, `_build_incremental_spec`, `execute_attempt`)

`Arrive` is the outside world. A run reads the watermark (`ReadMark`), fetches the source
row by row (`FetchRow`), which is a REST extractor's pages, or a source that is read as a
whole if nothing arrives meanwhile, keeps what is newer than the watermark and takes the next one
from it (`Filter`), loads row by row (`LoadRow`, `EndLoad`), and stores the watermark (`SaveMark`)
only when the load has ended; `Fail` drops it.
A version that arrives behind the extraction, which then fetches a row newer by the grace period
or more, is `torn`: the code loses it, and the properties except it as they do one that arrives `late`.
Every row has a value in its watermark column: one that reads as no date is dropped by the filter
(`incremental.py:28`), whatever the watermark.
`Newer` is the comparison of the filter: by date less the grace period, or by
text for anything that is no date.

### Catalog (`apps/metadata/services.py`, `medallion.py`)

`record_ingest`, one action per statement: `ReadLatest`, `SyncColumns`,
`CreateVersion` or `CreateConflict`, `ReadStats`, `FoldStats`, `SyncLineage`,
`WriteLayers`, and `ReadGold` and `WriteGold`, or `SkipGold` where the dataset is in no
snapshot source (`snapshots`; such is the dataset of a pipeline that names no target). All targets
load one table, so `LoadElsewhere` is a load by a run of another dataset, and `strays`
counts those since the table was last read. A frame is its set of columns; `Diff` is the
comparison with the version that was read, with the renames of the pipeline; the
running statistics are how often each run's batch is in them; a table is the number of
loads it has had. `CreateConflict` is `unique_dataset_schema_version`: it ends
the task, which is not delivered again.

### Tenancy (`apps/workspaces`, `apps/datasources`, `apps/audit`, the rows of `apps/pipelines`)

A request is what its view does between two statements of others: get the row
if `get_queryset` shows it to the user (`LoadWorkspace`, `LoadSource`,
`LoadPipeline`; a POST has nothing to get, `Create`), check (`CheckOwner`,
`CheckMember`, `CheckSource`, `ReadSource`, `TrySlug`), write
(`SaveWorkspace`, `SaveOwner`, `AddMember`, `RemoveMember`, `SaveSource`, `SavePipeline`,
`DeleteWorkspace`, `DeleteSource`, `DeletePipeline`), audit (`Audit`, `AuditFails`).
`held` is the model instance in memory, all of which `save()` writes, so that a
PATCH that comes after a DELETE inserts the row again. `Allowed` is what the
database asks of a write (`IntegrityError` otherwise); `CascadeFails` is a cascade
that meets a child stored after it collected them. `moved`, `resigned`, `admitted` and
`overlap` are histories for the properties. Wherever a module such as
`PipelineRun` has a pipeline, its workspace is the one of `Tenancy`.

### Frames and Engine (`apps/etl`, `apps/validation`, `apps/notifications`, `execute_attempt`)

`Frames` has what the engine computes, as operators on frames (columns and rows of
cells that are missing, texts or numbers; a row keeps the number of its record, which
nothing in the code looks at once `reset_index` has numbered the rows anew): `Clean` repairs each cell (`Repair`: trim,
lowercase, fill) and keeps the rows that are whole enough (`Kept`); `Validate` runs
the nine types of rules (`CheckStructure`, `CheckColumn`, `CheckFreshness`,
`CheckExpression`), each of which counts violations among what it checked, and
scores them; `Transform` renames, casts, deduplicates and selects. What pandas
answers with an exception that is not an `EtlError` is named: `CleanMustRaise`,
`CleanMayRaise`, `TransformRaisesKeyError`.

`Engine` is one run from the inside. `FetchPage`, `FetchFails`, `AnswerIsNoList` and
`AnswerLacksResults` are the REST extractor, `ReadAll` and `ReadFails` the other
three; then `CleanFrame`, `ValidateFrame`, `TransformFrame`, `Load` and the ways
they fail, `SaveSucceeded`, `PersistScorecard`, `RecordIngest` or `IngestRaises`, `MarkRetrying`, `MarkFailed`, and
`Send` for each channel. `ChangeSource` and `Kill` come between any two of
them. It refines the one step that `PipelineRun` makes of the engine: there are
many runs and workers and no data, here the data of one. The watermark, the catalog and
the dead letter, which are stored between these steps, are in `Incremental`, `Catalog` and
`PipelineRun`.

### Session (`lib/api.ts`, `AuthContext.tsx`, the forms; `apps/accounts`, SimpleJWT)

`access` and `refresh` are the tokens in `localStorage`, which the tabs share;
`user`, `loading`, `renewing` (the `refreshPromise`) and `req` (requests in
flight, with the token the interceptor attached) belong to a tab. A token is its user and whether
it is still good; `AccessExpires`, `RefreshExpires` and `Deactivate` end that.

| Code | Action |
|---|---|
| a page load, `loadCurrentUser` | `Open` |
| the forms of the login and the register page, each with its own busy state (`Form`); `login`, `register` | `Submit`, then `Fulfil` goes from one call to the next |
| a page's own request; `logout` | `Ask`; `Logout` |
| the API's decision | `Serve`, `ServeRegister`, `ServeLogin`, `ServeRefresh` |
| the response interceptor | `Refuse` (final 401), `Renew` (share or start a refresh), `Renewed`, `RefreshRefused`, `RefreshFails` |
| an error that is no 401, or no answer | `Fails` |

`SignOut`, the `catch` of the interceptor, loads `/login` anew, which drops what the page
was waiting for; `Logout` does not.

### PipelinePage (`PipelineDetailPage.tsx`)

`gets`, `lists` and `polls` are the calls in flight, in the order in which they were
made, `act` is the one call of a button; each is served (`ServeGet`, ...) and answered (`GetAnswered`, ...) or lost.
`polling` is `pollingRunId` and `timer` the interval, which exist apart: the
effect that sets the interval depends on `runs.length` alone (`SetRuns`). The runs
come from `RunContract`: whatever the page is shown to do holds with every back end that
keeps the contract, hence, by `KeepsContract`, with `PipelineRun`.

`MCClients` and `MCRunPage` check several modules in one run. These share no variable, so
a behaviour of the run is one of one module, which `part` names, while the others
stay at an initial state; properties of each are checked on its own part.

## Runs

| Run | Shows | Bounds |
|---|---|---|
| `run_crash` | the safety of `PipelineRun`, and that it implements `RunContract` | 2 runs, messages and workers, one kill, one early timeout, `MaxRetries` 1 |
| `run_live` | `EveryRunSettles` and `StartedRunIsSeenToEnd` under fairness | 1 message, 2 workers, one kill; the page: 2 pipelines, a run of its own and one from before, 2 clicks, 2 calls and 2 polls under way |
| `cron_orphan` | finding: a run opened by beat is orphaned when its worker dies | 1 message, 1 worker |
| `wh_loads` | the safety of `Warehouse`, and that a reload changes nothing | 2 loads of 3 sources, chunks of 2, two tries each, texts, a number and an empty cell |
| `clients` | the safety of `Idempotency`, `Session` and `PipelinePage` | 3 requests, 2 users, 2 pipelines, one key or none; 2 tabs and 2 accounts with one form each and 2 requests under way, the same with both forms of one tab and no page requests, or with both forms, one request and an account that is deactivated; 2 pipelines, 2 runs, 3 clicks, one poll under way |
| `sch_race` | `LoneSaveRepairs` | 3 requests on 2 pipelines, 2 schedules, kills |
| `inc_dates` | the safety of `Incremental` for dates | 2 rows, 2 runs, values to 4, grace 2 |
| `inc_ids` | finding: ids are compared as text | one run, values to 10 |
| `catalog` | the safety of `Catalog` | 3 runs, two at a time, 2 pipelines, 2 frames, one kill, one load of another dataset, with and without a snapshot source |
| `tenancy` | the safety of `Tenancy` | 2 requests of any kind; 2 users, workspaces, sources and pipelines with any rows, `s2` and `p2` free at the start |
| `engine` | the safety of `Engine`, and the functions of `Frames` against what they are for | 5 configurations, 12 contents of up to 5 records, 2 pages of 2, 2 attempts per page, 1 retry, one change, one kill |
| `tenancy_move` | finding: a pipeline stays behind when its source is moved | one request |

Why these bounds are enough to meet the interesting cases: two workers and two
messages give a run its second executor; one retry distinguishes the first, a
middle and the last attempt; one kill at every possible step and one early timeout are
enough to redeliver everything, and a second of each repeats the first. Sources of three rows with chunks of two have a full and a
short chunk, two sources list two customers in opposite orders, which
deadlocks, and the third lists a customer again in the same and in the next chunk; a number and an empty
cell are the values a reload takes for new. Three requests are a lone save after a race of two. Two rows and four values hold a row
inside, and one outside, a grace period of 2. Three ingests give two
consecutive schema changes, of which two may race. In `tenancy` every pair of requests
meets from every state that earlier requests may have left, so longer
histories add nothing but the exceptions they name (`moved`, `resigned`), and the
proofs cover any number. The contents of `engine` have blank, padded, missing and ill-typed
cells, duplicates that appear only after cleaning, records without a key, and more
than two full pages; its configurations use every type of rule, and each can pass and fail.
Two tabs are enough for one to change the tokens of the other, and two requests in
one tab share a refresh; three clicks are a clone, a way back and a run, and two runs are one
that takes the place of another.
Symmetry is used only where no
liveness is checked. Runs stop (`CHECK_DEADLOCK FALSE`) because there are only so
many requests, messages and tries.

### Fairness

`PipelineRun` and `PipelinePage` have liveness properties. The former's asks weak fairness of a
request in flight, of a worker's own task, of the delivery of a queued message
to some worker and of the visibility timeout: what a running web process, a running worker and Redis do by
themselves. Nothing is asked of clients, beat, crashes, or of the outcome of an attempt. A crash
is followed by a replaced worker (`docker-compose.yml` restarts it), and only `MaxCrashes` of
them happen: without an end to crashes no run need ever settle.

The page's asks that the interval goes off (weak fairness of `Tick`) and that not every
poll, nor every answer to one, is lost (strong fairness of `ServePoll` and
`PollAnswered`). Nothing is asked of the runs, the user, or any other call: `StartedRunIsSeenToEnd`
is about runs that have ended.

## Proofs

Each theorem holds for every value of the constants that satisfies the named
assumption of its module (`ConstantsAssumption`, `WarehouseAssumption`, ...),
and, where `PROJECT.json` names a property, for the very definition the runs
check.

- `PipelineRun_proofs`. `Typing` proves the types together with which locals of a
  worker are set at which step. `CountInv` (retries and dead letters never exceed
  failures) needs nothing else. The rest holds while the visibility timeout has
  outlived every task (`Timely`; `docs/06-resilience.md` asks for that): `Broker`
  says a message is unacknowledged exactly while one worker holds it or a dead one did, `Linked`
  that a run is in one request, one message or one worker at a time, `Written` what a
  worker at each step has already written. From them: `NoRunIsLost`,
  `ExecutionIsExclusive`, `FailureIsExhaustion`. A run that is settled is not
  pending, so no step can name it: `SettlingIsFinal`, which needs no `Timely`.
  `KeepsContract` is the refinement: each step leaves every run's stage alone, opens one,
  shows a due one, or lets go of one (`Stays`, `Opens`, `Shows`, `LetsGo`), which
  is a step of `RunContract`; `SettledRunIsComplete` gives the excuse of a run that is
  let go incomplete.
- `Warehouse_proofs`. `CustomersStayServed`: the versions of a customer are in
  order with only the last current (`InOrder`), except in the draft of a load
  that is between `Close` and `Insert` (`Between`), which cannot commit there.
  `HistoryStaysContiguous` adds, while loads do not overlap, that what the one load
  sees began no later than what it may write (`Steady`). `EveryRowIsServed`
  says of each row that if the table does not serve it or a later one of its customer,
  some load still owes it (`Owes`): one that may start again, has the row before it, or
  has it in the draft of a customer it holds.
  `ReloadChangesNothing` rests on `Reloading`: of a plain source (no customer twice, every tracked cell a text) that is loaded as Type 2 only, a
  load has locked only customers whose committed version is none the source lists (`Novel`), or has
  closed a version that was replaced since it was read and finds a current one where it would insert
  its own, so that it must abort. By `EveryRowIsServed` there is no such customer
  once a load has ended, so that a commit after that commits nothing.
- `Clients_proofs`, about the three modules that `MCClients` checks. Records of
  `Idempotency` are of triggered runs, kept for good and owned by
  a request of their scope: `RetriesAreReplayed`, `AnswersAreOwn`.
  `Browser` is `Session` for any bounds, of which the `Session` and `Admin` of the run are two cases.
  Its `Shape` says what each call may be in each slot and that there is a refresh exactly
  while somebody waits for it; `OneUser` adds whose the tokens are that calls and refreshes
  carry until the next login or logout (`SessionsAreOfOneUser`); `Refusals`
  that a good refresh token is refused only to an account that is not active
  (`LiveSessionsAreKept`). Of the page, `Linked` says which calls belong to which run, act
  and route, `PipelineOfRoute` and `RowsOfRoute` that what the last call under way will bring,
  or what is shown, is of the route, and `AllWatched` that a run the page has started
  is polled, or about to be, or its end is shown or in an answer on its way (`PageStaysInStep`).
- `Scheduler_proofs`. `SavesAloneRepair`: while a request is alone, the row is
  what it loaded, then what it has in memory (`Untouched`), which is what it
  syncs.
- `Incremental_proofs`. `NoRowIsLost`: a watermark never passes what the source
  has reached (`Reached`), and whatever is due is ahead of the stored watermark
  and of that of every run, or still in its batch or to be fetched (`Caught`); of a row that changed
  behind an extraction, either all it went on to fetch is within the grace period of it, or it is `torn`.
  `NoOldVersionIsServed` adds that, without overlap, nothing goes back
  (`SerialInv`).
- `Catalog_proofs`. `DiffFollows` is the set algebra of the schema difference;
  with the unique version it makes `HistoryIsChain`. `Recorded` says what a run
  has put into the catalog by each step (`CatalogIsCompleteForAll`), `Counted`
  that before its fold fewer batches of a run are anywhere than it had deliveries,
  `Alone` that without overlap the statistics and the table a run read are still those
  stored, but for the loads of other datasets since (`BatchesAreCounted`, `GoldIsTable`).
- `Tenancy_proofs`. `Base` is the types and constraints (`Shape`, `Integrity`) with
  what an instance in memory holds by each step (`HeldOK`), that keys in use
  were given out (`Known`) and that nobody sees a workspace before its owner is
  stored (`Fresh`). `HasHomes` says that there is one home per source on which
  tables and instances agree until it is moved: `FollowsSource`. `Admission` carries
  a check over to its write and needs the homes for copies: `Admitted`.
  `OneAtATime` is for `OwnersRemain`, `Trail` for `EverythingAudited`.
- `Engine_proofs`. `Course` says what has become of an attempt by each step
  (`ScorecardIsCurrent`); `RetriesAreLogged` that every retry of a delivery is logged or
  about to be, and that only a task that an exception ended has no row for its outcome (`OwnersAreNotified`); `Fetched` that the records in hand are those
  of the pages before the next, by the lemma `NextPage` about adjacent pages (`ExtractionIsComplete`).
  `Types` adds to the types that a frame has finitely many columns, all of them of the source, until it
  is transformed (`Shaped`); with `Scores`, `Means` and `RuleCounts`, that every score of every set of
  rules is a percent (`EngineIsTyped`). `RowsAreSifted` follows the frame. `Repairing`,
  `Rounding` and `Sifting`: the rows `Clean` keeps include those of all records that have the documented
  fraction of their cells, and no other falls short of it by a whole cell (`clean.py:65` rounds down). `RuleSays`: a rule that
  passes says of the frame what it should (`Says`). `Transforming` and `Meeting`: renaming, deduplication and
  selection keep what it says. `Sifted` holds this together from step to step, over attempts, kills and
  changes of the source.
  The assumptions are those of the source (`SourceAssumption`: a finite record has cells) and of a
  configuration (`ConfigsAssumption`): a default is not missing, which `fillna` refuses (`clean.py:53`); a
  rule that looks at cells has one column (`validate.py:145`); and no rename gives two columns one name. The
  last the code does not check: pandas would then make a frame with a column twice, of which the
  modules say nothing. `FramesAssumption` has what is used of `str.strip` and
  `str.lower`: that a stripped text is stripped, and stays so in lower case.

Only model-checked: `EveryRunSettles` and `StartedRunIsSeenToEnd` (liveness is beyond TLAPS here),
and the findings, which are counterexamples. Every invariant and every other action property of a run
that passes is proved.

## What the work showed of the code

Findings, each with a run: the "finding" rows above. Further facts that the
modules state as they are, without calling them faults:

- A run is attempted `MAX_RETRIES + 1` times (`tasks.py:50`), once more than
  "3 retries" may suggest.
- `attempt` starts again at 0 after a redelivery (`tasks.py:44`), so a run may fail
  more often than its `retry_count` says; with an early timeout, a run that
  succeeded on one worker may have a dead letter from the other
  (`services.py:187-201`).
- A source that lists a customer twice, or has an empty cell or a number in a tracked column, gets new
  history on every reload (`warehouse/services.py:87`, `:103`), although `services.py:71` says that
  "re-running the same source never creates spurious history": `ReloadIsNoOp` is stated for
  plain sources. A Type 1 load of the same table may overwrite history.
- Two crontab rows of one expression make every later save with it fail
  (`scheduler/services.py:58`), and nothing removes the beat entry of a deleted
  pipeline (`signals.py:9`).
- `sync_schedule` writes what its request has in memory, so two saves of one pipeline that
  interleave can leave beat with the older of the two, although `signals.py:11` keeps the
  entry "in lockstep with every Pipeline save". `LoneSaveRepairs` is what
  remains true.
- Two Type 2 loads that overlap take `now` in one order and write in another
  (`warehouse/services.py:75`): a current version may begin before a closed
  one. `HistoryIsContiguous` is stated for loads that do not overlap.
- A row of a REST source that is updated after its page was fetched is passed by the watermark if a later
  page has a row that is newer by the grace period or more (`extract.py:147`, `incremental.py:34`): no
  run loads the update, and the old version stays served, until the row changes again. `NoRowIsPassedOver`
  and `CurrentIsServed` except such rows (`torn`). The same becomes of a row that the watermark is taken from
  or passes and that cleaning then drops or deduplication leaves out, of rows beyond `max_pages`,
  and of a value that reads as no date.
- Overlapping incremental runs may leave an old version served, and may move the
  watermark back; no row is lost. `pd.to_datetime` reads small integers that are ids as
  dates in some ranges; the id case is modelled for ids below 100, where it does
  not.
- A source that lists a customer in two chunks serves the earlier row for a while whenever it is
  loaded again, since each chunk commits on its own; `LoadedRowsAreServed` says so.
- Overlapping ingests may lose a batch from the statistics and leave a gold file that
  is older than the table, and one of two runs that change the schema at once ends
  with an error after it was `SUCCEEDED`. Such a run, and one whose files cannot be written, has no
  `RUN_SUCCEEDED` notification: `record_ingest` (`pipelines/services.py:158`) stands before `notify` and its
  errors are no `EtlError`. `OutcomeIsNotified` is about tasks that come to their end.
- `customers` and `customers_scd2` are two datasets over one table (`metadata/services.py:39`), and each
  writes its gold file after its own runs only, so that the "gold layer mirrors what this API serves"
  (`warehouse/services.py:128`) of the dataset that was loaded last alone. A pipeline that names no target loads
  customers (`pipelines/services.py:84`), but its dataset is named for the pipeline
  (`metadata/services.py:46`) and never has a gold file.
- `clean.py:12` and `docs/04-modules.md:100` have a row dropped that has "fewer than this fraction of its
  columns populated"; `int()` rounds the number of columns down (`clean.py:65`), so that a row with one cell of
  two is kept where 60 % are asked for. `RowsAreSiftedRight` allows what falls short by less than a cell.
- Two owners of a workspace who remove each other at once, an owner who takes the role
  from himself, and a web process that dies between the two inserts of
  `create_workspace` leave a workspace whose members nobody can change. A PATCH of a
  workspace, source or pipeline that another request deletes meanwhile inserts it again,
  the workspace without members, so that nobody sees it.
- Two requests with one `Idempotency-Key` that overlap both look up, both miss and both
  trigger a run, and the second to record it ends in an `IntegrityError`
  (`idempotency.py:28`), although `docs/04-modules.md:26` promises that a retried request
  replays the first.
- `engine.run` says it "raises an `EtlError` subclass on any step failure"
  (`engine.py:47`), and only those are retried and dead-lettered. Trimming a column of numbers
  (`AttributeError`), deduplicating or casting by a column that is not there (`KeyError`) and an
  answer without the `results_path` (`KeyError`) are none: the task ends and its run stays
  `RUNNING` (`CleanRaises`, `TransformRaises`, `AnswerLacksResults`).
- A REST source that changes between two pages is extracted with gaps or duplicates, and one with more
  than `max_pages` pages without the rest; `ExtractIsComplete` is stated accordingly.
- A run whose last attempt fails in `extract`, `transform` or `load` keeps the scorecard of an
  earlier one, or has none, although `docs/04-modules.md:178` says "no scorecard-less runs". A warning
  about a missing column or of an unknown type leaves every score at 100.
- A missing cell is within every range and of every type, and a text is within every range.
- A membership that ends while a request is served does not stop the request.
- `audit/services.py:3` says that the audit is "never a reason to fail the
  request it's recording"; its insert is not caught, and fails when the workspace was deleted
  in between. `docs/04-modules.md` lists a pipeline's create, update, delete and run
  as audited; PATCH and DELETE of a pipeline, and renaming a workspace, are not.
- A refresh that fails, and the first question of a page load that fails, sign the user out, be it
  for want of a network (`api.ts:65`, `AuthContext.tsx:20`). A refresh that is answered after a logout, or
  after another login, stores its access token all the same (`api.ts:46`): `SessionIsOfOneUser`
  excepts it (`late`), as it excepts a login in one tab while another knows the user before
  (`split`), which goes on showing that user.
- `PipelineDetailPage.tsx:37` says the page polls "the just-triggered run until it reaches a
  terminal status". A second run takes the place of the first, whose status then stays; a poll of
  the first that is answered late ends the polling of the second; a list asked before a run
  was started removes its row; a run that is redelivered after it was seen to end is not polled again.
  These are `disturbed` in `PipelinePage`; the others are seen to their end.
- After a clone the page loads the new id and reloads the old one, and shows what comes last
  (`PipelineDetailPage.tsx:61`). An action whose answer is lost leaves the page with the old `is_active`.

## Not modelled

- Connectors: one call outside each, no state.
- The deletion of a run's row under its task: pipelines are deleted in `Scheduler` and `Tenancy`, and a task
  that no longer finds its pipeline or run (`LookUpFails`) has then no row to settle.
- The rows of a lineage graph that are the same on every ingest, and what is in the layers of files.
- The serializers and filters of the read-only API, metrics, traces and log lines (nobody
  reads them back), encrypted fields, the health probe, seed data and load tests.
- Role checks and throttling of `apps/accounts`; roles, settings and the way back of a deactivated
  account in `apps/platform_admin`.
- In the front end, the workspace switcher, and the pages that ask once and render the answer.
- The connection test and the CSV upload of `apps/datasources`, and how an owner changes
  the notification preference.

`PROJECT.json` gives the reason for each.

## Plan

1. Proofs about the composition: that `Engine` implements the one step `PipelineRun` makes of it, for one
   run on one worker.
2. A configuration with a rename that gives two columns one name, once `Frames` has frames with a
   column twice.
