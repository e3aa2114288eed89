# A TLA+ model of the JAX risk engine

The repository is a Python risk engine: an HTTP API queues run requests, one
engine worker per host (or one worker set per pod slice) prices them with JAX,
and a second path prices and publishes end-of-day bundles for TraderX. Two
kinds of its code are hard to test and are modelled here. One is its services:
a queue shared by processes that crash, the lock that makes a worker the host's
only one, routes that read the queue several times per request, hosts that must
take the same steps, a result store that must survive a crash between two file
operations. The other is the control around its numerics: which trade is
accepted, which policy and which rate apply, in what order rows, batches,
devices and shifts are put together and taken apart again, what a number is
labelled with. The numbers themselves (prices, paths, rounding errors) are
abstracted away.

TLC checks all of it on small instances. The safety of every service (the queue, the
workers, the hosts of a worker set, the supervisors, the run routes, the result store and the
attempts) is also proved with TLAPS, for every instance. So is that of six of the sequential
components, for any inputs: the end-of-day bundle, the run and its evidence, the root
solver, the calibration, a trade on a path, and the grid engine's backward induction.

## 1. Inventory

| Component | Code (`src/engine/...`) | State | Operations | Hard behaviour | Correct when |
|---|---|---|---|---|---|
| Job queue | `api/job_queue.py` | SQLite tables `jobs`, `artifacts` | submit, cancel, claim, finish, fail, cancel_running, requeue_running, interrupt_running, purge | any process, any order; each operation one statement or one `BEGIN IMMEDIATE` transaction | outcomes are final, artifacts match results, keys name one row, attempts are bounded, runs start in order |
| Engine worker, host's lock | `api/worker.py`, `api/job_queue.py` (`WorkerLock`) | the lock, the run in hand, its phase | acquire, take over, purge, claim, price, close | killed at any point, orphaned, cancelled between phases, two locks on one queue | a run is priced by one worker at a time, rows are never left running, every run ends |
| Worker supervisor | `api/supervisor.py` | child process, failed starts | ensure_running, status, stop | probes of the lock race its holders; the owner record outlives its writer | a serving worker is seen; a failed start is its own |
| Hosts of a worker set | `api/hosts.py`, `api/worker.py` | each host's place in the program | share, agree, outcomes, fail_stop | SPMD: every host must take part in the same collectives | no host waits for ever, all hosts run the same run and agree how it ended |
| Run routes | `api/routes.py` | per request: what it has read | POST /runs, GET /runs/{id}, POST cancel | several queue reads per request, the worker in between | one outcome told per run; a retry gets its own run; a cancel sticks |
| API schemas | `api/requests.py`, `api/app.py` | none | a body becomes a request, a request is echoed | every default stands twice; a profile fills what sections leave out | what was sent is asked, what was not is the engine's default, the echo asks the same |
| Artifacts and results | `api/artifacts.py`, `api/results.py` | stored chunks | chunk, describe, read back | boundaries of the row count; loss | reading gives back the array, or refuses |
| TraderX result store | `traderx/publication.py` | manifests, sequence file, pointers, bindings | publish, lookup, bind, find | crash between any two file operations; two processes | what was answered as published is found, newest first |
| TraderX attempts and routes | `traderx/workload.py`, `api/traderx_routes.py` | attempts in memory by workload and submission | submit, complete, fail, lookup, get | retry, restart, failed publication | one attempt per submission; nothing told completed is lost |
| TraderX pipeline | rest of `traderx/` | none (per bundle) | load, join, resolve, price, account | files overwritten while read; one row's fault | a result is of one export; its outcomes agree |
| Run request and pipeline | `run/` | phase trace | validate, run each phase | checks made before the queue, used after it | what is accepted runs, and runs as asked |
| Precision | `precision/` | none | policy resolution, device checks, evidence, paired samples | a check that misses a format used; a campaign that does not fit | no unchecked format; a figure without a warning was measured |
| Instruments | `instruments/` | none | book a trade | dates and boundaries | the contract is the one booked |
| Pricing | `pricing/` | none | legs, exercise wrapper, grid induction | three readers of one fixing; rows and cache columns reused | one contract on every date; an exercise value holds its coupons |
| Models, calibration, solvers | `models/`, `calibration/`, `solvers/` | the bracket, the buckets | baskets, bootstrap, roots | rounding near a root; dates past the grid | what is accepted reprices; a bracket never loses its root |
| Risk | `risk/`, `market_simulation/sharding.py` | none | bump, scenarios, VaR/ES, exposure | labels through batches, devices, replicates | a figure is of its own shift; ranks, pairs and profiles hold together |
| Market data, simulation, models | `market_data/`, `market_simulation/`, `models/` | none | curves, paths, closed formulas | numerical error | (mostly outside a discrete model) |
| Demos, benchmarks, compliance | `demos`, `benchmarks`, `compliance` | none | clients and recorded measurements | none | not modelled |

How they interact: a route validates a body, looks at the host's lock and
inserts a row; it then asks the supervisor for a worker. The worker takes the
host's lock, deals with rows a dead worker left, and claims rows one at a
time; at each phase boundary of a run it reads the row's cancel flag. Routes
and worker share nothing but the queue file and the lock file. In a worker set
process 0 alone does all this and broadcasts what it does to the other hosts.
The TraderX routes use neither queue nor worker: a request prices its bundle
on its own thread and publishes it to the result store.

## 2. Modules

| Module | Models | Kind |
|---|---|---|
| `RunLifecycle` | what POST /runs promises: a run is accepted, ends once, is forgotten after | abstract specification |
| `JobQueue` | the queue's tables and every operation on them | component; implements `RunLifecycle` |
| `JobQueue_proofs`, `WorkerHosts_proofs`, `WorkerSupervisor_proofs`, `Publication_proofs`, `Attempts_proofs`, `GridBookkeeping_proofs` | theorems about the module each is named after; the hosts' build on the queue's, the grid's on the trade's | proofs |
| `QueueUsers_proofs` | theorems about `EngineWorker` and `RunRoutes`, which build on the queue's | proofs |
| `Pipelines_proofs` | theorems about `EodPipeline`, `RunEvidence`, `SolverRoots`, `CalibLgm` and `TradeOnPath` | proofs |
| `EngineWorker` | workers, the lock, callers and faults on one queue | extends `JobQueue`; implements `RunLifecycle` with its liveness |
| `WorkerHosts` | every host of a worker set, its collectives and failures | extends `JobQueue`; implements `EngineWorker` with one worker |
| `WorkerSupervisor` | API processes keeping a worker alive through the lock | component |
| `RunRoutes` | requests in flight on one queue, its worker doing whatever a worker may | extends `JobQueue` |
| `ResultRegister` | what a lookup of a workload's result promises its caller | abstract specification |
| `Publication` | the TraderX result store's files, its publishers, lookups and faults | component; implements `ResultRegister` |
| `Attempts` | submissions, retries, reuse, bindings, restarts | component |
| `EodValues`, `EodPricing`, `EodBundle`, `EodPipeline` | an end-of-day bundle read, joined, priced row by row | sequential component, a chain of EXTENDS |
| `RunPrecision`, `RunRequest`, `RunPhases`, `RunEvidence` | a run request checked, queued, run phase by phase, and warned about | sequential component, a chain of EXTENDS |
| `RunWire`, `ResultArrays` | a body made a request and echoed; a result's arrays stored and read back | sequential components |
| `TradeOnPath`, `GridBookkeeping` | one trade booked and valued on every date; the rows of its grid | sequential components |
| `SolverRoots`, `CalibLgm` | the root solver; the volatility bootstrap that calls it | sequential component, a chain of EXTENDS |
| `RiskFactors`, `ScenarioRevaluation` | factors and scenarios; a trade revalued under shifts in batches and on devices | sequential component |
| `SampleEstimates`, `TailStatistics`, `ExposureProfiles` | paired samples and resamples; VaR and ES; exposure | operators, and two sequential components over them |
| `MC*` | instances for TLC; `MCPipelines` composes the sequential components and has their data | model checking |

### JobQueue

`jobs` is the table, by the row's AUTOINCREMENT number: the `id` of the code is
a random UUID that stands for it and is as little reused. A row that is not
there is `NoRow`. `artifacts` is the second table, `lastSeq` is
`sqlite_sequence`, `now` is `time.time()`. Every method of the class `JobQueue`
that writes is one action of the same name (`CloseRunning` is `_close_running`,
`Requeue` `requeue_running`, `Interrupt` `interrupt_running`): it is atomic
because the code runs it as one SQLite statement, or in one `_transaction`.
Methods that only read have no action; where a caller reads, its own step does.
A purge passes a cutoff, which the worker computes from the retention period.

Request bodies are model values, told apart by the code by their hash; a
result document is the set of artifact chunks it refers to; the columns
`error`, `compiles`, `submitted`, `started`, `kind` decide nothing and are left
out (`claimed_since`, which reads `started`, is in `WorkerSupervisor`).

### EngineWorker

One worker process per element of `Workers`; `at` is where its code is.
`Start` is a supervisor's launch, or a set's worker started by whoever runs its hosts
(routes._ensure_worker starts none there); `Acquire`/`GiveUp` the two ends of
`lock.acquire(wait_seconds=LOCK_WAIT_SECONDS)`, `PutBack`/`TakeOver` the two
queue writes before the loop, `Look` `_Claims.next` up to and with the purge,
`ClaimNext`/`Idle`/`StopDrained` its end, `PhaseBoundary` the check installed by
`run_job`, `PricePhase` the engine's work up to the next check, `CloseRow`,
`StoreFails`, `FailUnstored`, `CloseRaises` the end of `run_job`. Between any
two of them anything else may happen. `Exit` is how a process goes, by
whatever way: the OS drops the lock and the row stays as it is. `Kill` also
stands for a queue file that cannot be written for longer than SQLite's busy
timeout, which nothing in the worker catches.

`lockOf` is chosen at the start from `LockSetups`: `JAX_RISK_WORKER_LOCK` may
give two workers of one queue different locks, which the code does not prevent.
`HostCount > 1` is a worker set seen from its primary; what its hosts do is
`WorkerHosts`.

Retention is taken to be on (its default); with `JAX_RISK_RETENTION_DAYS` off
there is no purge, which is a subset of these behaviours. The next purge is
timed by `time.monotonic()` in the code and by `now` here.

### WorkerHosts

`place[h]` is where host h is. The primary's steps are `EngineWorker`'s, split
where a collective is: `Look` and `ClaimNext` decide a command,
`ShareHeader`/`ShareChunk` broadcast it (`share`: a header with the length, then
the padded chunks), `LookAtFlag` and `Agree` are a phase boundary,
`GatherOutcomes` the gathering before the primary closes the row. A collective
(`Together`) is one action that needs every host in it. `PricePhase` is one host's work;
a failure the request determines (`fate`) strikes all hosts at one phase, one of the
host's own ends in `fail_stop`. `Dies` is a host killed or stopping itself,
`ServiceStops` JAX's distributed service stopping the others, `Launch` whoever
runs the hosts starting one again. The message is a sequence of numbers cut into
chunks, so that a host that mistakes a chunk for a header would decode another run.

`ImplementsSet` is the refinement: the hosts together behave as the one
worker of `EngineWorker` with `HostCount = 3`, whose liveness and safety therefore hold
of a set made of hosts.

### WorkerSupervisor

`holder` and `record` are the lock and what its last holder wrote into its file;
`sup[a]` is an API process's supervisor with its mutex, `req[t]` a request thread.
`worker_lock_held` is a try-lock that is then dropped, so looking is an action that
holds the lock (`ProbeFree`, then `Launch` drops it; `OwnerFree`, `OwnerDrop`) and a
worker may ask for it meanwhile. `TakeLock` and `WriteRecord` are two steps of a worker.
`CheckChild` with `Recorded` is `_record_exit`. `worked`, `claimed` and `barren` count
what the code asks the queue with `claimed_since`, by whose claim it was.

### RunRoutes

`req` is a request between two of its queue reads. GET loops over `Respond`
(read the row), `Wait` (time out, or sleep) and `LookAgain`; a done row is
answered after a second read (`Splice`); cancel is a write (`CancelRun`) and a
read (`Recheck`). `told`, `accepted` and `acked` are history: what callers have
been answered. The lookup of the host's worker (503) and `_ensure_worker` do not
touch the queue and are the supervisor's.

### Publication

`manifests`, `sequence` and `pointer` are the files under `attempts/`, the file
`sequence` and the files under `pointers/`; `issued` and `recovered` are a
process's `_issued_sequence` and `_sequence_recovered`. Each action is one
access to the files, in the order of `publish` and `lookup`: `ReadSequence`
(under the sequence lock until `WriteSequence`), `Commit` (the rename) or
`Refuse` (any failure before it), `ReadPointer`, `MovePointer`; and
`LookAtPointer`, `CheckPointer` (with its read of `sequence`), `Scan`,
`ReadAgain`, `Repoint`. Publications of one process run on several threads; its
lookups exclude each other (`_lock`) and nothing else. A write replaces its file
or fails (`_write_atomically`), and a failed write of the sequence or the
pointer is swallowed. `Scan` meets every manifest there was when it began and
any of those that appear meanwhile, as a directory scan does. `Crash` loses what
a process remembered and was doing; it may come back at once.

Manifests carry what order and lookup tell apart (workload, state, number);
that the bytes read back are those meant (the hash) is part of `Refuse`. Reads are
taken to succeed, and records to be of this layout's version. `floor` (what was
published when a lookup began) and `lost` are history.

`ResultRegister` says what is left when the files are hidden: results only
accumulate; an answer is a published result, and none only if there was none when
the question was asked; while `orderly`, it is at least as new as the newest then.
The store maps to it with `orderly` as "one process ever published, and no
write of `sequence` was lost", which is as far as the module's docstring goes (two
processes may issue one number) and no further than the code does (see Findings).

### Attempts

`attempts`, `by_workload`, `by_submission` are the store's memory; `manifests` and
`bindings` the files. `Conflict`, `Retry`, `Reuse` and `Begin` are the branches of
`submit` under the store's lock, with `Recall` the `_rehydrate` each of them makes; the thread of a
new attempt then goes through `Price`, `TakeNumber`, `Commit` (or `CommitFails`),
`SetState`, `SetOutcome`. `Lookup` and `Get` are the two reads; `Crash` leaves the files.
The store below is `Publication` used by one process and reduced to a number and
a commit. `told` and `named` are history.

### The end-of-day bundle

`disk` is the bundle's files while `Export` writes the next one over them, one file
at a time; `ReadFile` is one file of `load_bundle` with its size and hash check,
`JoinTerms` `join_terms`, `ResolveMarketInputs`, then one `BuildItem` per row and
`PriceBundle`. What one row answers is a function of the row and its entry
(`ItemOf`), from the rules of bills, notes and equities in `EodPricing`. Faces, fractions
and money are integers, so that a rounding that depends on the face (the accrued interest)
is exact. A present value is its flows.

### The run request

`RunPrecision` says which policies are accepted, `RunRequest` which requests
(`validate_run`, in the order of the code). `Submit` and `Start` are the two checks, before the queue and
in the worker; each phase of the pipeline is an action named after it. A phase
records what it looked up and did not find (`cause`), which settings it took (`taken`), the formats
and products it computed with (`computed`) and the scaled arrays it stored (`stored`); the properties relate these to
what was asked and checked. `RunEvidence` reads the finished run.

### The wire and the result

An object of the body is a function of the fields sent. `BodyTaken` and `ConfigFilled` are
the schemas, with the table of their required fields and defaults; `RunRequestConfig`
and its parts are the engine's own classes with theirs. `PostEcho` posts what the
result's document repeats. `WriteResult` writes the rows and arrays, `Damage` is a chunk
lost, exchanged or changed or a reference changed, `ReadResult` the client of `read_array`.

### A trade

`Book` takes what the constructors take; `ValueToday`, `ValueTheta`, `PriceOption`,
`PriceUnderlyings`, `PriceLegs` are the cubes of the trade, a value being the flows it
discounts, the rate each coupon pays and the days on which it may be exercised (which depend, for an
American, on the date it was built on); `WrapExercise` is the vectorised wrapper over
the exercise dates. `GridBookkeeping` has the backward induction: `ShapeDates` builds
each date's rows, pads and caches them (`_build_grid_schedule`, `one_shape`,
`_cache_slots`), `InductRow` rolls all dates back one row, `PriceBlocks` splits paths
into blocks and joins them.

### Calibration and roots

`CalibrateOn` chooses the basket (`basket_expiries`), `Bucket` solves one bucket,
`RequireAccepted` judges, `StackHelpers` pads the helpers of a batch. A helper is the
variance that reprices it and the solver's answer is the root or the end of the
bracket it is beyond: that this is what the solver answers is `SolverRoots`, where
`Widen` moves the ends, `Halve` is bisection and `Newton` a safeguarded step. A function is a table of
signs with noise near its root: each evaluation there may round either way.

### Risk

`RevalueTrade` builds the moves (bumps, or shocks), `MapBatch` maps every device's next
batch, `RequireCalibrated` refuses a missed recalibration, `ReadFigures` reads labels.
`Choose`, `RevalueAll`, `Summarise` are a market-risk study; `OpenBook`, `AddColumn`,
`NetBook` an exposure run. Values are integers and a mean is a sum with its count, so
comparisons are exact.

### MCPipelines

The sequential components share no state, so one run checks them all: the variable
`machine`, fixed by the initial state, says which of them moves; the others stay in
their initial states. Its invariants are one per component, each the conjunction of
the component's properties. Nothing is gained or lost against separate runs but TLC's
start. The module begins with the components' inputs, one section each.

## 3. Runs

| Run | Bounds | Shows |
|---|---|---|
| `job_queue` | 2 rows, 1 key, 2 chunks, time 0..3, retention 1 | all seven properties of the queue by itself, with every operation at any time. Two rows are what keys, order and purge relate; a third only repeats a pair |
| `engine_worker` | 2 workers, 1 or 2 locks in every assignment, 2 runs, 1 fault, one host | single workers: ownership, takeover, nothing priced twice |
| `deployments` | `MCDeployments` composes the two ways to run workers: 2 workers of one host and lock, 2 runs, 1 fault, time 0..1; and 1 worker of a 2-host set, draining, 3 faults, 2 runs, time 0..2 | attempts are bounded and every run ends, with liveness, under the restarts each deployment has. Two workers contend for the lock; three faults exceed MAX_ATTEMPTS, so that a run uses up all its attempts |
| `worker_hosts` | 3 hosts, 1 run of 1 phase boundary, a message of one full and one short chunk, 2 faults | the hosts are in step, never wait for ever, and are the set of `deployments`. Three hosts have two followers that can disagree |
| `supervisor` | 2 API processes on one queue or two, 3 request threads (2 at a time), 3 workers, 1 fault, 1 run a queue | one child each, failed starts counted rightly, a serving worker seen. Three threads are two of one API and one of the other |
| `run_routes` | 2 requests, 2 runs, 1 key sent with 2 bodies, time 0..2 | what callers are told |
| `purged_run` (violation) | as `run_routes`, time passing only between requests | `NoServerError` fails: see Findings |
| `publication` | 2 processes, 1 of which looks up, 2 workloads, 2 attempts, 2 faults (failed writes, crashes) | the store's order, its pointer and the register it implements. Two attempts are what an order relates; every pair of faults may fall anywhere |
| `lost_sequence` (violation) | as `publication` | `LostWriteKeepsOrder` fails: see Findings |
| `attempts` | 2 workloads, 2 submission ids, 2 attempts, 3 faults; a store that is empty or holds one attempt with or without its id's record | submissions, retries, restarts. Three faults are a failed publication, a failed binding and a death, in any order |
| `pipelines` | inputs below | one invariant for each sequential component |
| `stub_exercise` (violation) | the trades of `pipelines` | `AnyExerciseDateIsLegitimate` fails: see Findings |

The runs bound the rows (`MaxRuns`), the clock (`MaxTime`) and the faults
(`MaxFaults`); these are bounds of the instance, in guards. `CHECK_DEADLOCK FALSE`
stands where the model stops: at the bounds with nothing to do, and at the end of a
sequential component. The runs of the result store and of the supervisors check deadlock. Symmetry (over workers,
locks, requests, workloads, ids) is used in `engine_worker`, `run_routes`, the store's runs, `attempts` and
`supervisor`; no liveness property is checked under symmetry.

A multi-row purge, requeue or interrupt needs no more than two rows to show
that the statement applies to each row by itself.

What `pipelines` checks, invariant by invariant:

| Invariant | Parts | Inputs |
|---|---|---|
| `ResultIsOfOneExport` | | bundles of a note, a bill, a share, an option or a swap, with one departure in terms or row each; a next export over them at any point; a file lost or changed, same size or not |
| `OutcomesAgree` | `AdvertisedIsPriced`, `NoteOutcomesAgree` (of notes, not of equities, whose terms nothing keeps from having a schedule) | the same |
| `AcceptedRunsAsAsked` | `NothingIgnored`, `TradesChecked` | every set of analytics, over three portfolios, with one departure from what they need, and sets of one, two or all with two; on two platforms |
| `PolicyIsKept` | `FormatsAreChecked` (`BlocksWithinReplicates`, `NoUncheckedFormat`), `ValidatedIsMeasured` (with `UnwarnedIsMeasured`) | the same, with eight campaigns of evidence. `BLOCK = 2`, so that a replicate may be a whole number of blocks or not |
| `OneContract` | `WrapIsTheWalk`, `RatesAgree` (`OneRateFromItsFixing`, `ThetaIsTheFirstDate`) | every grid over five days; swaps, bonds, Europeans, Bermudans, Americans, new and seasoned, exercises on, between, before and after coupons and dates; own fixings of the past, none, and of simulated dates; any in-the-money function |
| `InductionIsOrdered` | `ExerciseHoldsItsCoupons`, `EveryTimeIsARow`, `PathsKeepTheirPlace` | Bermudans and Americans on sets of valuation days with coupons of 1, 2 and 4 days |
| `CalibrationReprices` | `CalibrationIsSound` (`AcceptedReprices`, `BasketCovers`, `CorrectionsAreWhole`), `RootsAreKept` | dates in, on and past a reference grid, every stack of two legs of up to 3 and 6 coupons; roots in, at and outside small brackets, starts near and far |
| `ShiftsKeepTheirLabel` | `GreeksAreOfTheirShift`, `PnlIsOfItsScenario`, `DevicesShareTheWork`, `RefusedForItsMisses` | one and two curves and quotes, batches and devices that divide the scenarios and that do not, 1 and 2 hosts |
| `TailFiguresHold` | `TailIsOrdered`, `PairIsOneSample`, `ScenarioIsItsWindow`, `ErrorIsExplained` | every draw of four scenarios out of two, eight scenarios in 1 and 2 replicates paired or not, histories longer than two blocks, as long and shorter. A standard error is missing exactly where it is warned of or a sample it is read from has no tail. `STABLE_TAIL = 2` is the count below which the code warns |
| `ProfilesHold` | `NettingAddsUp`, `EffectiveIsAbove`, `DeadHasNone`, `BaselIsInsideTheHorizon`, `PfeIsOrdered`, `PairCorrects` | two trades on four paths and three dates, one that dies before, on or after them; unpaired, paired by prefixes, paired whole. `BASEL_DAY = 5` is between two dates, on one, or before all |
| `WireKeepsBoth` | `WireIsFaithful` (`SentIsAsked`, `UnsentIsDefault`, `TradesAreNamed`, `ColumnsAreWholeCurves`, `EchoAsksTheSame`), `ResultReadsBack` (`ReadsBackItself`, `ChunksAreWholeRows`, `RowsAreTheirTrades`) | bodies with one section sent another way, each with some of its fields and objects and without the others: everything sent is compared where it arrives, and everything not sent with the default of the engine's own class; arrays of one row to a chunk (`CHUNK_BYTES = 5`), several and the last short, and a row larger than a chunk |

Each domain is chosen so that both sides of every branch are met: what is refused, what
is at a boundary, what is beyond it. `ASOF = 10` and `THETA_DAYS = 1` only fix the days'
origin and the Theta date.

`NothingIgnored` counts what the code takes. It names the settings that are
accepted and unread (below) as exceptions: the calibration tolerance and a pricing format
count only where there is something to calibrate or price.

`RunnerOwnsRow` and `RunningHasRunner` hold only where all workers of a queue
share one lock, and say so (`OneLock`). With two locks TLC finds the
counterexamples at once: `interrupt_running` marks a live worker's run, and a
worker that dies beside a live one leaves its row running until some worker
starts. The code documents one worker per host; the lock's path, not the
queue's, is what enforces it. For workers of a single host `RunAgainOnlyOnSets` and
`ResultIsItsRunners` hold even then. For worker sets they need one lock too (`NoTwoSets`): a
second set on the queue puts back what the first one is running, and runs it again beside it.

**Fairness.** `EngineWorker!Fairness`: weak fairness of each worker's own steps:
a process that runs goes on running (a hung JAX computation is outside the
model) (`GoesOn`). For a worker by itself (`HostCount = 1`), weak fairness of "somebody
starts a worker while a run is unfinished" (`PollStarts`):
`get_run` calls `_ensure_worker` on every look at an unfinished run, so this is
the promise to a caller who keeps polling, and to nobody else. For a set, whose API must run
with `JAX_RISK_WORKER=external` and starts nothing, weak fairness of each worker's start
(`Restarts`), whether or not a caller polls: the restart policy the documentation asks of whoever
runs the hosts (worker.py:52; docs/reference/http-api.md:369, systemd's `Restart=always`, a
container's restart policy). Run `deployments` checks `EveryRunEnds` under either. `WorkerHosts!Fairness`:
weak fairness of each host's own steps and of a collective every host has entered (that a
collective completes is JAX's promise), of JAX's service stopping a broken set (its heartbeat),
and of starting a host that has no worker. Faults are
bounded; cancels, submissions, failures and deaths are not fair.

Every property of a passing run has a mutant in the module of the definition it
changes, a plausible mistake in that code under the name `<Operation>_<Mistake>`;
TLC finds the property violated with it.

## 4. Proofs

Eight modules hold proofs, for any constants that satisfy the assumptions the modules state:
any numbers of workers, locks, hosts, processes, threads, requests, keys, bodies, runs, attempts
and faults, any message and chunk lengths; any exports, requests, evidence, root problems,
exercise dates, trades, grids of dates and options valued on them. Each component has one inductive invariant `I`; the module shows
`Init => I` and `I /\ [Next]_vars => I'`, and reads the properties off it. Each `I` was checked by
TLC on the instance of the component's run before it was proved. The
argument is the same everywhere: first what a step does to the state, action by action; then,
for each conjunct of `I`, that these effects preserve it.

| Module | Invariant | States for every instance |
|---|---|---|
| `JobQueue_proofs` | `QueueInv` | the five invariants of run `job_queue`, `OutcomeIsFinal`, and the refinement of `RunLifecycle` |
| `QueueUsers_proofs` | `WorkerInv` | `RunnerOwnsRow`, `RunningHasRunner`, `RunAgainOnlyOnSets`, `ResultIsItsRunners`; the workers use the queue as `QueueSpec` allows, and so implement the lifecycle |
| | `RoutesInv` | `ToldOneOutcome`, `AcceptedIsOwnRun`, `CancelSticks`; the routes and their worker use the queue as `QueueSpec` allows |
| `WorkerHosts_proofs` | `HostsInv` | `HostsKeepStep`; the hosts use the queue as `QueueSpec` allows, and implement the one worker of `EngineWorker` |
| `WorkerSupervisor_proofs` | `SupervisorInv` | `OneChildPerApi`, `FailedStartsAreItsOwn`, `ServingIsSeen` |
| `Publication_proofs` | `PubInv` | `NumbersAreDistinct`, `PointerIsPublished`, `LookupIsNewest`, and the refinement of `ResultRegister` |
| `Attempts_proofs` | `AttInv` | `ToldIsDurable`, `SubmissionRunsOnce`, `LookupFindsCompleted`, `IdNamesOneWorkload` |
| `Pipelines_proofs` | `EodInv` | `ResultIsOfOneExport`, `OutcomesAgree` |
| | `RunInv` | `AcceptedRunsAsAsked`, `FormatsAreChecked`, `PolicyIsKept` |
| | `RootInv` | `RootsAreKept` |
| | `CalibInv` | `CalibrationReprices` (with `RootInv`) |
| | `TradeInv` | `OneContract` |
| `GridBookkeeping_proofs` | `GridInv` | `InductionIsOrdered` |

**The queue.** `RowStep` lists what one step can do to one row; `StepEffect` shows, operation by
operation, that a step inserts one row, or changes some, or removes some, and leaves the
others; the conjuncts are then preserved by the kinds of row step, with no more talk of
operations. `QueueInv` is the properties and two conjuncts. `UnusedAreAbsent`: a number not given
out has no row; without it an insert could land on a row that has artifacts or attempts.
`RunningWasClaimed`: without it a requeued row could count as never started, and
`StartedInOrder` would not be inductive. Workers, hosts and routes are each shown to take only
steps of `QueueNext` (`WorkersUseQueue`, `SetUsesQueue`, `RoutesUseQueue`), so the queue's theorems
hold under them, and their proofs use `RowStep` instead of the statements.

**The workers.** A step of a worker has one of ten shapes (`WorkerShape`). What makes the properties
inductive is `OwnersHoldLocks` (with one lock, one worker past it), `RunnersHaveRuns` and
`RowsAreRunners` (which of its claims a row still shows), `SinglesClaimOnce` (without a set nothing is
put back, so a pending row was never claimed) and `EndingsFit` (a row is closed with a class or
after the last phase). `RunnerOwnsRow` and `RunningHasRunner` need each other: a takeover is
harmless because no other worker is on a run, and a claim is of a row no other worker is on.

**The hosts.** `HostsKeepStep` says nothing of the states on the way: a host may be a whole phase
ahead of another. `Abreast` says how far two hosts on one run may be apart, by where each is: one
boundary at most, and only where the other will price that phase without failing, or end it in
the same outcome but for the last phase. `InStep` puts the others where the primary
is: all in `share`, all with the same first bytes of the message, all on the run the primary
claimed. It holds of a whole set; of a broken one only what concerns one host by itself is claimed
(`HostFits`, and the primary's `CommandFits` and `EndingFits`), and `BrokenFits` is why that is
enough: no collective completes once a host is lost, and a set is whole again only
when all of it was started anew. That the chunks put together are the message that was cut
(`NextChunk`, `WholeMessage`) is by arithmetic on sequences, for any two lengths.
`HostsImplementSet` takes the actions one by one: the set's position is its primary's, moved on to
where the decision is already taken (`SetPlace`); a collective is mostly a stutter, gathering the
outcomes is the end of the worker's last phase, and the death of any host is the worker's death,
seen when the primary goes (`SetFaults`).

**The supervisors.** `WorkerFits` and `ThreadFits` tell the lock's holder from where the workers and
the threads are, `ParentFits` and `ChildFits` tie a worker to its supervisor from both sides; a
supervisor with a thread in its lock has no child. Without the last, two threads could launch one each.

**The routes.** Three facts about a row, once true, stay true whatever the queue does: `Settled`,
`Stuck`, `OwnRun`. A request adds to what callers were told only where the fact holds
(`RouteShape`); `HeldFits` carries the fact from a request's first read to its second.

**The result store.** `SequenceCovers` and `IssuedFits`: every number in use is at most what its process
issued and, while no write was lost, at most the file's. A lookup's `NoneNewer` relates what it
has found to what was published when it began; it has to be stated of each of a lookup's places.
The finding `lost_sequence` is where `SequenceCovers` would fail without its condition.

**The attempts.** `AttemptFits` and `ThreadFits` say what memory, the thread and the files agree on between two
writes, `BoundFits` that a submission id has one record, whoever is asked. Which attempt a lookup
answers is a maximum over a finite set, whose existence is taken from the well-foundedness of
the naturals (the library's `NatLessThanWellFounded` and `WFMin`), not from an induction of ours.

**The bundle.** Files may be exported over while they are read. `EodInv` has that a load that was not
refused has read every file as the manifest's export wrote it (`ReadSound`: the hash, not the time of
reading, decides), that the join pairs each row with the only entry that has its key (`JoinSound`;
were two entries matched to one key the join would have refused) and that the items so far are the
outcomes of the first rows, in order (`ItemsSound`). `OutcomesAgree` then is about one
item: a note's price, sensitivity and accrued interest are attempted apart, and the lemmas follow each
through its refusals, in the order of the code, to one and the same reason. The accrued coupon is in the price because the
schedule's coupon that accrues on the session date is the one that is still to be paid.

**The run.** Whatever was asked for has been taken or will be taken by a phase still to come
(`AskedFor`), and every phase to come belongs to an analytic that was asked for and so was
checked (`Fits`); without the second, a phase might look for a section nobody gave. That no
trade is missed (`NoTradeMissed`), no format or product unchecked (`Checked`) and no block
divided between replicates (`BlocksIn`) is then preserved phase by phase.
`PolicyIsKept` adds, of a finished run, that a figure without a warning has a campaign that covers it: the
warnings leave out only what a campaign's ceilings, products and paths reach.

**The solver.** `RootsAreKept` says nothing of a half-done iteration. `RootInv` says where
the bracket may be after any number of steps: around the root, but for the rounding of the ends
(`EndsHold`, `BracketHolds`), with what its remaining halvings reduce to one rounding
(`HalvesLeft`, by the arithmetic of powers of two). Every evaluation near the root may round
either way, and each may round differently; a Newton step that is at the root stays there because a step
inside the rounding is taken to be no step.

**The calibration.** `BasketFits` has that what was taken into the basket is what its options and
the grid ask for, `BucketsFit` that each variance solved so far is its helper's or an end of the
bracket, `StackFits` that sums over a stack's padded coupons are those of the coupons themselves.
The basket's search over the grid and a stack's corrections are sums and filters; the lemmas
give each as a set or as a total over an index range, and never look at the order of evaluation.

**The trade.** All readers of a coupon (today's cube, the Theta cube, the option, its underlyings, its
legs) agree on one rate, `RateAt`: forecast up to and on its fixing date, after it the history's
or the path's first fixing after that date. There is one exception, and the theorem states it: where
the trade's own fixings hold the very date valued, an option takes the coupon for fixed
a date early (`RateFits`, `TakesItsOwn`). The Theta value is built on the Theta date and the path's on the as-of date;
`DaysRoll` shows that this moves an American's window only where it is open on the Theta date,
by that day. The
wrapper goes over the exercises one by one, each over all dates; `WrapFits` says its column is,
so far, that of the first exercise that enters, and `EnteredBy` which that is. `OneContract` compares
it with a walk over the dates, `ExercisedInto`, which is a recursive function on the dates; the
proofs give its solution (no exercise before the first one in the money, that one after) and show
that it satisfies the recursion, by the least date at which it would not.

The last is how all the recursive functions in these proofs are dealt with: that one exists, and what
it is, by the least counterexample, from the well-foundedness of the naturals.

**The grid.** The code makes four tables before the first row is computed (what each row does with
each coupon, the coupons' cache columns, the rows of the induction, the rows padded to the batch's
shape), each by a loop over the one before. A theorem about the rows is a theorem about these
tables. A coupon's status before a row, which the code carries from row to row, follows from that row's
time and the one before it alone (`StatusIs`, `ActIs`), because the times fall. Two coupons given one cache column are
never cached at once (`SlotsFit`, `Apart`): a column is given again only after the last row its
coupon holds it, the row in which it moves included. Hence the
columns after each row are a function of the coupons and of the row's time (`DateInv`, `RowKeeps`): the
underlying holds the coupons that are whole and have been entered, each cache column the one coupon it
has there, and nothing is in two places. A date's padding comes before its own rows and
does nothing (`Idle`, `PaddedRowsAre`), so dates of different lengths come to their
last row together. `GridInv` is this of every date at once; `DateHolds` reads off what an exercise gets.
For the blocks of paths, a number of blocks that divides each device's share gives every block as
many paths of every device (`DeviceOwns`), and taking the blocks apart again is the inverse of making them.

The assumptions are those the modules make on their constants; TLC evaluates each on the runs. Most say
that a bound is a number, that a list is a list, or that `None` (SQL's NULL, Python's None) is none of the values it stands
beside. The others:

| Assumption | Says | Because |
|---|---|---|
| `HostsAssumption` | a set has more than one host and is the only worker of its queue's instance | a set of one is `EngineWorker`'s worker |
| `ExportsAssumption` | an entry is of the contracts extract exactly if it is a swap | the code prices by the terms, of rows of positions only (pipeline.py:198), and relies on the exporter's promise that contracts are swaps (pipeline.py:86) |
| `CampaignsAssumption` | a campaign reports the figures of an exposure or of a market-risk run, each with its ceiling | the campaigns are written by the two harnesses that make them |
| `RoundingAssumption` | the root's rounding is within its neighbourhood | `NEAR` is the part of the table that is modelled point by point |
| `ProblemsAssumption` | a bracket's ends are in order, and a bisection has enough steps for the widest bracket | the callers give 60 and 100 halvings (calibration/lgm.py:99, jamshidian.py:70), more than a double can tell apart |
| `CalibratedAssumption`, `GridAssumption` | exercise dates and grid dates do not decrease; a currency's expiries are not before its date | bermudan_swaption.py:105 refuses others; the grid is taken forwards from its first date (pricing/config.py:190); expiries are tenors, of which nothing refuses "0D" |
| `DateGridsAssumption` | the simulation's dates increase strictly and are after the as-of date | market_simulation/config.py:157 and 248 refuse others |
| `OptionsAssumption` | the options valued together are Bermudans and Americans as booked, on lists of days | american_swaption.py:88 and bermudan_swaption.py:101 refuse any other before it is priced |

**Only model-checked.**

- Liveness (`EveryRunEnds`, `NobodyWaitsForever`, the lifecycle's liveness): neither fairness nor
  `ENABLED` is in the prover's reach.
- `ShiftsKeepTheirLabel`, `TailFiguresHold`, `ProfilesHold`, `WireKeepsBoth`: what they compare is the result of
  folds, sorts and flattenings of sequences of any length (scenarios through batches and devices,
  ranks of a sample, chunks of an array). What such an operator computes for every input takes an
  induction over data, with an operator for its parameter.

## 5. Findings

- **A run purged during a request.** `docs/reference/http-api.md:228` promises 404
  for a run retention has purged. `get_run` and `cancel_run` check the row on
  their first read only; a purge before their next read makes them raise, which
  the server answers 500. Run `purged_run` shows it; the row has to come of age
  between two reads of one request.
- **A lost write of the sequence file.** `publication.py:182` says it "costs the scan
  above, never an order". `lookup` trusts a pointer whose number equals the file's;
  with the second result's number lost, the first result's pointer still does, and until the
  pointer moves (its own write may fail, or its process die first) the first result is
  answered. Run `lost_sequence` shows it. Both results are of one workload key, so
  the same computation; what is wrong is which is newest.
- **An exercise inside the last fixed period.** `docs/instruments/american-bermudan-swaptions.md:151`
  calls any exercise date legitimate. A Bermudan whose exercise date lies inside its last
  fixed accrual period is booked and priced until that period starts; on a date after that
  `prepare_bermudan` has no fixed coupon left and reads the last of an empty list: the
  IndexError ends the whole valuation. Run `stub_exercise` shows it.

Also seen while modelling, each kept in the model as the code has it:

*Queue and workers.* `lock_owner` may return the record of a worker that is gone while a
probe or a new worker holds the lock, so a run may be refused (503) for a queue nobody serves
any more, against job_queue.py:524. A request-class failure on one host alone before
the last phase would leave the hosts in different collectives; the model takes such failures to be
the request's, the same on every host, and lets one host fail alone in the last phase only.

*TraderX.* Two publishers of a workload may write its pointer in the other order, where
`_advance_pointer` says "forward only"; `LookupIsNewest` holds all the same. After a failed
publication the attempt stays running and a retry is answered that attempt until the process
restarts. After a restart, an older success read back by id is served by lookup before a newer one on
disk (workload.py:334). `complete` and `fail` set the state before the result: a reader may see
one without the other. A null couponFrequency reads as "NONE" and makes a bill (bill.py:82
against bill.py:10). Some faults of one row end the whole submission (normalize.py:162,
pipeline.py:253), against `price_bundle`'s docstring; a row count that is no number ends in an uncaught
ValueError. A malformed closing mark or coupon is reported as a calculation nobody prices; an entry not found in
a v2 bundle as a bundle without terms (normalize.py:132); a blank redemption is refused for a bill
and defaulted for a note. Duplicate rows share an item id, and allApplicableComputed is never
true for a bundle with rows.

*Requests.* Settings accepted and read by nobody: a rounding seed without stochastic
rounding, `storage_scaling` without scaled storage, `by_product` of a product not in the
portfolio, pricing precision of an empty portfolio, `bootstrap_tolerance` with nothing to
calibrate, internal roles of an analytic not asked for. Market data of the simulation itself, correlations of
factors not simulated and a first date not after the as-of date fail the run in a phase and
are not a 400. With exposure and market risk together `precision.market` is refused, although
exposure reads it. An index curve not named "...-<n>M" fails an accepted sensitivities run
(bump.py:109); one name quoted under two currencies refuses every market-risk request.
`RunRequest`'s docstring allows an empty portfolio for calibration alone; the code allows it for
npv and exposure too. `trace.PHASES` lists calibration first; it runs last. Trade ids spelt out
as their defaults hash to another body than none given.

*Trades.* A trade may hold fixings of any date (schedules.py:96). On a simulated date that its own
fixings hold, a Bermudan takes a coupon fixed that day for known and pays the path fixing of the next grid
date (bermudan.py:308), where `docs/instruments/american-bermudan-swaptions.md:316` has the fixing
given or a forecast off that date's curve; a swap, and the swaps it exercises into, forecast the coupon
there (legs.py:14-23). `OneRateFromItsFixing` states this as its one exception. An American whose window is open on the Theta date may be exercised that day on the path and
not in its Theta (american_swaption.py:70-77 has it so, after ORE); the Theta is then not quite the first
simulated date's value. A Bermudan's underlyings need the coupon before the first that can still be entered, against
bermudan_swaption.py:59. A European has no fixings, so one whose first coupon fixed before the as-of date
cannot be priced. Equal Bermudan exercise dates are accepted at booking and may make the bootstrap
refuse; an exercise on or after the underlying's end is refused only when priced.

*Figures.* `calibrated_values` promises a root in every bucket; a floored bucket whose error is
small is accepted. With replicates, the batches of the paired revaluation are aligned per
replicate and so need not be the float64 run's, against `_paired_figures`' docstring. A two-level EPE may be
negative. A history too short for two blocks reports its method as bootstrap, with no
error (and warns); an empty tail of ties is not warned of. `read_array` checks neither shape nor
dtype against the bytes it has verified.

## 6. Not modelled, and the plan

Not modelled, and why:

- Real numbers: discount curves and day counts, Sobol sequences and paths, closed
  formulas of the models, present values, adjoint sensitivities, rounding on a format's
  grid. Their correctness is a matter of numerical error, for which a state machine has
  nothing to say; the modules above keep what decides *which* number it is.
- The migration of queue files of older schema versions and the switch to WAL mode (run
  once, inside one transaction or an exclusive lock), the compile counter and profiler.
- Parsing of numbers and dates, messages, logging, the scalar layout of documents, FastAPI's wiring.
- Schedule generation from a tenor and a calendar, which is ORE's.
- The hashes: two bodies, files or workloads are equal when their hashes are.
- Demos, benchmarks and the compliance register: clients and recorded measurements.

The plan is done as far as it goes. What would come next is beyond the tools: proofs about the
components whose meaning is in folds and sorts (section 4), and the numerics above.
