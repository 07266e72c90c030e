# Verification of forecast_app

forecast_app is a web service that turns an uploaded sales table into a
forecast. A FastAPI server (`backend/app`) keeps its rows in SQL, fits models in
a pool of worker processes, reports progress to browsers by Server-Sent Events,
and optionally spreads the work over Celery workers with Redis between them.

This directory holds TLA+ models of that server, the TLC configurations that
check them on small instances, and TLAPS proofs of what matters most for every
size. Where order, failure and concurrency decide whether the server is correct,
the models are state machines with the interleavings of its code; where a
sequence of conversions decides it (from a file to a history, from a history to
a forecast), they are state machines of few steps whose operators are the
algorithms, checked over many small inputs.

    tlc -workers 2 -config MCScheduler.cfg MCScheduler
    tlapm SchedulerProofs.tla

Modules named `MC...` give the specifications their instances for TLC
(`MCHistories` has the histories of such an instance); modules named `...Proofs` hold theorems.

Contents: 1 the system, 2 the plan, 3 the modules and the code, 4 the runs,
5 fairness, 6 the proofs, 7 what the models showed about the code, 8 what is not
modelled.


## 1. The system

### 1.1 Components

| component | source (under `backend/app`) | module |
|---|---|---|
| Scheduler and process pool | `services/job_runner.py` | `Scheduler`, `FairSlots`, `SchedulerProofs` |
| Run lifecycle | `services/forecast_service.py`, `services/series_service.py`, `database/session.py`, `main.py` | `RunLifecycle`, `RunLifecycleProofs` |
| Distributed execution | `workers/tasks.py`, `services/forecast_service.py`, `services/series_service.py` | `Distributed`, `RunLifecycleProofs` |
| Progress bus and event stream | `services/job_runner.py`, `api/routes/forecasts.py` | `ProgressBus`, `ProgressBusProofs` |
| Progress relay between processes | `services/progress_relay.py`, `api/routes/forecasts.py` | `Relay`, `LiveProofs` |
| Creating and retrying runs | `api/routes/forecasts.py`, `services/forecast_service.py` | `Submission`, `SubmissionProofs` |
| Retention | `services/retention_service.py` | `Retention`, `RetentionProofs` |
| Scores and actuals | `services/scoring_service.py`, `services/actuals_service.py` | `Scoring` |
| Dashboard cache | `core/cache.py` | `AsyncCache`, `DataProofs` |
| Circuit breaker | `core/breaker.py`, `insights/llm.py` | `CircuitBreaker`, `LiveProofs` |
| Stream leases, shutdown signal | `core/streams.py`, `core/lifecycle.py` | `Streams`, `LiveProofs` |
| Rate limits, requests in flight | `core/ratelimit.py`, `core/middleware.py` | `Admission`, `LiveProofs` |
| Mail outbox | `core/mailer.py`, `services/mail_sender.py` | `Outbox`, `PeopleProofs` |
| People and access | `services/user_service.py`, `core/broadcast.py`, `api/routes/auth.py` | `Access`, `PeopleProofs` |
| Datasets | `services/dataset_service.py`, `services/mapping_service.py`, `datasets/ingest.py` | `Datasets`, `DataProofs` |
| From a file to columns and a verdict | `datasets/` (`ingest`, `coercion`, `profiler`, `refusal`) | `Reading` |
| Schema mapping | `schema/` (`roles`, `keys`, `recall`, `resolve`, `canonical`), `services/mapping_service.py` | `Mapping` |
| Forecasting a mapped table | `schema/` (`validation`, `coverage`, `fanout`) | `FanOut` |
| From rows to a history | `datasets/queries.py`, `datasets/quality.py`, `services/forecast_service.py` | `History`, `Calendar` (`forecasting/frequency.py`) |
| Choice of models | `forecasting/` (`engine`, `diagnostics`, `routing`, `preparation`, `models`, `metric_plan`) | `Routing`, `Candidates` |
| Model search and backtest | `forecasting/engine.py`, `forecasting/backtest.py` | `ModelSearch`, `Backtest`, `SubmissionProofs` |
| Ranges and what-ifs | `forecasting/scenarios.py`, `forecasting/calibration.py`, `forecasting/engine.py` | `Bands` |
| Grouped runs | `forecasting/hierarchy.py`, `services/series_service.py`, `services/breakdown_service.py` | `Hierarchy` |
| Insights, their wording | `services/insight_service.py`, `insights/llm.py`, `core/httpcache.py` | `Insights`, `DataProofs` |
| Insights, what they say; decisions | `insights/generators.py`, `insights/engine.py`, `forecasting/decisions.py` | `Advice` |
| Connectors, reports and exports, dashboard figures, storage, configuration, frontend | the rest | not modelled, section 8 |

### 1.2 State, operations, and what makes each part correct

**Scheduler** (`class Scheduler`, `ExecutorRegistry`). State: how many slots each
run holds (`_held`), the list of waiters with a sequence number and a future
each, the closed flag, the `ProcessPoolExecutor`. Operations: `acquire`,
`_release`, `_promote`, `close`, `run_for`, `drain`. Hard: one cancellation can
arrive at any of four awaits (while `on_wait` runs, while the waiter's future is
pending, after it was granted and before the waiter woke, while the fit runs); a
worker whose caller was cancelled goes on fitting; a worker may die and break
the executor. Correct when no slot leaks and none is given back twice, no slot
is idle while somebody waits, a freed slot goes to the run that holds fewest,
nobody starves, and a drain ends.

**Run lifecycle** (`execute_run`, `_execute`, `forecast_series`, `finalise`,
`cancel_run`, `delete_run`, `mark_failed`, `complete_run`,
`recover_interrupted_runs`). State: the row's status and three groups of result
rows in the database; the background task in memory. The only link between them
is a series of short transactions. Hard: cancel, delete, drain and crash between
any two transactions; a commit whose reply is lost; a transaction that fails; a
failure path that runs against a row somebody else has finished. Correct when a
completed run is whole, every active run has somebody to finish it, what is
announced is what is recorded, and an ended run stays as it ended.

**Progress bus and stream** (`ProgressBus`, `start_relay`, `_progress_stream`).
State: the latest frame of each run, its subscribers with a bounded queue each,
the channel from the worker processes; per browser its connection and its
`Last-Event-ID`. Hard: two paths for the frames of one run, queues that drop,
outcomes that arrive between a read and a subscription, reconnections, frames
of a worker nobody waits for any more. Correct when no open stream misses how
the run ended, and nothing contradicts it afterwards.

**Creating and retrying runs** (`start_run`, `create_or_join_run`, `retry_run`).
State: the unique index on the idempotency key. Hard: two requests that both
find nothing and both insert; a commit whose reply is lost. Correct when one key
makes one run, executed once, and whoever loses is answered with the winner's.

**Retention** (`plan`, `sweep`, `_most_recent`). State: rows only. Hard: a plan is
made in one transaction and carried out in others, beside other passes, people
who delete, people who save scenarios. Correct when nothing protected is
removed.

**Dashboard cache** (`AsyncCache.get_or_set`, `_join`). State: entries and pending
computations. Hard: the leader of a computation, or a waiter, is cancelled when
its browser leaves. Correct when a key is never wedged, misses are coalesced and
waiters are released.

**Circuit breaker** (`CircuitBreaker`). State: closed, open or half-open, a failure
count, a claimed trial, behind a lock. Hard: the calls it lets out report in any
order, or never, and may be from before the last change of state. Correct when
it opens only for cause, never wedges shut, and one trial decides.

**Distributed execution** (`run_forecast_task`, `fit_series_task`,
`finalise_series_task`, and the dispatch of them). State: the row, the result rows,
the messages of the broker, the counter of the chord. Hard: a task is delivered
again from its beginning when its worker died; a reply is lost; a soft and a hard
time limit; a cancel that revokes what it finds and writes the row. Correct when
what reads as completed has each of its results once, and every run ends.

**Progress relay** (`publish_from_worker`, the Lua guard on the stored frame,
`ProgressRelay`). State: the stored frame, a channel that forgets, the bus of the
web process, the connection of the browser. Hard: three sources of the first
frame of a stream (row, store, bus), hosts whose clocks differ, pub/sub that
loses what is said while it reconnects, a worker that dies between its commit and
its announcement. Correct when the outcome reaches the screen and the screen does
not go back.

**Scores and actuals** (`score_run`, `actuals_service.record`, `stored_scorecard`). State: the
scorecard columns of a run, `actual` of its points, the history of readings.
Hard: files that are longer, shorter or restated, scored in any order by
transactions that overlap and write the columns they changed. Correct when a card
is that of one file and one measured against restated figures says so.

**Stream leases, shutdown** (`StreamRegistry`, `drain_event`, `begin_shutdown`).
State: two counters, one event. Hard: a request may end at any of its steps, and a
signal handler comes in the middle of any. Correct when the counters are the
leases, no ceiling is passed, and the signal wakes whoever sleeps.

**Admission** (`SlidingWindow.check`, `ConcurrencyLimitMiddleware`). State: windows
of the most recent callers, the requests in flight. Hard: a window that is
forgotten when there are too many callers, a window pruned before it is counted.
Correct when no caller has more than the limit in a window it was remembered for,
and who waits as long as told is let in.

**Mail outbox** (`queue`, `flush_outbox`, `MailSender`). State: the outbox rows.
Hard: several processes pass over the same rows; a mail that was taken and not
recorded. Correct when nobody is written to twice but for that, and every mail
comes to be sent or given up.

**People and access** (`resolve`, `set_status`, `set_role`, `remove`, `invite`,
announcements). State: accounts, the audit table, the streams of topics. Hard:
administrators who decide about each other at once, notices that precede their
commit. Correct when an administrator remains, every loss of access is on record,
and every open screen comes to show what is committed.

**Datasets** (upload, `configure`, `accept`, `delete_dataset`). State: a row
with its columns, two files on disk, the remembered mapping. Hard: requests that
overlap and write the attributes that differ from what they loaded; files that no
transaction covers. Correct when the mapping is one a forecast can use and the
files are those of the rows.

**Reading** (`validate_upload`, `read_tabular`, `profile_frame`, `assess`). State of one
upload. Hard: cells that read two ways, conventions chosen from a sample, merged
labels, periods across the top. Correct when what a column loses is
a small part and counted, a loss of dates is told, and so is an order that was guessed.

**Mapping** (`propose`, `accept`, `to_canonical`). State: the accepted mappings.
Hard: what was accepted for one export is offered for another like it. Correct
when keys keep rows apart, what was accepted comes back, and a proposal can be
drawn.

**History, Calendar** (`aggregate_series`, `build_report`, `align_calendar`,
`_build_payload`; `add_periods`, `period_start`, `infer_frequency`). Hard: unreadable rows, periods
not reported, outliers, the ends of months. Correct when no row is lost on the way
and what is told of gaps is what is done about them.

**Routing, Candidates, ModelSearch, Backtest** (`run_forecast`, `_fit_leaf`,
`run_backtest`). Hard: short, silent and intermittent histories, models that are
not installed, that fail in some windows or diverge; threads that end in any
order. Correct when what is returned is what was tried, nothing is scored on what
it was trained on, and a run does not depend on its threads.

**FanOut** (`validate_canonical`, `coverage_matrix`, `run_fanout`). Correct when each
series is answered once, by the route that was shown for it.

**Hierarchy** (`aggregate_grouped`, `reconcile_tree`, `persist`, `_attach_parents`,
`breakdown_service.build`). Correct when at every node the children add up, bands hold the
forecast and every row hangs where its key says.

**Bands** (`build_intervals`, `conformal_halfwidths`, `simulate_what_if`). Correct when best is
above worst, the range grows with the distance, holds the share that is claimed,
and a what-if keeps to it.

**Insights, Advice** (`rewrite`, `reset`, the generators, `decide`). State: the words
of each insight, the caches of pages. Correct when a page shows what was committed
when it asked and says whose words they are, and when no two statements about one
run contradict each other.

### 1.3 How they interact

- A request is let in (Admission), creates a row (Submission), and the same handler
  dispatches the task (RunLifecycle) that calls `run_for` (Scheduler) once per model
  search and per chunk of series. RunLifecycle abstracts that wait as the step `fit`,
  and takes from Scheduler that `close` cancels tasks that wait for a slot and that a
  cancelled fit gives its slot back. With a broker the handler sends a message
  instead (Distributed), and the steps of a run are spread over tasks.
- The task and its worker process publish frames (ProgressBus); `complete_run`,
  `mark_failed` and `cancel_run` publish terminal ones, whose order against
  their commits RunLifecycle has in full and ProgressBus has as `Finish` /
  `Announce` and `Cancel` / `SayCancelled` / `CancelCommit`. From another host they
  come by the store and the channel (Relay). The browser's stream holds a lease
  (Streams) until it ends.
- `delete_run` is called by people and by Retention, empties the run's rows and
  its place on the bus and in the cache. `delete_dataset` takes a dataset's files
  (Datasets) and its runs.
- A file becomes a table with roles (Reading), its dataset's row (Datasets), a
  remembered mapping (Mapping); its rows become a history (History on Calendar's
  periods), the history a profile and candidates (Routing, Candidates), a search
  (ModelSearch) over folds (Backtest), a range (Bands), and for a grouped run a tree
  (Hierarchy); a mapped table may be forecast whole (FanOut). Candidates, FanOut
  and History EXTEND Routing, because the code calls its functions.
- Insights are made from a finished run (Advice), reworded by the provider
  (Insights) behind the breaker (CircuitBreaker), and read through the cache
  (AsyncCache). A run that is over is scored (Scoring), and what is decided from it
  changes with its scores (Advice).
- A decision about a person queues a mail (Access, Outbox) and wakes that person's
  screens (Access).


## 2. The plan

Order: what a user loses first comes first. Done, in this order:

1. `Scheduler` with its abstract specification `FairSlots`.
2. `RunLifecycle`, `ProgressBus`: one run against everything that may interrupt
   it, and as its browsers see it.
3. `CircuitBreaker`, `Retention`, `AsyncCache`, `Submission`.
4. The deployment with a broker: `Distributed`, `Relay`.
5. What a process lets in and holds open, who may come in and who is told:
   `Admission`, `Streams`, `Access`, `Outbox`.
6. What is stored and later compared: `Scoring`, `Datasets`, `Insights`.
7. The forecast: `ModelSearch`, `Backtest`, `Calendar`, `Routing`, `Candidates`,
   `Bands`, `Hierarchy`, `History`, `FanOut`, `Reading`, `Mapping`, `Advice`.
8. Proofs: the invariants of Scheduler and that it implements FairSlots; the
   safety of RunLifecycle, of ProgressBus and of Retention, whole; CompletedOnce of
   Distributed; CircuitBreaker, AsyncCache, Submission, Backtest; then Access and
   Outbox, Streams, Admission and Relay, Datasets and Insights.

Abstract specifications: `FairSlots` (the scheduler implements it). Elsewhere the
promise is a property over histories: which results a completed run has, which
commit a page was given, which file a card is of.

Left, in this order:

9. A composition of RunLifecycle and ProgressBus over one row.
10. `choose_source` of the scoring, the accuracy trend, the connectors'
    `create_from_frame`.


## 3. The modules and the code

### 3.1 Scheduler, FairSlots

A *piece* is one caller of `run_for`. Everything the scheduler does between two
awaits is one action, because one event loop runs it all.

| TLA+ | code |
|---|---|
| `held` | `_held`, unrolled: `<<r, i>>` is the i-th slot of run r, so that counts are cardinalities |
| `waiting`, `earlier`, `admitted` | `_waiting`, the order of the sequence numbers, the futures |
| `AcquireRefused`, `AcquireAtOnce`, `AcquireLater` | `acquire` up to its first await |
| `Announced`, `Wake` | `on_wait` returning; the future resolving |
| `Unwind` | the `except BaseException` branch of `acquire` |
| `Submit`, `GiveBack` | `run_for` up to the executor; its `finally` block |
| `Release`, `Reached`, `Turn`, `Precedes` | `_release` and the loop of `_promote` |
| `Cancel`, `Close` | `task.cancel()` on a caller; `close` |
| `Pick`, `Finish`, `FinishAbandoned`, `WorkerDies` | the `ProcessPoolExecutor` |

`_promote` is a loop that picks the least waiter, grants it a slot, and looks
again. `Turn` says directly what a run's count will be when the loop reaches a
waiter, so `Reached` is the set the loop takes without a recursion. `FairSlots`
is the promise: a set of owners and a set of wanting pieces, and a slot that is
handed to a piece of the run with the fewest. `SlotPool` in `Scheduler` is the
refinement mapping: an owner is a piece that was *granted* a slot, whether or not
it has woken up to see it.

### 3.2 RunLifecycle

`row` and `results` are the committed database; `place` and `at` are where the
task is on its `Path`, the sequence of awaited steps of `_execute`,
`forecast_series` and `finalise` (a run without a grain, with one, and with one
that no series falls under). `Advance` is a step that succeeds, `Fail` one that
raises with or without its transaction having gone through, `Unwind` a
cancellation that surfaces there. A conditional update (`checkpoint_progress`,
`complete_run`, `mark_failed`) is `Conditional`. A cancel is five actions, one
per await, since its decision, its flush and its commit are apart; between the
flush and the commit it holds the row lock (`Locked`). `Close` and `Stop` are a
drain and a crash; `Recover` is `recover_interrupted_runs`. `frame` is what the
bus holds for the run, whose first terminal frame is the last. `Unheard` is the
commit of a new run whose reply was lost.

### 3.3 ProgressBus

The writer (the task, a cancel, a delete), the worker process with its bounded
`channel`, the bus with its queues, and one stream per browser whose phases are
the awaits of `_progress_stream`: `Open` reads the row, `Initial` is
`_current_progress`, `Greet` sends the initial frame and publishes it, `Join` is
the first step of `subscribe`, `Take` the loop, `Reconnect` an `EventSource` that
comes back with its `Last-Event-ID`. `Trim` is `_trim_latest` once other runs have
filled the dictionary. A frame is its status and its stamp: the frames of one
run come from one host's clock and progress rises with the stamp, so the two
comparisons of `publish` are one.

### 3.4 CircuitBreaker

Every method holds the lock throughout, so each is one action; the call between
`allows` and the report is not, so any number of other reports may come between.
Ages are counted up to the cooldown, which is all that the code compares, and
failures up to the threshold. `Probe` is the "check the key" button, which asks
for no leave and reports all the same. `Vanish` is a thread that never reports.

### 3.5 Retention

Runs are numbered in the order of creation; `finished` orders completed runs by
when they completed, which is what `latest_completed_run` sorts by; `old` is the
cutoff. Each statement of `plan` is a step, since under READ COMMITTED it sees
what was committed since the one before: `PlanLatest`, `PlanScenarios` and
`PlanRecent` collect what is protected, `Plan` selects. `Read` and `Erase` are
the two halves of `delete_run`, for a person and for a pass; `SweepSkip` is a
deletion that failed or found nothing and is logged.

### 3.6 AsyncCache

One key. `Hit`, `Join` and `Lead` are the three ways into `get_or_set`; `Computed`,
`Failed`, `Abandon` its three ways out for a leader, and `Given`, `TakeOver`, `Stop`
those of `_join`. `Settle` is the resolution of the future and the `finally` block
that removes it if it is still the pending one. `Drop` is an entry that expires,
is evicted, or is invalidated with its run.

### 3.7 Submission

The requests with one idempotency key. `Look` and `LookAgain` are the two lookups
(a retry has one in the route and one in the service), `Insert` waits for an
uncommitted row under the same key as the unique index does, `Lose` is the
except branch of `create_or_join_run`, `Commit` / `CommitUnheard` / `Refuse` are
the ends of the transaction, `Dispatch` is `dispatch_run`.

### 3.8 Distributed

`job` and `at` say where the run's own task (0) and the callback of each fan-out are;
`left` what each chord still waits for. `Task(j)` is the next step of a task on its
path of transactions, `Fail(j)` an exception or the soft limit with the reply to a
commit read or not, `RecordFails(j)` a `mark_failed` the database refuses,
`WorkerLost(j)` a redelivery (`task_acks_late`, `task_reject_on_worker_lost`),
`LostBehindIt` one after the fan-out, `HardLimit` a task that is killed for good.
`Dispatch` starts a chord, `Collected` is one chunk that answers (it always does: a
failure is answered with blocked rows). A cancel is its read, its revocation and its
commit.

### 3.9 Relay

A worker with a clock `ahead` by some amount; `store` is `_latest_key` under the Lua
guard, `channel` the pub/sub, `latest` and `queue` the web process's bus. `Report`,
`End`, `Talk`, `Forgotten` are the worker; `CoolDown` its publisher's
`_publisher_retry_at`. A cancel in the web process is `CancelRead` (the status, and the
revocation it awaits), `CancelFlush` (the update, which locks the row, and the frame, on
its own bus and to the others) and `CancelCommit` or `CancelUndone`; `Crossed` says that it
overruled an end it did not know of, or announced one that was not committed.
`Relaying`, `Drop` the relay; `Watch` the next step of the
browser and its stream, `Break`, `Expire`, `Retry` its ends.

### 3.10 Streams, Admission

Streams: `phase` is where each request is between `acquire` and its release
(`leased`, the preparation, `released_after`), `event` the drain event with whether it
is there, on a loop, and set. `BeginShutdown` comes between any two steps, also inside
`drain_event`. Admission: a window per caller and rule; `Refuse`/`Admit` are `check`
with its pruning (`MAX_TRACKED`) and the limit on requests in flight, `Tick` is time.

### 3.11 Outbox, Access

Outbox: `box` are the rows, `pass` what a sender loaded, `sending` the mail it hands over.
`Go` is the next step of a pass, which may deliver with or without being told;
`Abandon` a process that stops. Access: `people`, `audit`, `outbox` are tables; each
person's request is a transaction of several statements (`work`), which reads what
others committed, waits for rows they hold, announces and then commits; `stream`,
`wire`, `due`, `view` are the access stream, the topics between processes and what
screens hold. A scene says who acts, about whom, and who watches.

### 3.12 Scoring

`Begin` loads the run, reads the file and grades; `Record` writes what
`actuals_service.record` finds changed; `Store` and `Commit` write the columns that
differ from what was loaded, behind another transaction's locks. `Total` has what a file has
rows for; `Figure` is what a period is graded with, 0 where there are none, and `Carried`
the periods that are recorded, which those without rows are not. `met` holds pairs
of transactions that were open together, the exception in the properties.

### 3.13 Datasets

A request is `Load`, `Write` (columns that differ), `Remember` and `Commit`, for an
upload `Receive`, `Convert`, `Map`, `CommitUpload`; `RemoveFiles` precedes
`CommitDelete` as in the code. `Abort` is a fault at any point.

### 3.14 Insights, Advice

Insights: `row` has whose wording an insight has and its `updated_at`; a rewrite is
`Load`, `Reword` (the provider's answer is applied to the insights it fits), `Flush`,
`Commit`; `events` are the usage records with what was applied. A page's request is
`Open` (the validator), `NotModified`, `Hit`, `Join` or `Compute`, `Store`. Advice:
`Explain` runs the generators, `Settle` scores the run, `Decide` is `decisions.decide`
over what is stored; percentages are whole numbers.

### 3.15 Reading

A file is a suffix, a size and columns of cells, each cell what its text can be read
as: a date with one reading, one with two, a number with its separators, a word.
`Receive` is `validate_upload`, `Tabulate` `read_tabular` (merged labels, empty rows,
headings, numbers), `Profile` `profile_frame` (`Resolve`, `TextDates`, `Decimal`,
scores, roles, warnings), `Judge` `assess`. What a reader is, is data (`Reading(c, by)`),
so that an alternative layout is tried as the code tries it. `Native` are the columns that polars
reads as numbers by itself, `Years` those that `coerce_numeric` leaves alone, `Given` what
`read_tabular` has before it looks for numbers.

### 3.16 Mapping

`Propose` ranks columns for roles, finds the least keys that keep the rows of a period
apart, and prefers what was accepted for the same or a like fingerprint; `Cover` draws
the canonical frame; `Accept` checks names and remembers. Text values are sequences
of parts, so that joined keys can collide as joined texts can.

### 3.17 Routing, Candidates

Routing holds operators: filling, profile, demand class, season, which models a
history leaves. Candidates is `run_forecast` as `Offer` (build_candidates), `Backtest`
(each candidate built again in each window from that window's profile), `Select`,
`Refit`, `FitRaises`; how well a model does is any choice.

### 3.18 ModelSearch, Backtest, Calendar

ModelSearch: a thread per worker, `Started`/`Finished` in `_InFlight`, `Resolved` and
`Completed` the two orders in which a result is there and is seen, `Select`, `Fit`,
`Predict`, with the fallback to naive; `BuildRaises` and `PredictRaises` end a run where
the engine catches nothing. Backtest: `Cut` finds the cut points latest
first, `Planned` turns them, `Score`/`LoseFold` go through the folds, `Judge` is the
minimum. Calendar: `Record` and `Miss` add periods of the four frequencies from days
at the ends of months.

### 3.19 History, FanOut, Hierarchy, Bands

History: `Aggregate` (rows by period, the unreadable counted), `Assess` (the quality
report), `Build` (calendar, filling, damping, segments, drivers). FanOut: `Validate`
(a route for each series with its findings), `Draw` (the matrix), `Forecast` per series
in any order, `Gather` (parents). Hierarchy: `Aggregate` (pooling), `FitLeaf` in any
order, `Assemble` (`reconcile_tree`, `persist`, `_attach_parents`); amounts are
fractions. Bands: `Build` (interval, best and worst, the calibration), `Simulate` (a
what-if); square roots and powers are any numbers that grow as theirs do.

Where a component shares nothing with the others of its run, the MC module gives it
its own variables and explores one component at a time (`part`), so that the sizes
add and do not multiply.


## 4. The runs

The sizes are of the complete state graph, under the symmetry the configuration
declares; a run that ends in a violation has none. Where a run is of several
components, `part` says which one a behaviour is about.

| run | instance | distinct states | properties |
|---|---|---|---|
| `scheduler` | 2 workers, three chunks of run a and a search of run b; and 1 worker with three callers that come back | 98,534 | SlotAccounting, WorkConserving, ImplementsFairSlots, FewAreServed |
| `run_lifecycle` | every kind of run, two cancels, a delete, a drain, crashes; and a grouped run through a broker, two fan-outs of two chunks, two lost workers | 189,181 | CompletedIsWhole, NoOrphanedRun, FrameTruthful, OnlyCancelOverrules, ProcessRunEnds, QueuedCompletedOnce, QueuedRunEnds |
| `run_cancel_overrules` | one cancel | - | CompletedIsFinal (violated) |
| `progress` | two browsers, queues and channel of two, four stamps | 3,054,927 | NoMissedOutcome, OutcomeIsShown, OutcomeIsLast |
| `live` | circuit: four threads, threshold 3, two ticks, probes; relay: clocks at -2 and 1; streams: four requests of two clients; admission: three callers, two of them remembered | 632,972 | ClaimIsCurrent, AlwaysTriedAgain, LimitsAreKept, OutcomeComesThrough, ScreenNeverGoesBack |
| `breaker_trial` | three threads, threshold 2, no probes | - | OneTrialDecides (violated) |
| `data` | cache: four requests; two datasets and three requests; two insights, writers and browsers; each page asking twice at most; the files of a small deployment, and exports of a business | 303,029 | ComputedOnce, WaitersAreReleased, DatasetsHold, InsightsAreHonest, ReadingIsHonest, MappingIsSound |
| `cache_coalesced` | three requests | - | Coalesced (violated) |
| `submission` | two starts and two retries; the histories of `MCHistories`, two threads of the search | 274,158 | ExecutedOnce, JoinedRuns, SearchIsHonest, FoldsAreHonest, PeriodsAreSound, AdviceAgrees, SeriesAddUp, BandsHold, ChoiceIsSound |
| `retention` | three runs, keep 1, batch 1, an hourly pass and one by hand, one saved scenario at a time; two runs scored twice against four files | 2,478,091 | NewestStay, CardsAreHonest |
| `retention_protections` | one pass, batch 2 | - | ProtectedStay (violated) |
| `people` | three people in three scenes; one mail, two senders | 134,063 | AccessIsKept, AccessIsSeen, OneMailEach, EveryMailEnds |

What they show, and why the bounds are enough to show it:

- **scheduler**: the counts in `_held` are the owners whatever is cancelled where;
  nobody waits beside a free slot; the scheduler is a fair pool of slots. Two slots
  and four pieces are the least with which a run holds both slots, queues a third
  chunk and meets another run, so that the order of arrival and the order of shares
  disagree. Chunks are interchangeable, hence the symmetry. With one slot, callers
  that come back for ever do not overtake one that waits, and a drain ends, also
  after a worker died (FewAreServed).
- **run_lifecycle**: two cancels, because two interact through the row lock and the
  task's cancellation; crashes are unbounded. With a broker, two fan-outs because
  a task delivered again sends its own, and two losses because the second can hit
  the redelivery of the first.
- **progress**: a queue of two fills with two running frames before the outcome
  comes; four stamps are the least with which a worker that was abandoned by a
  cancel still reports after the cancel was announced. `MaxRunning` bounds the stamp
  of the last running frame; terminal frames are not bounded. Browsers are
  interchangeable.
- **live**: three failures from four threads leave one report that is late. A worker's
  clock is behind by more than a report lasts, or ahead. A cancel counts as one of the
  two faults, so that one call or connection besides it, or its own commit, can fail. Three
  streams of one client and one of another meet both ceilings. Of three callers one is
  forgotten when all come.
- **data**: a leader, two that wait on it and one that comes after the leader left:
  with fewer, no second leader replaces the entry of another. Three requests on two
  datasets let one that configures overlap with one that accepts, and a third upload
  recall the result. A file has rows past the sample of four that the conventions are
  chosen from; every column of four dates of the six kinds of cells is tried, with a
  fifth that agrees or does not. Two pages that ask twice in all are enough for one to be told
  that what it holds has not changed.
- **submission**: two of each, for a race inside each kind and between the kinds. A
  search has two threads, so that candidates end in another order than they began.
  Histories have up to sixteen periods, enough for a
  season to repeat and for several windows of a backtest.
- **retention**: two interchangeable passes over three runs that people delete at the
  same time: one that is kept, one that a pass has planned to remove and one that
  changes which is which. Two scorings can overlap, and follow each other; a file is longer or shorter than
  another, restates it, or has no rows for a period between.
- **people**: two administrators who decide about each other; one beside the person
  concerned, whose stream is on another process; and the same with a fault.

DatasetsHold, LimitsAreKept and the like are conjunctions of a component's TypeOK
and its safety properties, named as in its module. Deadlock is not checked where the system may stop, which each
configuration says: every request answered, every browser told, bounds used up.


## 5. Fairness

- *The event loop resumes a coroutine whose await is over*: `WF(Resume(p))` in
  Scheduler, `WF(Step)` and the cancel's steps in RunLifecycle, `WF(Resume(r))` in
  AsyncCache and Submission, `WF(Step(a))` in Access. asyncio's ready queue is first
  in, first out.
- *A fit returns, and a free worker takes the next job*: `WF(Finish(p))`,
  `WF(Pick(p))`, `WF(FinishAbandoned)`. The searches are bounded; the executor's
  queue is first in, first out.
- *The container is restarted and a process that drains stops*: `WF(Recover)` and
  `WF(process = "closing" /\ Stop)`. The deployment files restart the server, and
  `drain` has a time limit. A crash is never required.
- *The broker delivers what it holds, and a task that executes goes on*: `WF(Task(j))`,
  `WF(Dispatch)`, `WF(Collected(k))`, and for the request that sends or cancels
  `WF(Send)`, `WF(Revoke)`, `WF(CancelCommit \/ CancelFails)` in Distributed. Lost
  workers are bounded by `MaxLosses`, as a task that kills every worker never ends.
- *The worker's host, the relay and the browser go on, and a deadline passes*:
  `WF(Talk)`, `WF(Cancelled)`, `WF(Relaying)`, `WF(Watch)`, `WF(Expire)` in Relay; `Browse`, `Fetch`,
  `Close` per watcher in Access. The relay reconnects in a loop without an end, a
  stream has a `Deadline`, an `EventSource` retries.
- *A pass over the outbox comes round, and a wait ends*: `WF(Go(s))`, `WF(Wait(m))` in
  Outbox (`INTERVAL_SECONDS`, `BACKOFF_SECONDS`).
- *Time passes*: `WF(Tick)` in CircuitBreaker.

No request, cancellation, failure, loss, delete, reconnection or report is ever
assumed to come; losses and faults are bounded by constants (`MaxFaults`,
`MaxLosses`, the scenes' `faults`), without which nothing could be promised of a
channel that loses everything. Strong fairness is not used.


## 6. The proofs

Eight modules hold theorems. Most are invariance proofs: an inductive invariant
(`IInv`), a lemma that the initial states satisfy it, a lemma that every step keeps
it with one step per action, and the property as a consequence. Each invariant was
an INVARIANT of a run before it was proved. The assumptions are those on constants
that the modules name (`SchedulerAssumption`, `RunLifecycleAssumption` and so on):
sets are finite where the code has a list, sizes are positive, and nothing else is
taken for granted.

### 6.1 Scheduler (`SchedulerProofs`)

For any runs, any finite set of pieces, any number of slots: TypeCorrectness,
SlotsAccountedFor, NeverIdleBesideAWaiter. SlotAccounting and WorkConserving are not
inductive: the invariant adds that the counts are unrolled (`<<r, i>>` is held
exactly for `1 <= i <= Count`), that arrival is a total order on the waiters, that a
waiter is where an `acquire` can be suspended and its future is pending or
cancelled, and what a pool with abandoned workers holds. The heart is `_promote`: a
waiter means a full pool, so whoever leaves frees exactly one slot, and the loop
takes the dead waiters before the first live one under Precedes and then that one.
The least element exists because Turn is a natural number and arrival is total.

*The refinement* (SchedulerIsAFairPool, with FreedSlotsAreFair on the way). Total
adds up SlotAccounting over the runs. FirstOfRun says that of a run's waiters one
has its turn with exactly the slots the run holds; hence the waiter served, which is
least under Precedes, is of a run that holds no more than any other's, and came
before those that hold as many (ServedIsFair). ReleaseIsFair, AcquireIsFair and
ResumeIsFair carry this through the ways a slot changes hands, Simulation maps each
step to one of `FairSlots` (Take, Queue, GiveUp, Leave, HandOver, CloseAll) or to none.

### 6.2 One run, without a broker and with one (`RunLifecycleProofs`)

For every shape of run and every set of cancel requests: CompletedRunsAreWhole,
ActiveRunsHaveOwners, FramesAgreeWithTheRow, OnlyACancelOverrules, TypeCorrectness.
The invariant has four parts. *Storage*: nobody but the task writes the tables of an
active run, so they hold what its steps so far stored, and completing is the last of
them; it needs that nothing is stored at the start, and PathFacts, what the steps
before each step of a path fill. *Ownership*: in a process that serves requests only a cancel
kills the task of an active run, and the cancel is then bound to end it, or be
refused; that is why NoOrphanedRun needs KilledByCancel. *Frames*: while a run is active
and no cancel holds its lock, the bus holds no outcome but that of a cancel that
could not commit; a process that is down announces nothing. OnlyCancelOverrules is an
action property and follows from the conditional updates: whichever statement of a
step goes through, it leaves an ended row alone (EffectIsSafe).

*With a broker* (CompletedHasEachOnce, the second part): for any number of fan-outs, of
chunks and of workers that die. The theorem is about the composition that TLC runs, in
which Distributed is D; the sizes being numbers is a hypothesis of it (Sizes). CompletedOnce
needs to know what stands in the tables at each step of both paths (TaskHasStored,
CallbackHasStored), what an open transaction will delete when it commits, and that
the two never write at once: the task fans out last, so behind a chord it is over
(OneWriter), unless it came again, which `refanned` records and the property excepts. A
callback that is delivered again behind its own commit has yet to ask whether the
run goes on (CompletedForGood). Five lemmas say what the kinds of steps do (Quiet, GoesOn,
Completes, Committed, LeavesOff); each action is one of them.

### 6.3 The stream of a run (`ProgressBusProofs`)

For any number of browsers, any sizes of the queues and of the channel, any number of
frames: WaitingStreamsHaveTheOutcome, EndedStreamsShowTheOutcome, TheOutcomeIsTheLastWord,
QueuesAreOrdered, TypeCorrectness. The argument is about Around, the frames there are
anywhere: the row, the bus, the channel, the queues, and what streams hold. A step
adds at most one (Growth), whose stamp is new or the one that a cancel reserved for its
row (Fresh), and a browser is only sent one that there is (Sending). The invariant
orders the frames: one that says the run goes on was stamped before each that says
how it ended, unless by a worker that a cancel abandoned (RunningIsEarlier); a browser
that has not been told has yet to see a frame as late as the outcome (OutcomeIsAhead);
as long as the bus has dropped no outcome, whoever asks finds it in the row or on the
bus (OutcomeIsKept); what is queued is not later than the bus (QueuesLag).

### 6.4 Retention (`RetentionProofs`)

For any number of runs and of passes, any number to keep and any batch: NewestRunsStay,
UnfinishedRunsStay, TypeCorrectness. What a plan found of its candidates is old by the
time it removes them, so the invariant is that a candidate stays *spared*: Keep finished
ones are newer than it, less those counted as lost, or it ended under the plan. The
count of the newer ones falls only when one of them is removed. Was that one a
candidate itself, Keep others are newer than it, and they are newer than the run too;
was it not, people removed it and the loss is counted (RemovalSpares). TypeCorrectness includes
that a pass takes on no more than a batch: SelectionFits argues with the newest of
those selected, which exists because inclusion is well-founded on finite sets
(NewestOf).

*Scorecards* (CardsAlwaysHonest): for any runs with finite horizons, any forecasts, files and
figures, and any scorings of them that overlap as they may. Scorings are numbered as they
began, and so are their stamps; one that begins while another is open has met it
(WhoOverlapsMeets). One that met no other of its run finds the row as it loaded it
(LoadedStands), so that writing the columns that differ writes the whole card (FlushedIs),
although each column is written by itself; one that met none at all is later than every
reading there is (AloneIsLatest), and what it does not write anew of what its file has rows for is in force as that says
(AloneCovers). Hence all of it that it was measured against is in force once it has committed, until
a later reading comes (MeasuredInForce), and a later reading is what a superseded
card is told by. Of two readings that follow each other the later says something else
because `record` compared with the last one before its own stamp (NewRevises); that there is a
last one is LastIs, by well-founded induction on the library's theorem for the naturals.

### 6.5 People and mail (`PeopleProofs`)

For any number of people, of requests and of faults (AccessIsOnRecord, an action
property): the last administrator goes only by a refusal, or when the administrators
changed while a request was under way, and who loses access is in the audit of that
commit. A request collects its writes (Fits says what each of its
deeds may have written by the time it has finished) and nobody else changes what it
wrote before it commits, for the rows are locked (Locks). One that takes an
administrator away counted another, whom it leaves (Counted); he may have gone by
then only if a commit of another request took him, which sets `raced`. The identifiers in use
are below `nextId` and no two rows share one (Numbered), so that a row which was
removed and invited again is told from the one that was read.

For any number of messages, senders and attempts (MailIsSentOnce): a message that was not
excused, by a fault or by two passes that had loaded it, is in one pass at most, which loaded it
while it was pending and undelivered; it is delivered once, and then it is recorded as sent
or its sender is about to record it (Single). The attempts that a pass has counted never exceed
those made (Tallied).

### 6.6 What a process holds open (`LiveProofs`)

**Circuit** (any threads, threshold, cooldown). OffOnlyAfterThreshold and
ClaimsAreCurrent are inductive together with the types: a failure in a half-open
circuit opens it whatever the count, and the count is at the threshold already.

**Streams, admission, relay** (LimitsAlwaysKept): for any number of requests, clients and callers,
any ceilings, limits and windows. The two counters of the registry are cardinalities of
the leases there are, per client and over all; a stream waits only on an event that has
its loop, which somebody is making if it has none (Looped). What the window of a caller has
let go of lies a whole window behind, so that its history has no more than the limit in any
window of time, whether the caller was forgotten or not; a caller who waits as told
finds room (Enough). The relay's frames keep their types wherever they are held.

ProgressOnlyGrows, an action property, for any skew of the clocks: of any two running
frames that anything still holds (the row, the store, the bus, the channel, the queue, the
screen) the one with the later stamp is no less far (Agree), as long as the worker's
clock is not behind; and no step but the worker's own makes a running frame, which is
further than any before (Dated); what a cancel holds until it commits is an end (Cancelling). What
is merged or handed over is held already.

### 6.7 What is stored and answered (`DataProofs`)

**Cache** (any number of requests). PendingIsAlwaysLive and ComputedOnceAtATime. The
strengthening: a request has a future only from when it starts to compute, so
the abandoned future of a leader stays; and until one is abandoned, whatever is computed
is what `_pending` holds.

**Datasets** (DatasetsAlwaysHold, any datasets, columns and requests). What each request is about
to do fits its phase (InPhase); a request that has loaded a row finds its dataset begun, and one
that has written its columns finds the row (RowIsThere); nobody else has a hand in a dataset
while it is uploaded, and two do not write one row at a time (RowIsAlone), which is the row lock;
what is about to be written keeps time and target apart, for an upload because it recalls
what was accepted before, unless two configurations crossed (AskedApart). FilesOnTheWay says which
files a dataset has in the middle of an upload and of a delete, and that otherwise it has all
or none; a request that failed half way is what `kept` records.

**Insights** (InsightsAlwaysHonest, any insights, writers and pages). A page is told "not
modified", or given what others computed, on the strength of one number, the newest time
of writing. TokensTell is what makes that sound: the number never falls and grows with
every commit that changes something, unless one is committed behind another that wrote
later; whatever is held under the number of now is of the version of now; and whatever is held
under a number is no older than anybody's asking with it. It needs that the stamps of
transactions that are open differ from each other and from all that are committed
(StampsAreApart), and that nothing held is from the future (HoldersAreOfThePast). That
marks are right needs that whoever writes has seen what is committed, unless two
writers overlapped (SeenIsCommitted): a column is written only when it differs from
what was seen. Versions are counted against the requests that are over (VersionsAreWritten).

### 6.8 Creating runs, the windows of a backtest, the search, the range (`SubmissionProofs`)

For any requests, any of them retries: KeyIsExecutedOnce and LosersAreAnswered. The
strengthening is what the unique index gives (one row, committed or not) and that
what a request has seen of it stays true.

For any history, horizon, season and number of folds, FoldsAlwaysHonest: no window
trains on what it tests, every window ends within the history, and no two test the
same period. The strengthening is that the cut points lie between the least training
length and the end, a whole window apart, latest first, while the loop still looks
below the last of them; and that every window scored so far is that of a cut the loop
over folds has passed.

For any sequence of different kinds, any number of threads, any scores and any failures of the
building, the fit and the forecast (SearchAlwaysHonest): the winner is the same whatever order the threads answer in, what is
returned is what was backtested or says that it fell back, a run whose fit failed and that was
allowed the naive model has a forecast, and the lines told on the way are true.
What `_InFlight` counts are cardinalities of what the threads are at, and as many results are
indexed as threads have been read (Counted), so a model leaves the running ones as it is counted
and none is counted twice. That nobody has a better claim than the winner, and nobody
named earlier an equal one, is SelectedIsBest: the least score is somebody's, and the first of
those who have it is well defined, both by the well-ordering of the naturals. It rests on what is
drawn at the start (Drawn): each kind once, and a score only of what held.

For any errors, steps, forecasts, settings and what-ifs (RangesAlwaysHold): a range is in
order, holds its forecast and does not draw in, the check of it claims no more than the errors
bear out, and a what-if keeps the order. The invariant is nearly BandsHold itself
(RangeInv adds that a what-if is of a range that was built); the weight is in the arithmetic:
- that the k-th error has k at or below it and fewer than k below it (RankIs), so that the two
  ranks of `_conformal_bounds`, clamped as they are at both ends, enclose the share
  asked for, for every number of errors (BoundsHoldTheirShare);
- that the greatest of the least means never falls and is at least any number that all later
  values reach (RisingRises), the running sum behind a mean being
  shown to exist by a least counterexample;
- so that the offsets are to either side of the forecast and grow (Fair), whether errors made
  them or deviations did, and those made of errors keep what a step's own errors ask for where no
  later step asks for less (Wide);
- that `build_intervals` keeps all of that through its clips at nothing (BuiltIsOrdered).
It assumes only what is said of the constants in BandsAssumption: confidence is a share between
none and all, growth is at least one, spreads and the numbers of a what-if are not negative.

### 6.9 What the proofs found in the models

- The invariant of ProgressBus that TLC had accepted was not inductive: nothing in it
  said that a subscriber is in the loop of its stream, nor that a frame that is shown
  has been stamped. Both hold, and are now part of Types.
- `Advance` of RunLifecycle was a CASE whose arms overlapped, which TLA+ leaves open and TLC
  resolves by taking the first. The proof could not choose one. It now says which
  comes first, as the code does; the arms in Access and Routing that overlapped in
  the same way were made disjoint.
- The type invariant of Retention left open where `removing` and `checked` are defined, and
  nothing kept a pass from being called what a person is. Both are now said.
- AdministratorsRemain was false with four requests at a time, and the run has three: a request
  can do its work while there is no administrator at all, the first one comes with the commit of
  another, and the request's own commit takes that one's role away, having counted nobody.
  `raced` was set only where a commit took an administrator; it now also is where one makes
  the first (Upset).
- In Insights a page could ask only when it had never asked before, so that nothing was
  ever answered "not modified". The step for NotModified was suspiciously short. A page
  may now ask again, up to `MaxReads` times in all; the invariants held.
- The requests of Datasets had no type. They have one now (Pending).
- Bands put errors in order with a function by recursion over sets, of which nothing could be
  proved. The k-th error is now the least that has k at or below it, and errors are told apart
  by their step and place; the constants of a range, which were substituted by values, are
  parameters with an assumption.

### 6.10 What is only model-checked

- Every liveness property: AlwaysTriedAgain, JoinedRuns,
  WaitersAreReleased, OutcomeComesThrough, AccessIsSeen, EveryMailEnds, ProcessRunEnds,
  QueuedRunEnds, FewAreServed. The prover has no ENABLED.
- Sums and choices over data, whose functions the library defines by recursion
  (sections 3.15 to 3.19: ReadingIsHonest, MappingIsSound, PeriodsAreSound, AdviceAgrees,
  SeriesAddUp, ChoiceIsSound): what they compute for every
  input is induction over data, which the provers cannot instantiate; their runs
  enumerate inputs instead.
## 7. What the models showed about the code

### 7.1 Disagreements with a document or a test

Four statements of the documents or tests are not what the code does; each has a
run whose counterexample is a sequence of ordinary requests.

- **A cancel overrules a completion** (`run_cancel_overrules`). `cancel_run` decides
  on a status it read before an await, and its update names the row and no
  status, where every other writer's is conditional.
- **A late success closes an open circuit** (`breaker_trial`). `record_success`
  closes it in any state, so a call from before the failures ends the cooldown
  without a trial.
- **A pass removes what is protected by the time it does** (`retention_protections`).
  The protections are read in statements of their own and not again. The
  shortest counterexample is a run that completes between `_most_recent` and the
  select: it is old enough, no longer unfinished and not among the protected,
  so it goes although the dashboard shows it. (A run is old while it is still
  going when `RETENTION_RUN_DAYS` is 0.) A scenario that is saved after the plan
  goes with its run in the same way, at any setting. NewestStay, which holds,
  states what is left of the promise about the newest runs, and has the same gap
  as its one exception.
- **A cancelled leader makes every waiter compute** (`cache_coalesced`). What `_join`
  reports as abandoned is followed by a computation, without a second look.

Others were met while modelling and have no run, because the model contains them as
the exception of a property that holds:

- `test_scoring.py` says that reading a scorecard back gives what computing it gave;
  `stored_scorecard` sums the whole horizon, so for a run that is partly settled it
  does not (`ReadBackAgrees` in Scoring, violated and in no run).
- README says that a value that was present and could not be read counts as missing "and
  is reported as such". Of dates it is; of numbers in a file it only counts as missing:
  `_coerce_formatted_numbers` blanks them, up to a fifth of a column, before `profile_frame`
  counts what is unreadable. `LossIsCounted` says what holds: how much can be lost, that it
  counts, and that dates are told.

### 7.2 Order, failure, concurrency

- **Runs.** A waiter of the cache whose own cancellation arrives with its leader's
  goes on to compute. A retry that finds a run only at its second lookup dispatches
  it again. A new run whose commit was not heard of stays pending until a restart. A
  frame announced after a delete stays on the bus. A broken process pool is never
  replaced, and recovery fails the active runs of every process of the database,
  also of one that is alive (both are in the models, as a pool that stays broken and
  as one process; no property is about them).
- **With a broker.** The run's task delivered again after its fan-out can clear
  results of the first attempt, leave a completed run without insights or with rows
  of two attempts (the exception in CompletedOnce). A request that dies before it
  sends leaves its run pending for ever, as recovery does nothing with a broker; a
  task at its hard limit leaves it running. `mark_failed` swallows the database's
  refusal, so `autoretry_for` never fires. `_chunk_job` carries neither `gap_fill`
  nor `winsorise_sigmas`, so a chunk is not prepared as the total was.
- **Progress.** A worker whose clock is slow lets a screen go back, the exception
  in ScreenNeverGoesBack. A cancel that crosses the end of its run, or whose commit fails,
  has announced a failure already: screens can show for good what the row does not say, or
  one screen what another does not (the exception in OutcomeComesThrough).
- **Streams and limits.** A response whose body is never read keeps its lease.
  Requests turned away because too many are in flight (503) use up the window.
- **People.** Two requests that take the administrator's role from each other's
  witness both succeed, and a refusal (`set_status`) looks for no other
  administrator at all. Approving a rejected administrator again is neither recorded
  nor announced.
- **Mail.** Two processes whose passes overlap send a mail twice.
- **Scores.** Two scorings that overlap leave columns of two files in one card. A
  shorter file leaves the actuals of the longer one behind a card that does not
  count them. A settled period that a file has no rows for is graded as 0 and recorded
  nowhere: what another file said of it stays in force beside that 0, without a revision
  and without `restated_since` (the exception in SupersededIsTold).
- **Datasets.** Configurations that overlap can leave time and target the same
  column, and the memory hands that to the next upload. Accepting a mapping leaves the
  roles of columns behind. A delete removes the files before its commit; a failed
  upload leaves its files.
- **Insights.** Two rewrites that commit in another order than they wrote leave
  `max(updated_at)` where it was, so pages are answered 304 with words that are
  gone; a rewrite beside a reset leaves `llm_rewritten` wrong. `forget_run` precedes
  the commit, and only the validator saves a page from the entry made in between. A
  title is cut to 160 characters after its figures were checked.

### 7.3 From a file to a forecast

- **Reading.** Dates in two layouts, one ISO and one that reads two ways, are read
  day first without a word, also when nothing in the sample says so (the exception in
  OrderIsTold). Periods across the top are each ordered on their own. A
  column of thousands by commas with one decimal comma, at four fifths and more of
  three digits, is read by the wrong mark. Two headings that are equal once cleaned
  raise outside the handling of a refusal. A sparse column of texts in a workbook is
  carried down like a merged label.
- **Mapping.** A proposal for a table whose headings were found in its first rows is
  refused by `accept` as naming unknown columns. Accepting without an aggregation
  stores that of the column the platform would have taken as target, so that the
  question about it is never asked again, and where it had taken none, none is
  stored: the mapping of rows that share a period is then asked about at each upload,
  although the route says that the next one "is mapped without asking". A file like a
  remembered one that lacks its keys is drawn with rows combined, with a warning only.
  Of two columns with one name in lower case the exact recall takes the last. Values
  that contain the text that joins keys can merge two series. "Last" is any row of a
  period in `canonical.py` and that of the latest day in `queries.py`. A date column
  of integers becomes days of 1970.
- **History.** A pooled segment is not reported in a period in which one of its
  members is not, and its sparkline zips windows of different periods. Outliers are
  told by jumps and damped by level. Each window of a backtest chooses its fill anew.
  `low_coverage` and `no_usable_rows` are never told.
- **Choice.** A caller who names models without naive ends, for a short history, in
  "Unknown candidate kind", and for a search that comes to nothing in a failed run
  instead of the fallback. A series that is mostly negative is routed as one without
  demand. Seasonal naive with no period fits by lag 1 and forecasts by the default
  season. A history that repeats perfectly has scale 0 and no headline score. A leaf
  whose winner does not suit the whole is blocked although naive would do. Two of
  the reasons a run can be given are unreachable.
- **Search.** A winner that raises as it is built or when it is asked for its forecast, outside
  the `try` around its fit, ends the run, although the naive model would do. After the fallback to naive the backtest that is returned is still that
  of the model that failed. Candidates that each lost half of their folds are
  compared on folds they do not share.
- **FanOut.** A series without demand always fails its fit. Holes in a calendar are
  fitted as if periods adjoined. Parents sum the children that were forecast, and
  ragged ends sum other sets in other periods. `duplicate_timestamps` is unreachable,
  and `run_fanout` has no caller but the tests.
- **Grouped runs.** Rows are looked up by label, so a series called "Total", or
  "Others" beside the pool, shares its actuals, its fit and its points with another
  node; a parent that is found at the same level has no identifier yet. Series of
  mixed signs can have a band upside down.
- **Bands.** A forecast below zero of a series that never was lies outside its own
  band. The check of the intervals skips every step whose lower bound was cut at
  zero, and also those that were not. Averaging to a monotone width can narrow a
  step's own.
- **Advice.** An accuracy of 75 to 79 is "below target, directional" in an insight
  and plannable in the decision. `point.lower or point.forecast` takes a bound of 0
  for none. `_prior_year_actual_total` raises for a history that ends on 29 February.
  A card of the dashboard compares a filtered total with an unfiltered one.
  `horizon_accuracy` numbers only the periods that were scored and adds up points of
  the total and of series.


## 8. What is not modelled, and why

- **The numbers of a forecast**: models, transforms, driver panels, the search for a
  trend's drift and the statistics of a history run on floating point over numerical
  libraries. The models leave open how well a model does, and check what is made of
  it. In the state machines of runs a result table either holds rows of the run or
  does not.
- **Connectors**: requests to outside stores with one row of state each; what they
  bring becomes a dataset, from which point it is modelled. `create_from_frame` is
  left out. **Reports and exports**: rendering of what is stored. **Dashboard
  figures**, `accuracy_service`, monitoring, listings: reads. **Storage,
  configuration**: thin wrappers. **The frontend**: only the streams it opens and
  what its screens hold.
- **Submission**: a run that is deleted while its key is looked up. **AsyncCache**: keys
  other than the one, which never meet, and the size limit, which appears as `Drop`;
  `peek` and `clear` serve no request. **CircuitBreaker**: `call` and `reset`, which only
  tests use.
- **Distributed**: a delete meanwhile, row locks, which only delay, and the internals of
  the chord's counter. **Relay**: the counter of series that are done.
- **Streams**: how the handlers are installed. **Admission**: who a caller is
  (`client_identity`). **Access**: the verification of a token; a person is who they say,
  with a confirmed address.
- **Scoring**: the scores of single series and `choose_source`. **Datasets**: the foreign
  key `accepted_from_dataset_id` and its lock against a delete.
- **Reading**: sniffing of encodings and delimiters, fiscal years and coded periods,
  signs and percent, `_mixed_measures`, the preview, and the dates that polars itself
  reads in a text file. **Mapping**: ignored columns, medians, `MAX_COVARIATES`, how
  headings are found in the first rows, the means of covariates; the score of a
  column is an input.
- **Routing, Candidates**: the statistics (a season is told by a repetition), winsorising
  in windows, `Ensemble.predict`, `evaluate_plan`, windows in which a model fails for a
  reason of its own. **FanOut**: shifts of level, the figures of a fit. **History**: filters
  by date, median, minimum and maximum, prior totals, sparklines, the candidate drivers.
  **Bands**: values that are not finite, the loss of precision, pooled coverage, and
  saving, listing and comparing scenarios.
- **Insights**: the wording, the prompt, token counts, costs and the reasons of refusals
  in usage records.
- **Isolation**: transactions are serial except where a handler's reads and writes
  are in different transactions or a lock is visible, as PostgreSQL's READ
  COMMITTED and SQLite's single writer give for the single-row statements here.
