# MLCache in TLA+

MLCache is a semantic cache in front of an LLM. A request is embedded, its
nearest neighbours are retrieved, a scorer rates each of them and a threshold
decides whether a stored answer is served. In the background a judge labels what
was retrieved, and the oracle retrains its scorer and recalibrates its threshold
while it goes on serving. Several threads use one cache at a time, some stores
outlive the process, and hardly any lock covers more than one component: that is
what the modules here are about. The experiments that come with the cache, which
replay a stream through it and report rates, are modelled too, because their
accounts of what was served are where its guarantees are measured.

Paths below are relative to the repository; the package is `src/mlcache/`.

## 1. The system

| Component | State | Operations | What must hold |
|---|---|---|---|
| Trainable oracle (`oracle/trainable.py`) | active scorer, threshold, version, "hits disabled"; counters since the last fit and calibration; monitor counts; fit and recalibration thread handles | `decide`, `fit`, `fit_async`, the two workers, `_maybe_auto_refit` | what a gate rejected never serves, only what was given or passed one; a fit swaps scorer and threshold together; counters stay consistent whatever order feedback and swaps come in |
| Refit policy (`policies/refit.py`, `calibration/wilson.py`) | none | `decide(context)` | never raises on the counters the oracle hands it |
| `SemanticCacheSystem` (`system.py`) | frozen flag, version of the scorer it saw last, hit counts | `handle`, `run`, `policy`, `freeze`, stopping check | the gates it sizes can be met; it freezes on a converged policy |
| Shadow collection (`feedback/shadow_collector.py`) | split counters, totals | `collect` | a label that is reported was counted; the calibration share is the configured one |
| Training stores (`feedback/store.py`) | bounded train and calibration buckets per label, keys of each split | `add_train`, `add_calibration`, reads | splits disjoint, buckets bounded, keys in step with buckets |
| Cache gateway (`cache/gateway.py`, `cache/eviction.py`) | response store, vector store, eviction bookkeeping | `lookup_with_decision`, `put`, `invalidate`, `_enforce_capacity` | capacity is bounded; what can be found can be evicted; calls return |
| Local stores (`cache/file_store.py`, `retrieval/in_memory.py`, `retrieval/file_store.py`, `calibration/threshold_store.py`, `calibration/query_record_store.py`) | dictionaries, a matrix of vectors, JSON files | get/set/delete, upsert/delete/search, persist | a key is found with its own vector; a file is a complete image; what returned survives |
| SQL repositories (`persistence/sqlite.py`, `postgres.py`, `mysql.py`) | entry rows with a status, payloads, outbox events; query events, candidates, calibration records; thresholds, snapshots; judged pairs | one transaction per method | row, payload and event are written together; concurrent calls act one after the other, or say so |
| FAISS store and indexer (`retrieval/faiss_store.py`) | index, local key/id maps, index file | `add_with_id`, `delete`, `search`, snapshots, `process_once` | a waiting row has an event that will index it; what the index has wrong, an event tells; the dead stay dead |
| Query-level serving (`runtime/runtime.py`, `policies/query_level.py`, `calibration/query_level.py`), under the wrapper (`llm_wrapper.py`) | query records, a second threshold | a decision per query instead of per pair | a response is served under its own key; what was invalidated does not come back |
| Online stopping (`online/stopping.py`) | window of observations, stable checks | `observe` | stops only on a stable window within the target |
| Adaptive threshold (`adaptive/`), Neyman-Pearson threshold (`scorers/utils.py`) | the controlled target, a buffer of audited scores | `update`, `should_audit`, `scores_to_threshold` | accepts within the budget, with ties; false hits are paid for |
| Online replay (`experiments/online_replay_h1h0_final.py`) | recorder, judgements on file, audit, checkpoints | warm-up and measured replay, anchor diagnostic | its accounts of the hits agree; the active session counts active decisions only (cosine's does) |
| Comparison (`scripts/compare_cosine_vs_ensemble.py`) | lifecycle tracker, first-hit marks | replay of two systems, winner | its two accounts of the lifecycle agree |
| Replay array (`submit_replay_array.py`) | scripts, `_COMPLETE` files, checkpoints, server | submit, run, resume, aggregate | complete means finished; every task completes; a row is its own list's (where no two lists share a directory) |
| Wiring, API, CLI, providers, embeddings, scorers, features, adapters, other experiments | – | construction, I/O, numerics | – |

How they interact. `SemanticCacheSystem.handle` calls the runtime, the runtime
its gateway, the gateway the oracle; the oracle searches the vector store, asks
the threshold provider, calls the collector, which calls the judge and the
training store; a decision of the refit policy starts a thread that reads the
training store and swaps the oracle's policy. With query-level serving the
runtime decides once more, on the stored record of the query, and takes the
response past the oracle. With the durable cache the gateway writes to the
database only; the indexer, called in a loop by a script, carries entries over to
FAISS. All of this happens in the caller's thread but for fits and large
recalibrations; the API server calls the cache from many threads.

What is hard here:

* *Interleaving.* The oracle's lock covers single reads and swaps, not a
  request; the gateway, the local stores and the training store have no lock.
  The SQL methods are transactions of several statements on engines with three
  ideas of isolation.
* *Stale state.* A threshold is read from a provider after the lock is released;
  a recalibration works with the scorer it read at its start; the indexer reads
  a row, adds its vector and marks the row in three steps; a query record names a
  candidate that may be gone; a report reads the policy after the decision.
* *Ordering.* Two activations may reach the provider in the other order; outbox
  events are applied against the latest row, not the row they were written for.
* *Crash and restart.* The eviction policy and FAISS's local maps live in
  memory, the responses, rows and vectors in files; a job of the array may die
  between any two commands.
* *Partial failure.* A gate that fails, a judge, store or provider that raises,
  a transaction that aborts in the middle of a pass.
* *Liveness.* A waiting row must be indexed, the eviction loop must end, a sweep must
  complete.

`PROJECT.json` lists the hazards with the line of each and the properties that
would see it go wrong.

## 2. Modules

| Module | Models | Built on | Run |
|---|---|---|---|
| `RefitPolicy` | `ConservativeRefitPolicy` | – | `oracle` |
| `OracleLifecycle` | the oracle, its threads, `policy` and `freeze` | `RefitPolicy` | `oracle`, and the finding `oracle_stale_recalibration` |
| `PairDecision` | one request as functions of what it retrieved: scorer, override, judged ranks, monitor | – | `training` (assumptions) |
| `TrainingData` | collector and split store | – | `training` |
| `CacheGateway` | gateway, eviction, two stores | – | `gateway` |
| `FileStores` | the JSON files of the local runtime and their crashes | – | `file_stores` |
| `FaissOutbox` | SQL entries, gateway, FAISS, indexer | – | `outbox` |
| `EntryTable` | what the SQL entry methods promise (abstract) | – | `sql_entries` |
| `SqlEntries` | the entry methods, statement by statement | `EntryTable` (refined) | `sql_entries` |
| `SqlAudit` | query events, records, thresholds, snapshots, statement by statement | – | `sql_audit` |
| `SqlReads` | the SELECTs, as functions of the tables | – | `sql_audit` (assumptions) |
| `QueryServing` | wrapper, runtime, gateway and query-level policy | – | `serving` |
| `AdaptiveThreshold` | controller, audit policy, replay, thresholds from scores | – | `adaptive` |
| `ActivationGate` | minimum counts, splits and gates before a first threshold | `AdaptiveThreshold` | `adaptive` (assumptions) |
| `ReplayTables` | order and split of the replayed tables | `AdaptiveThreshold` | `adaptive` (assumptions) |
| `Stopping` | the stopping controller | – | `measured` |
| `MeasuredReplay` | `handle` and the measured replay, with learning threads | `Stopping` | `measured` |
| `AnchorReplay` | the retrieved-anchor diagnostic | `MeasuredReplay` | `measured` |
| `OnlineComparison` | the comparison script | `AnchorReplay` | `measured` |
| `ReplayStreams` | the streams, the verdict, the diagnosis of false positives | `OnlineComparison` | `measured` (assumptions) |
| `ReplayArray` | submitter, job scripts, server, aggregation | – | `replay_array` |

`OracleLifecycle_proofs`, `TrainingData_proofs`, `FaissOutbox_proofs`,
`CacheGateway_proofs`, `QueryServing_proofs`, `SqlEntries_proofs`,
`FileStores_proofs` and `OnlineComparison_proofs` hold the theorems, each about the
module it is named after. Three are about a neighbour too, in their last part:
`OracleLifecycle_proofs` about `AdaptiveThreshold`, `FaissOutbox_proofs` about
`SqlAudit`, and `OnlineComparison_proofs`, besides the modules that
`OnlineComparison` extends, about `ReplayArray`, which runs such replays. Each `MC...` module gives its components a small instance,
and states about pure operators, as named `ASSUME`s that TLC evaluates before the
run, what holds of them over bounded inputs.

### OracleLifecycle

Control state of a request is `req[r].at`, one value per place where another
thread can get in: `idle`, `snapped` (policy read under the lock), `scored`,
`collected` (labels obtained), `recorded` (counters updated), `rows` (training
store read), `planned` (refit decided), `executed`, `policy`, `done`. A fit or
recalibration is `job[r]`, named by the request that started it: `created` (the
thread object exists), `running`, `scored` (the scorer to calibrate is read),
`publishing` (swapped, provider not yet told).

| Code | Action |
|---|---|
| `_snapshot_runtime_state`, the locked part | `Snapshot` |
| the provider read and `_score_request_with_snapshot` | `ScoreRequest` |
| `collector.collect` | `CollectFeedback` |
| `_record_shadow_collection_for_monitoring` | `RecordFeedback` |
| `_maybe_auto_refit`: rows, context, decision | `ReadRefitRows`, `DecideRefit` |
| `_execute_refit_decision` | `ExecuteNoop`, `ExecuteRecalibrate`, `ExecuteRefit` |
| `fit_async`, `fit` | `CallFit` / `StartFit`, `StartThread` |
| `_fit_in_current_thread` | `ActivateFit`, `RejectFit`, `JobRaises` |
| `_recalibrate_threshold_from_rows` | `ReadScorer`, `ActivateRecalibration`, `RejectRecalibration`, `JobRaises` |
| `threshold_provider.set_threshold` | `PublishThreshold` |
| `SemanticCacheSystem.policy`, `.freeze` | `ReadPolicyScorer`, `ReadPolicyThreshold`, `Freeze` |
| `MLCache.set_threshold` | `SetThreshold`, then `PublishThreshold` |

A threshold may come from outside, past every gate: from a preset or the
constructor, or from the records a `FileThresholdProvider` kept of an earlier
process, both in `Init` (`Givens`), or from a caller meanwhile (`SetThreshold`);
`GivenBy` says which of the three an instance has. The SQL stores also bring back
the pairs judged before (`StoredPairs`).

Abstractions: a scorer is the request whose fit trained it; a threshold is the
scorer that calibrated it and the job that computed it; scores, labels and the
outcome of the activation gate are nondeterministic, so every outcome of the
arithmetic is covered. Rates are pairs of counts and the Wilson bound is
compared in integers (`WilsonAbove`), so the refit policy is not abstracted at
all apart from its wall-clock limits, which the oracle never feeds. What is left
open here is computed elsewhere: a candidate's decision and the labels in
`PairDecision`, the gate in `ActivationGate`.

### FaissOutbox

`row` and `outbox` are the database, `vectors` and `local` the FAISS store,
`file` the index file, `indexer` the local variables of `process_once`, `client`
those of one gateway call. A step is one SQL transaction or one hold of the
FAISS lock; `SqlEntries` justifies taking a transaction for a step. Contents are
named by the event that wrote them, so that a vector and a row can be compared.

| Code | Action |
|---|---|
| `insert_pending_entry` (`put`) | `Put` |
| `tombstone_entry`, then `oracle.remove` (`invalidate`) | `InvalidateRow`, `InvalidateVector` |
| lookup: search, `fetch_active_results_by_faiss_ids`, `get_payload`, clean-up | `SearchVectors`, `ResolveRow`, `GetPayload`, `RemoveMissing` |
| `process_once` | `ReadBatch`, `ReadEntry`, `IndexEntry`, `IndexEntryRaises`, `MarkEntry`, `RemoveEntry`, `FinishEvent` |
| `save_snapshot`, `load_snapshot` in a new process | `SaveSnapshot`, `Restart` |
| an exception out of a transaction | `IndexerRaises` |

### EntryTable and SqlEntries

`EntryTable` is the abstract specification of the entry methods: each happens at
once, with a new event for every row it changed. `SqlEntries` has each method as
the sequence of statements it sends on each engine, and a commit; locks are
`lock` (rows, or SQLite's one write lock) and `gap` (MySQL). A session keeps its
uncommitted writes, and the tables change at its commit. A constraint that is
raised, a lost lock on SQLite, a deadlock victim and a lost connection roll back.
`ImplementsEntryTable` is the refinement: the tables are the same, the sessions
are hidden; it is checked by the run and proved in section 4. On PostgreSQL alone `EntryTable` has to let an invalidation that
found no row take its event number early and commit late.

### SqlAudit and SqlReads

`SqlAudit` treats the rest of the repositories' writes in the same way: query
events and calibration records, which share their tables, and the versioned rows
of thresholds and snapshots. MySQL's gap locks, which two transactions may hold
together and neither may insert into, give deadlocks; `Deadlocked` and `Victim`
model their resolution; that the server finds its deadlocks is taken for granted.
A snapshot that is inserted with `active=False` deactivates nothing. `SqlReads` has the SELECTs, which need no steps: for
each method and engine, the rows it returns of given tables at given moments.

### CacheGateway

`kv`, `vectors` and `tracked` are the keys the three stores know; `meta` is what
the eviction policy keeps of each; `thread` holds the call each thread is in.
A step is one call of a store or of the policy, because nothing locks two of
them together. `log` is a history variable: it lets the victim be stated in
terms of what happened to the entries and not of the counters kept of them.

### QueryServing

One request from `CachedLLM.generate` to the stores and back, in shadow and in
active mode. `Ask` and the actions after it follow the gateway;
`EvaluateShadow` and `EvaluateActive` are the second decision, `MissingRecord`,
`NotAccepted` and `ResponseMissing` its configured fallbacks; `GetSelected` takes
the response past the vector store; the rest generates and puts. A
response is the number of the generation it came from, so that one served under
another's key, or after its key was invalidated, is seen.

### TrainingData and PairDecision

`seen` and `calib` are the collector's counters, `bucket`, `keys` and `counts`
the store: the examples of each split and label, the list of their keys, and the
`Counter` of each split. `thread` holds the call of `collect` each thread is in.
The counters are locked, so the choice of a split is one step; the store is not,
so each of its statements is one.

| Code | Action |
|---|---|
| `collect`: start, one candidate and what the judge says, end | `CallCollect`, `JudgeCandidate`, `FinishCollect`, `TakeResult` |
| `_next_split` | `NextSplit` |
| `add_train`, `add_calibration`: the key check | `Admit` |
| `_add_to_bucket` | `CheckRoom`, `PopExample`, `PopKey`, `UncountKey`, `AppendExample`, `AppendKey`, `CountKey` |

The key of an example is its query, candidate, features and label; the first
three are one model value, a pair. Two threads may increment a `Counter` at once
and lose one: the model is kinder there and takes `+= 1` for atomic.

`PairDecision` computes what `JudgeCandidate` and `OracleLifecycle` leave open:
which candidate is served, which ranks the collector judges, what a judge that
may override does to the decision, and what the monitor is told of it.

### FileStores

`memory` is what the process has, `files` the targets and their temporary files,
`writers` the calls under way, as the sequence of changes each still has to make
and to persist. A call changes memory, writes the temporary file, renames it, and
goes on with its next store. `Crash` loses memory and may tear the file that is
being written; `Start` reads the files, cuts the bounded one to the limit of the
new process, and writes a configured threshold.

### AdaptiveThreshold, ActivationGate, ReplayTables

One step is one query of an offline replay: decided by the threshold of the
moment, audited or not, and fed to the controller. Scores are integers, `alpha`
and the rates are integers out of `Unit`. `ActivationGate` follows a parameter of
`SemanticCacheSystem` or the replay to the counts of a policy, the collector's
splits to the buckets, and the gate to its verdict. `ReplayTables` has the three
orders of a stream, the prefix that calibrates and the comparison of two tables.

### MeasuredReplay and what extends it

`request` is the one under way, `at` its place (`next`, `judge`, `handled`,
`check`), `learning` the jobs that may activate meanwhile, `recorder` the metrics
recorder, `session` the active session (`Timed` says whether the scorer is
wrapped, which makes the ensemble active from the start), `audit` the audited hits, `verdicts` the
judgements on file, `stopping` the controller. `AnchorReplay` adds the probe
before a decision and the record after it; `OnlineComparison` the tracker and the
marks; each leaves the module below it unchanged where its option is off, so one
run checks all of them. `ReplayStreams` has the builders of the streams: the set
of streams a builder may give for any seed.

### ReplayArray

`disk` is one directory per task with its checkpoints, summary, judgements and
`_COMPLETE`; `worker` the job on each GPU and its place in its script; `server`
the shared server of a machine. Every step may be the last of its job. A directory
is named by the first scorer of a list, so that lists may share one (`Sharers`); two
jobs that write into it do so one after the other, as each write is one step. `sweep`
is what `--scorers-list` gave, the same at every submission.

## 3. What is checked

Every property has, in `PROJECT.json`, a plausible slip in the mapped code under
which its run finds it violated.

| Run | Instance | Shows |
|---|---|---|
| `oracle` | 2 requests, each a `decide` or a user's `fit`; thresholds given by preset, provider and caller; a store that may hold pairs; minimum counts of 1 | `MonitorWithinCounts`, `PairsFromOneFit`; `RejectedNeverServes`: nothing serves but what was given or passed a gate |
| `outbox` | 2 keys, one of them a UUID; 1 client; 3 writes; 1 crash or exception; batches of 2 | `PendingRowHasEvent`: a waiting row has an event that will index it; `TombstonedVectorHasEvent`, `StaleVectorHasEvent`: a vector that should be gone, or is of an earlier put, has an event that tells; `PendingEventuallyIndexed`: a waiting row is indexed unless a batch of events is passed over for ever |
| `gateway` | 2 keys, 2 threads, 4 calls, capacity 1, all three policies, 1 restart | `TrackedWithinCapacity` but for puts under way; `SearchableTracked`; `VictimByHistory`: the victim is the documented one; `CallsReturn` |
| `training` | 1 thread, 2 pairs, 2 labels, buckets of 2, 5 calls of up to 2 candidates, a fraction and a modulus | `SplitsDisjoint` through evictions, `ServedLabelCounted` |
| `file_stores` | 3 keys, 2 embeddings, 2 namespaces, record limits 1 and 2; 4 calls, 1 crash | `ReturnedSurvives`, `IndexedHasResponse`, `SearchIsNearest`, `RecordsAreLatest` |
| `sql_entries` | 2 sessions, 2 keys, 3 calls, 1 fault, 3 engines | `ImplementsEntryTable`: no hit and no write is lost; `LastEventTellsRow` |
| `sql_audit` | 2 sessions, 2 queries, 3 calls, 3 engines, 3 families of methods | `CandidatesAreTheQuerys`, `CurrentIsNotReplaced` |
| `serving` | 2 threads, 2 keys, capacity 1, 2 records, 3 calls, 1 exception; shadow and active mode | `ServedUnderItsKey`, `PolicyHasLastWord`, `InvalidatedIsNotServed` |
| `adaptive` | calibration prefixes of up to 2 scores, 4 queries; fixed threshold and four controllers | `ThresholdsAgree`, `FalseHitsPaidFor`, `ControlSliceAgrees` |
| `measured` | seven replays of up to 4 requests over 5 rows: ensemble and cosine, plain, with the diagnostic and compared; 2 policy versions | `AuditAgrees`, `FrozenMeansConverged`, `CosineSessionIsActive`, `DiagnosticsAgree`, `AttributionByHistory`, `LifecycleAgrees`, `ReplayEndsAtHit` |
| `replay_array` | 2 scorer lists, each with a directory of its own or both in one; 2 GPUs on one machine, 2 deaths, 1 forced submission | `CompleteMeansFinished`; `TableIsWhole`: a row is of a list of its directory, and its own where the list is alone; `PairsPaidOnce`, `EveryTaskCompletes` |

One run refutes what the repository says of itself, and is a finding:
`oracle_stale_recalibration`. A recalibration scores with the scorer of its start
and activates its threshold after a fit has replaced that scorer
(`LivePairSameGeneration`), where `README.md:384-385` says that scorer and
threshold are activated as a single versioned unit.

Five more statements of documents are definitions that no run checks, because
the code breaks them. Added to the `.cfg` named, TLC refutes each one:

| Definition, instance | What is said, and what the code does |
|---|---|
| `ColdStartAbstains`, `MCOracleLifecycle.cfg` | `README.md:386-388`: the oracle abstains until a calibrated policy exists. A provider that kept its thresholds over a restart (`calibration/threshold_store.py:82-93`) lets the first requests of the new process be served before anything is calibrated. It bites with cosine; an unfitted scorer of the other kinds raises, and the request is a miss. |
| `PolicyFromOneFit`, `MCOracleLifecycle.cfg` | `README.md:392-394` and `system.py:350-351`: the scorer and the threshold of `system.policy` are of one generation. It reads the one and then the other (`system.py:359`, `367`), and a fit may activate in between. |
| `ActiveRowHasVector`, `MCFaissOutbox.cfg` | `README.md:81-83`: the indexer adds the vector and marks the row ACTIVE. Put, invalidate and put of one key before a pass leave an ACTIVE row without a vector, and an event that no pass will process (`retrieval/faiss_store.py:228-230`). |
| `ActiveSessionIsActive`, `MCMeasuredReplay.cfg` | `scripts/compare_cosine_vs_ensemble.py:358-360`: the active session excludes the cold start. The `TimingScorer` that wraps the ensemble's scorer (`experiments/online_replay_h1h0_final.py:985`) is not the cold scorer the system compares with (`system.py:379-382`), so the session starts with the first request and counts what a cold system rejects; for the same reason the forced fit after the warm-up does not take place. |
| `RowsAreTheirOwn`, `MCReplayArray.cfg` | `submit_replay_array.py:639-640`: `--scorers-list` may be given several times. Two lists that begin with the same scorer write into one directory (`submit_replay_array.py:177-179`), and the table gives one of them the results of the other. |

Pure operators are checked by assumptions, in the runs whose modules state them:

* `training`: the best passing candidate is served and the judge alone decides
  when it may override (`BestIsServed`, `JudgeDecidesAlone`); the monitor learns
  the same from both ways of collecting (`ModesMonitorAlike`); an override hides
  false accepts from it (`OverrideHidesFalseAccepts`); no candidate is judged
  twice in a request (`CandidatesJudgedOnce`).
* `sql_audit`: expired, pending and tombstoned entries are not read
  (`ExpiredIsNotRead`, `IndexableIsNotServed`), results keep the order of the
  search (`ResultsAreSearched`), two polls share the outbox, records are the
  latest and pairs are read once, and the engines give the same answers
  (`EnginesAgree`) except where `RanksDiffer` says how they do not.
* `adaptive`: a first fit finds its gates met, to within the tolerance of the
  splits; below a batch size of 20 it never does; the minimum count is the
  tightest the Wilson bound allows; a threshold that passes its gate accepts
  within the target; orders keep the rows, and disagreement of two tables is a
  matter of rank.
* `measured`: streams are fair and the warm-up is disjoint, the winner does not
  depend on the order of the two, and the two verdicts agree; the diagnosis
  reports hits below the threshold only after a rise of it.

### Bounds, and why they are enough

* Requests in `oracle`: a fit needs one request, a race of two fits or of a fit
  with a recalibration of a given threshold two; the pairs and thresholds that the
  instance starts with stand for what earlier requests left. In
  `oracle_stale_recalibration`, which starts with nothing, it takes a third. The
  configuration has minimum counts of 1, so each branch of the policy that so many
  requests can reach is reached. The Wilson
  bound with so few pairs is above every target that permits false accepts; the
  branches behind it are reached in windows without H0 pairs. Proofs take over
  for any number of requests.
* Writes in `outbox`: the longest pattern that matters is put, invalidate, put of
  one key; the second key lets events of another entry come in between. Two events
  that are passed over for ever fill a batch, which three writes can bring about. The
  proofs take over for any number of keys, clients, writes and faults.
* `gateway` and `serving`: two keys at a capacity of one make every second put
  evict; two threads with two calls each meet in every pair of calls. In `serving`
  a third call can come after two that raced, which is when an old record bites.
* `training`: a bucket of two can hold an example twice, which is what counting
  keys is for; five calls fill buckets, evict from them and bring pairs back that
  were evicted. The run has one thread, since with two `SplitsDisjoint` is false; the
  proofs take over for every capacity and number of calls, and `ShareStaysKept` for
  any number of threads.
* `file_stores`: with three keys a delete can move a row that another delete has
  moved; two limits make a restart cut a store that was larger. The proofs take
  over for any number of them, of calls and of crashes.
* `sql_entries`, `sql_audit`: locks and gaps are held by two transactions at a
  time; a third call follows the two and sees what they left. One fault is a
  retry's worth.
* `adaptive`: a buffer of three over at most two calibration scores and four
  queries overflows, ties, and lets `alpha` reach both of its ends.
* `measured`: two versions are a policy before and after; a stream that repeats a
  row has pairs judged before; a window of two with a patience of two overlaps. The
  proofs take over for any streams, windows, patience and interval of checks, and
  any number of versions.
* `replay_array`: two jobs on one machine share a server, and the second of two
  deaths may hit what the first left behind. Two lists are the least that
  can share a directory, and each of the two sweeps that are explored is complete
  with them; a single seed is run, and the proofs of the safety properties take over
  for any, and for any lists.

### Fairness

`outbox` assumes weak fairness of the indexer's steps: the code never schedules
`process_once` by itself, `scripts/run_full_system_sqlite_faiss.py:172,196`
call it in turn, and a pass that does not raise runs to its end. Clients are not
fair: no put or invalidation has to happen. `gateway` assumes that a thread
inside a call keeps running, and nothing of threads outside one.
`replay_array` assumes that SLURM starts what waits and the jobs run, that the
array ends, and that the submitter is run again, which is what its resume
support is for; deaths are bounded, and nothing is assumed of forced runs. The
other specifications state no fairness.

## 4. What is proved

`OracleLifecycle_proofs`, for any set of requests, any configuration and any set
of feedbacks:

* `TypeCorrect`. Step lemmas per action group (`RequestStepType`,
  `JobStepType`).
* `WindowsStayNested`. Inductive with the type invariant: each of the four
  actions that touch the counters changes the three windows alike or resets an
  inner one no later than an outer one.
* `MonitorStaysWithinCounts`, under the assumption `ServedLabelCounted` (the
  judged label of the served candidate is one of the pairs counted, which the
  collector guarantees unless the store raises). Not inductive alone: the
  feedback a request carries has to come from `Feedbacks`, which
  `FeedbackCollected` adds.
* `VersionsCountActivations`. Needs `ActivationInv`: `activated` is finite, a
  job starts at most once (`JobsStarted`), and whoever has activated is spent and
  will not activate again; otherwise a second activation by the same job would
  raise the version and not the set.
* `PairsStayFromOneFit`. Needs `ScorersInv`: every scorer in use is the cold one
  or that of a fit that is over, so a recalibration under way never holds a
  scorer of its own name, and only a fit makes a threshold named twice alike.
* `RejectedNeverServe`, wherever thresholds are given from. Needs `PublishesServable`:
  what a job or a caller has still to hand to the provider was activated or given.

and of `AdaptiveThreshold`, for any scores, window, buffer and bounds of alpha, any
step sizes in the ratio of the target, and streams of any length:

* `AdaptiveTypeCorrect`.
* `LineDrawnOnce`: the threshold that `select_threshold` takes from the H0 scores
  has at most the allowed share of them at or above it, and accepts those that
  `scores_to_threshold` accepts. By counting: `KthLargestIs` says what the sorted
  scores have at a position, `ThresholdsMeet` that the least score within the rate
  is the next one above it.
* `ExcessIsTaken`, inductive with the types: `AlphaMoved` bounds what one update may
  raise alpha by, `PaidStep` adds it to the account.
* `SliceLearnedAlone`, from `SliceInv`: the newest scores of the buffer are those
  that were learned, as many as the metrics have seen of the control slice or the
  whole buffer (`NewestLearned`), and the window is filled from the same ones.

`TrainingData_proofs`, for any pairs, capacities, split rules and number of calls:

* `TypeCorrect` and `ShareStaysKept`, for any number of threads. The share is an
  invariant of the locked counters; its arithmetic is in `FractionStep` and
  `EveryStep`.
* `BucketsStayBounded`, `KeysStayInStep`, `SplitsStayDisjoint` and
  `ServedLabelsCount`, for a store that one thread uses; with two threads
  `SplitsDisjoint` is false. They rest on `StoreInv`: `Places` says how far buckets
  and keys are apart inside an insertion, `Counting` how far keys and their counts
  are (`OccurrencesAppend` and `OccurrencesTail` relate a sequence before and
  after), `Apart` that no example is counted in both splits and that one let in is
  in no count of the other, `Reported` that the pair of a label is added or on its
  way. None of the four properties is inductive without them: an example is in a
  bucket before it is counted and is counted until after it is evicted.

`FaissOutbox_proofs`, for any keys, clients, batch size and number of writes,
crashes and exceptions:

* `TypeCorrect`.
* `PendingRowsHaveEvents`, `TombstonedVectorsHaveEvents` and
  `StaleVectorsHaveEvents`, all from `OutboxInv`. It adds that event ids are unique
  and those of a row's puts (`Ordered`, `Named`), and what holds of the event the
  indexer is at (`AtWork`): while it has read the entry, added the vector or
  applied the event, whatever a client did to the row in between has left another
  event behind. Without that the three are not inductive, because `FinishEvent`
  removes an event without a look at the row.
* `TombstonedStayDead`, from the types alone.

and of `SqlAudit`, for any sessions, calls, queries and number of candidates, on
each of the three engines:

* `AuditTypeCorrect`, `CandidatesStayTheQuerys` and `CurrentStaysUnreplaced`, all
  from `AuditInv`. It says of each session what it has written at each statement of
  its method (`QueryPhase`, `ClearPhase`, `VersionPhase`), and none of the three uses
  a lock: a session replaces all rows of its query at its commit, and what an
  UPDATE has to deactivate was committed, for every engine's notion of a snapshot,
  when its call began (`ToReplace`). A commit of another session leaves that true,
  because what it adds was in nobody's `before` (`OthersKeep`,
  `VersionsCommitted`).

`CacheGateway_proofs`, for any keys and capacity and any finite set of threads:

* `TypeCorrect`.
* `SearchableStaysTracked`, while the process has not restarted. Inductive with the
  types: `SeesTo` names the calls that will still track, or remove the vector of, a
  key that can be found and is not tracked, and each step keeps that obligation or
  discharges it.
* `TrackedStaysWithinCapacity`, from `BoundInv`: the types, that `tracked` is finite,
  and the bound itself, which counts the puts under way (`Putting`). A step that
  adds an entry adds its put to them and one that ends a put has looked at the
  bound (`PuttingStep`); every other step makes nothing worse (`NoWorse`).
* `VictimFollowsHistory`, the action property. From `HistoryInv`, which reads the
  counters of every tracked entry as events of the log: the latest insertion, the
  latest event, the number of events in between. An event that is appended adds one
  to the counters of its own entry (`HitTold`) or begins them anew (`InsertTold`) and
  leaves those of the others true (`OthersTold`).

`QueryServing_proofs`, for any keys, configurations, scores and bounds and any
finite set of threads:

* `TypeCorrect`. It includes that the policy has a candidate to choose: a search
  ranks what it finds, so the first has the highest score (`EvaluateType`), and of
  a query's records one is the latest (`LargestExists`).
* `ServedUnderKey` and `InvalidatedStaysAway`, both from `ServingInv`. Neither is
  inductive alone: an answer is read long before it is served, and a call that has
  not stored yet could bring back what was invalidated. `CallInv` says that calls
  have numbers of their own, `Spent` that no call can store a generation any more
  once it is stored or was found by an invalidation, `HeldInv` that what a thread
  holds was none of those invalidated before it began.
* `PolicyDecides`, from the types and from what each fallback leaves in the choice
  (`LastWordReached`); the gateway's steps and the puts never lead to an answer
  (`OtherPoints`).

`SqlEntries_proofs`, for any keys, sessions and bounds, on each of the three engines:

* `TypeCorrect`.
* `EntriesRefine`: `Spec => ImplementsEntryTable`, with versions and numbers drawn
  from `Nat` (the run draws them from a bounded set). A commit is one step of
  `EntryTable`, the one of the session's method (`CommitMaps`), and every other
  statement, call, rollback or fault is a stutter (`OnlyCommits`).
* `LastEventTold`, for SQLite and MySQL as the property says. A transaction that has
  a row notes an event newer than any of its key, so the last event is that of the
  last writer; one that found no row has kept the key out until it commits.

  Both rest on `EntriesInv`. `Stage` says what a session has written, holds and
  knows at each statement of its method: whoever has written a row holds its lock
  (`WriterHolds`), so that what it computed from the committed row is still true of
  the row at the commit (`OtherStage`, `CommitSpares`). `FreshInv` and `EventInv`
  keep the faiss_ids and event_ids of open transactions apart from each other and
  from the committed ones, on SQLite in spite of the sequences that roll back: the
  write lock makes the numbers of an open transaction the last ones drawn
  (`FaultStep`). `GapInv` is MySQL's gap lock: no session writes a key where an
  invalidation has found nothing.

`FileStores_proofs`, for any keys, embeddings, limits, calls and crashes:

* `TypeCorrect`.
* `Survives`: `FilesFollow` says of each store that the file is what memory holds
  unless a thread has still to write it, and what such a thread is about to rename
  is whole. The property alone is not inductive, as it says nothing in between.
* `IndexedAnswers`, over both files and memory. Inductive with the order of what
  each call still has to do: a `put` has the response on file before the vector, an
  invalidation the other way round.
* `NearestFound`, from `GoodMatrix`: rows, norms, namespaces and the two maps name
  each other. The four cases of a delete (absent, last row, a row in between, an
  entry without a vector) each keep it.
* `LatestKept`: memory ends what is on file and that ends the log of what was
  added (`Ends`), through restarts with other limits.

  Reading a file into a matrix is a recursive function over the order of its keys.
  What it computes is proved for every file by the least counterexample of a set
  of numbers (`SetInduction`) in the place of an induction over an operator.

`OnlineComparison_proofs`, for any rows, streams, judge, batch size and number of
attempts, versions and observed rates, and for each of the three replays:

* `TypeCorrect`.
* `AuditMatches`. Needs `PairsInv`: the pairs that a request still has to report
  are of the request, and carry the verdicts on file.
* `CosineSessionActive`, an action property. Needs `PolicyInv`: the policy a request
  decided with may be behind the current one, and never behind the one that
  began the session. For the ensemble the like is false (`ActiveSessionIsActive`, section 3).
* `FrozenConverged`. `StoppingInv` relates the counter of stable checks to a window
  of the history; a check that comes before the window is full, or between two
  multiples of `check_every`, leaves the counter alone.
* `DiagnosticsMatch`, from `RecordsInv`: each of the three classes of records has as
  many as the recorder counts, but for the request under way. It follows record,
  verdict and pair from the probe to the append (`JoinedAccounts`,
  `ClassAppended`).
* `AttributionHistorical`, from `RowsInv`: what the cache holds is the warm-up, the
  misses recorded, and the write of the request under way, which the probe came
  before.
* `LifecycleMatches` and `HitEndsReplay`, from `LifecycleInv` and `EndInv`: where the
  tracker, the marks and the trace stand, inside a request and between two.

  Each action is first shown to have one of a few effects on the state
  (`Steps`, `Effects`), and each part of the invariant is then kept by each effect.

and of `ReplayArray`, for any scorer lists, any finite set of seeds, any workers and
nodes and any number of deaths and forced submissions:

* `ArrayTypeCorrect`, and `CompleteIsFinished`, `TableHasEveryTask` and
  `JudgedPairsPaidOnce` (an action property), all from `ArrayInv`. `JobsInv` says
  that the job of a scorer list waits or is on one worker, so that nobody else
  writes its directories if the list is alone in them; `LeftInv` that without
  `--force` a job has only tasks that are not complete, so that a summary torn by a
  kill is never one of a complete task; `DiskInv` what a directory holds at all times; `Progress` what has been
  saved at each step of a script, and that a replay knows the judgements on file.
  Nothing is assumed of the scorer lists. What lists that share a directory leave in
  it is one of theirs (`SharersAre`, `HoldsForSharers`); that a job is the only one to
  write there is so where a list is alone in it, and `CompleteMeansFinished` (of the
  summary), `TableIsWhole` (of missing rows) and `PairsPaidOnce` speak of such lists.

`ServedLabelsCount` of `TrainingData_proofs` is the assumption `ServedLabelCounted` of
`MonitorStaysWithinCounts` for the collector of this repository used by one thread.
With several, the store may raise after the collector noted the label
(`feedback/shadow_collector.py:228-233`), and the assumption fails.

The proofs assume the ASSUMEs of the modules they are about, which TLC evaluates
in the runs of those modules. The type invariants, `WindowsNested`,
`VersionCountsActivations`, `TombstonedStaysDead`, `KeysInStep` and
`BucketsBounded` are proved and no longer listed by a run.

Every safety property that a passing run checks is proved. Model-checked only: all
liveness, which with `ENABLED` is beyond the prover's reach.
The assumptions about pure operators are checked over bounded inputs; what folds
and recursive functions compute for every input would take an induction that the
provers cannot be given, and is proved only for the decoding of a vector file.

## 5. What the code does that a reader may not expect

What a document contradicts is in section 3. None of these is a run, because
no document or test says otherwise in so many words, or because a run of its own
would add little; they came up while the modules were written, and the models
follow the code.

* `freeze()` does not hold back a job that is already running.
* An event whose row has moved on is never processed and takes a place of every
  batch; when such events fill a batch, the ones behind them starve
  (`retrieval/faiss_store.py:230`). A put between the read of an entry and its mark
  makes the row ACTIVE with the older vector, and its own event is then one of them.
* After a restart over files the eviction policy knows nothing of the entries
  that are there; the bound is one on what this process put.
* With two threads the same example may enter both training splits
  (`feedback/store.py:206`).
* A hit of the active query-level policy is not told to the eviction policy, so
  recency is that of pair-level hits. A query record may name a candidate whose
  response has been replaced since; it is served under its own key.
* With an explicit `query_id` the query event of the gateway replaces the
  calibration record that the collector filed under the same id
  (`cache/sqlite_gateway.py:34`).
* A gate that fails does not reset `decisions_since_fit`, so a refit is tried
  again at every request.
* A judge that may override, together with shadow collection, hides the scorer's
  false accepts from the monitor; and it can serve hits while there is no
  threshold.
* `SemanticCacheSystem` with `batch_size` below 20 sends every pair to calibration
  and never trains (`system.py:163-168`). The first fit may come up to four pairs short of its
  gate's counts with an explicit `calibration_fraction`, and is tried again.
* `get_active_threshold_version_id` ignores region and cluster, so that a query
  event may name the version of another region. `ON CONFLICT` leaves `created_at`
  alone: a record that is added again keeps its old place under `LIMIT`.
* After a crash between the two files of a put, the vector store may hold the
  payload of an older response than the response store, which is the one served.
  Two threads that persist one file store at once share its temporary file.
* `submit_replay_array.py --force` starts the scripts of complete tasks again, but
  `online_replay_h1h0_final.py` takes both systems from their checkpoints and
  only writes the artifacts anew.
* With `--no-judge-cache` the audit has no verdicts and labels every hit
  UNCERTAIN. The diagnostic's candidate count of H0 pairs reads the judgements
  before the request is handled and misses those it causes.
* The diagnosis of false positives compares hits with the threshold at the end
  and reports a rise of it as a warning.
* The comparison script's rates count the rejections of the cold start as true
  negatives, which the docstring of `metrics_since` warns of.
* Building a uniform stream over an empty universe does not end. A table of one
  row leaves nothing to calibrate. The separation of two tables is computed with
  `>=` whatever the tie mode.

## 6. What is left out, and why

* The arithmetic of fitting and scoring: the models take every outcome of it.
  `_last_refit_decision`, `_fit_result` and `_activation_metadata` are reports
  nothing decides on.
* The `DISABLE_SEMANTIC_HITS` action of the oracle (no policy of the repository
  returns it), `update_online`. A restart of the oracle is another instance
  of its model: of what it learned only the thresholds (with a provider that keeps
  them) and the judged pairs (in the SQL stores) outlive the process, and they are in
  `Init`. Wall-clock limits of the refit policy: the oracle passes no
  clocks.
* In `TrainingData`: `raise_on_failure` and `collect_uncertain` (both off by
  default), custom eviction policies, the unsplit `InMemoryJudgeTrainingStore`;
  the rounding of `calibration_fraction`, a quotient here and rounded in
  `ActivationGate`.
* In `ReplayArray`: two jobs in the middle of a write to one file.
* In `FaissOutbox`: ranking and over-fetching, several indexers at once, expiry
  and scopes (which `SqlReads` has), the `faiss_snapshots` table, which is written
  and never read by the wiring.
* Of the SQL repositories: the schema and its migrations, connection strings,
  drivers, and levels of isolation other than the default of each engine.
* Two threads in one file store, and other file systems than one whose rename is
  atomic.
* In `QueryServing`: eviction by anything but recency, and the reports of the
  evaluator. In `AdaptiveThreshold`: percentiles, rank correlation, presets.
* In the experiments: command lines, loading of datasets, rendering of reports
  and plots. The other scripts and experiments drive the components above once
  and report.
* Scorers, feature builders, embeddings, providers, prompts, CLI, API server,
  observability, labelled-pair adapters, the builder and the factory: numerics,
  construction and I/O without state that outlives a call.
