# Return-Risk Intelligence Engine: a TLA+ development

This directory holds TLA+ models of the engine in `src/`, the TLC configurations
that check them on small instances, and proofs that TLAPS checks for every value
of the constants. `PROJECT.json` is the machine-readable index: which definition
translates which lines, which run checks which property, which mutation of the
model each property rejects, and which hazards of the code each property is for.

Paths below are relative to `src/src/` unless they start with `src/`.

    tlasany M.tla                          parse a module
    tlc -workers 2 -config X.cfg M.tla     one run (PROJECT.json pairs X and M)
    tlapm MProofs.tla                      check the proofs of a module

## 1. The system

A return request is scored from features that were prepared ahead of time; the
score is turned into an economic decision; an explanation of the score is
computed asynchronously; and analysts review the cases in a dashboard.

    simulation --> parquet files --> offline features --> training --> model bundle
                        |                                                  |
                        +--> event replay, graph processor --> Redis       |
                                                                 |         v
    POST /score --> scoring API: resolve context, score, decide --+--> response
                        |  RPUSH                 ^ GET /explanation
                        v                        |
                  Redis list --> SHAP workers --> explanation store (Redis + files)
                                                                 |
    analysts --> frontend --> BFF --> case database (SQLite) <---+ explanation

### Components, the state they keep, how they interact

| Component | State | Operations | Talks to |
|---|---|---|---|
| Scoring API (`inference/api.py`) | in-memory idempotency cache | `score_return`, `get_return_explanation`, restart | context resolver, decision engine, queue, store |
| Explanation queue (`explainability/queue.py`) | one Redis list | `enqueue` (RPUSH), `dequeue` (LPOP) | API, workers |
| SHAP worker (`explainability/shap_worker.py`) | the job in hand, its retry counter | `process_next`, `process_job`, retry | queue, store |
| Explanation store (`explainability/store.py`) | Redis keys with a TTL, one JSON file per request | `record_pending`, `save_explanation`, `get_explanation` | API, workers, BFF |
| Redis client (`inference/redis_client.py`) | connection, or an in-process fake server | get, set, push, pop; every error becomes a miss or `False` | everyone |
| Economic decision engine (`inference/economic_engine.py`) | the active policy | `decide` | API |
| Case review (`dashboard/services.py`, `dashboard/db.py`) | SQLite: policies, cases, actions, audit log | seeding at start-up, `execute_action`, `get_case_detail`, `get_review_queue`, KPIs, breakdown, financial impact | BFF, explanation store |
| Commerce simulation (`simulation/`) | population, fraud map, orders, returns, labels, event log, relationships | `generate_entities`, `_inject_*`, `simulate_traffic`, `export_data` | parquet files |
| Offline feature builder (`features/offline_builder.py`, `features/validation.py`) | indexes over the files | `compute_features_for_return`, `build_all_features`, `split_and_save`, `run_all_validations` | parquet files |
| Online features (`features/online_builder.py`, `src/scripts/replay_events.py`) | in-memory aggregates, flushed to Redis | replay, flush | parquet files, Redis |
| Graph processor (`features/graph_processor.py`) | adjacency and return counts, flushed to Redis | load, poll, materialize | parquet files, Redis |
| Context resolver (`inference/context_resolver.py`, `inference/feature_store.py`) | fallback store | `resolve` | Redis, API |
| Reason codes (`explainability/grouping.py`, `explainability/reason_codes.py`) | none | group totals and ranks, selection of codes, evidence | worker |
| Model registry (`models/registry.py`, `inference/model_loader.py`) | a bundle of seven files per version | save, load | training, API, workers |
| Frontend hooks (`src/frontend/src/hooks/`) | the last answer per view | fetch, poll, refresh | BFF |

The frontend, the verification scripts and what is left out of the other parts are
listed in `PROJECT.json` with the reason.

### Which behaviours are hard

* **Interleaving.** The API pushes a job before it writes the PENDING stub, while
  workers and two HTTP services read and refill the same cache key. Several BFF
  processes seed and write one SQLite file, and answer from two SELECTs.
* **Failure.** Every Redis and file error is swallowed. LPOP has no
  acknowledgement. Files are truncated and rewritten in place. Workers, the API
  and BFF processes may die between any two steps.
* **Retries and duplicates.** The retry counter travels in the job through the
  queue; a repeated push makes two jobs of one.
* **Time.** Redis keys expire; the offline builder reads files that contain the
  future of every row it computes, and each comparison has to cut it off. The same
  features are computed a second time for serving, by other programs with other cuts.
* **Files as the only channel.** Data sets and model bundles are rewritten in place,
  file by file, while daemons and services load them; either side may be killed.
* **Fallbacks.** A process that misses Redis at its start uses a private server for
  good; a scoring takes what is missing from defaults or offline rows.
* **Overlapping classifications.** KPIs, decision breakdown and prevented loss
  classify cases by three different conditions on status and action.

### What makes each part correct

* Pipeline: one flight per job; a bounded number of attempts; nobody is shown the
  explanation of another request (as far as ids keep their own files); what is in the
  cache is also on disk; every job ends; and, when only transient things fail, with a READY explanation.
* Cases: an acknowledged decision is durable and in both histories; nothing but a
  decision changes a case; answers from two SELECTs explain themselves; the
  aggregates count the same cases; a process that starts ends up serving.
* Decisions: losses are never negative; a riskier return never gets a milder action;
  the simulator of the dashboard means the same by a threshold.
* Training features: a row knows nothing that happened after its request and does
  not count itself; the graph features and the entity aggregates tell one story; no
  row is tested with what it was trained on. (The category baseline breaks the first
  and the last of these; the properties say that nothing else does.)
* Serving features: they equal the training features of the same moment, or it is
  known which do not; a round of writing skips no key; a scoring misses nothing that a
  round has written and knows how old its graph is; in the end Redis holds the newest
  export.
* Simulation: the life of an order is in order, labels and rings are what the fraud
  map says, and every run is a history the training features are proved for.
* Reason codes: cold-start features decide nothing, ranks follow the net risk, more
  risk takes a reason away only by giving another one.
* Model bundle: what is in memory is calibrated and its schema is not newer than its
  model, whatever was half written; everybody ends up with a model.

## 2. Modules

| Module | What it is |
|---|---|
| `ExplanationJobs` | abstract: what the pipeline promises about the job of each scoring |
| `ExplanationPipeline` | API, queue, workers, store and readers; implements `ExplanationJobs` |
| `ExplanationPipelineProofs` | type correctness, provenance, single flight, the retry budget, durability of what the cache shows, and that every step of the pipeline is one of `ExplanationJobs` |
| `CaseReview` | BFF processes over the case database |
| `CaseReviewProofs` | its safety invariants and action properties |
| `EconomicDecision` | `decide()` and the dashboard's simulation of its thresholds as operators, two consecutive decisions as a behaviour |
| `EconomicDecisionProofs` | losses are non-negative, decisions are monotone, simulator and engine agree |
| `FeatureHistory` | simulation log, graph builder, and the offline row of a return |
| `GraphMetrics` | the neighbourhood metrics of the graph processor, over a set of pairs |
| `OnlineFeatures` | extends `FeatureHistory` by what the online builder and the graph processor compute |
| `FeatureDataset` | extends `OnlineFeatures` by the written rows, the validator and the split |
| `FeatureProofs` | the properties of all three: point-in-time, where a row counts itself, graph against orders, online against offline features, validation, split |
| `Commerce` | the simulator: population, rings, traffic, scenarios, labels, event log, export; implements `FeatureHistory` |
| `CommerceProofs` | that it does, that labels and rings are what the fraud map says, and that event lives are in order and the export is sorted |
| `Serving` | exporter, graph processor, replayer, Redis and resolver as concurrent processes |
| `ServingProofs` | no key skipped, the age covers the time since the reading, a scoring misses nothing of a finished round |
| `ReasonCodes` | grouping, ranks, reason codes and evidence quality of one explanation |
| `ReasonCodesProofs` | lemmas about sums and rankings; cold-start features change nothing, ranks follow the risk, and when a reason is pushed out |
| `ModelBundle` | trainer, scoring API and SHAP worker over the files of one model version |
| `ModelBundleProofs` | whatever is loaded is calibrated, and its schema is the oldest part of it |
| `MC...` | the instances for TLC |

Definitions that a comment calls *Mutant* are plausible bugs. They are part of no
specification; each property has one that makes it fail when it takes the place of
the definition that follows it (`PROJECT.json`, "mutants").

### ExplanationPipeline

*State.* `queue` is the Redis list, `cache` the keys `risk:explanation:<id>`, `disk`
the files under `data/explanations`, `idem` the idempotency cache, `api` the score
handler between its push and its stub, `work[w]` where each worker is in
`process_job`, `get[c]` a `get_explanation` call past its Redis lookup. `origin`
and `failures` are histories: which request a scoring answered, and how often its
computation failed. A feature vector, a score and an attribution are abstracted to
the scoring they come from, so a record is the request it names, the scoring it
explains and its status.

*Grain.* One step is one Redis command, one file operation, or one piece of
process-local computation. The score handler has no `await`, so the lookup in the
idempotency cache, the scoring and the store into it are one step (`Score`); the
push (`Enqueue`) and the stub (`RecordPending`) are steps of their own. A worker's
iteration is `Dequeue`, the lookup (`ReadCache`, `ReadDisk`, `FillCache`),
`Compute`, then either `Requeue` or `OpenFile`, `WriteFile`, `Publish`. Two writers
of one file may mix their bytes (`Written`).

*Environment.* `Push`, `SetCache`, the reads and the file operations each may fail
in the way the code swallows; `Crash`, `RestartApi`, `Flush` and `Expire` are the
rest. Every fault but `Expire` is counted against `MaxFaults`, and `FaultKinds`
selects which kinds an instance has.

*Assumptions.* One Redis and one explanation directory shared by all processes, as
docker-compose intends. (`RedisClient` falls back for good to a private in-process
server when its one port probe fails, and never reads the `REDIS_HOST` that
docker-compose sets; with private servers nothing of the pipeline works.) One
uvicorn worker. The sanitiser of file names is a constant function, `SafeId`, of which
nothing is assumed: it drops characters, so two request ids may have one file name.
`Provenance` says what a lookup can rely on nevertheless: what is found under an id is
the explanation of a scoring of the request it names, that request has the same file
name, and a stub is always one's own. Where each id has its own file, this is the
explanation of the request itself. `PipelineProvenance` gives two of three requests one
file.

*Abstraction.* `Phase(s)` maps a state to where the job of `s` is: new, handed,
queued, running or over. `KeepsPromise` says that the pipeline implements
`ExplanationJobs` under that mapping, with its fairness. The promise is
at-most-once: "over" does not mean that an explanation was stored.

### CaseReview

*State.* `tables` is the committed database, `draft[p]` the database as the open
transaction of process `p` sees it, `srv[p]` the step `p` is at with the action it
records or what it has read, `clock` the time stamps, `acked` the actions that were
answered with success.

*Actions.* `Start` to `InsertSample` are `init_db`; `Submit`, `Update`,
`RecordAction`, `AppendAudit`, `Commit` are `execute_action` inside
`get_connection`; `ReadCase` and `ReadHistory` are `get_case_detail`, `CountQueue`
and `FetchPage` are `get_review_queue`; `Fail` is a statement that raises (rollback,
then a 500 or a failed start), `Crash` the death of a process. SQLite is modelled by
what the code relies on: one writer at a time (`Free`), readers see committed data,
a transaction that does not commit leaves nothing behind.

*Queue.* The total and the page of the review queue are two reads. `QueueOnlyShrinks`
bounds how they may differ: once no seeding is under way or can start again, the set
of pending cases only loses members, so no page holds a case that the total before it
left out. While seedings race one may: two processes that find the database empty and
read different files insert one after the other, and the second adds cases to the queue
that the first one already serves.

*Aggregates.* `KpiBlocked`, `KpiVerified`, `KpiApproved`, `Breakdown` and
`Prevented` are the sets of cases the SQL expressions select; `KpiLoss` and
`PreventedLoss` are the two losses that are shown, with the `Refund` of each case. The
financial impact replaces a sum of zero by a sample figure (`SampleLoss`,
`dashboard/services.py:616`), the KPIs do not: `ViewsAgree` says that this is the only
difference.

### EconomicDecision

Probabilities, rates and thresholds in percent and amounts in whole currency
units keep every product exact. `Decide` is one call; keeping the last call in
the state lets an action property compare two of them. `Simulated` is what
`simulate_policy` does to the score of one case; its sums over the cases are left out.

### FeatureHistory

*State.* The three files the simulation writes: `orders`, `returns`, and `edges`,
which is `GraphBuilder._edges`. The generator walks customer by customer and draws
times at random, so `PlaceOrder` and `RequestReturn` come in any order of time.
A customer uses the entities in `Owns`; an order is returned at most once and after
its delivery, in every fraud scenario too.

*Rows.* A feature is a count, a sum or a mean over a set of orders, returns or
users. `Row(os, rs, links, r)` holds these sets, so equal rows have equal features,
and it takes the files as arguments, so a row from the whole files can be compared
with a row from a part of them. It has three parts: `past`, what is cut at the request;
`baseline`, what the category baseline and its support count, over the whole files; and
`deviation`, what sets the return against the past (the gap before its order, the
average and the current days to return, the wardrobing score, the prices compared).
`CategoryDiff` is the difference of the customer's rate to the baseline.
`connected_component_size` is a function of `linked_1hop` and `linked_2hop`. Prices,
product costs and the account age are attributes of the order, its product or its
customer and do not depend on other events.

### OnlineFeatures and FeatureDataset

`OnlineUser`, `OnlineEntity` and `LoadedRels` are what `OnlineFeatureBuilder` and
`GraphProcessor` hold after they have read the files of `FeatureHistory`, with their
own cuts (`<= now` at the flush; an edge without its span; all returns of a
customer), and `OnlineRow` is what the resolver makes of them. `OnlineParity` compares it
with the offline row for the *newest* return, the situation of a scoring, in three parts:
the graph metrics (`GraphParity`) and the windows, totals and entity counts
(`AggregateParity`) agree; the rest does not, and `StandIns` says of each feature what a
scoring reads in its place and when that is what the row holds. Constants are empty sets:
0.15 for the category baseline, 0 for the difference to it, 0.5 or 0 for the wardrobing
score. Amounts and costs are left out. `FeatureDataset` turns the sets into
the numbers of the file (`DataRow`), checks them as `FeatureValidator` does
(`Validated`) and cuts the sorted rows into the three files (`Splits`; rows of one
moment in any order).

### Commerce

*State.* `own` are the ids of each customer after `generate_entities`, households and
rings; `flags` is `fraud_map`; `stage`, `current` and `left` are where
`simulate_traffic` is in its loop; `orders`, `returns`, `labels`, `events`, `delivery`
and `edges` are its lists; `files` is the export. *Actions.* `InjectHousehold`,
`InjectRings`, `BeginCustomer`, `PlaceOrder` (order, interaction, shipment and
delivery events), `Keep`, `ReturnLegitimately`, `BeginAbuse` and `Abuse` (one return of
a scenario; `targets` are the orders that are left to it, each with its request time), `Export`,
`Validate`. Every draw of the generator is a choice. `Chronological`, the stable sort of
`get_all_events`, is written by ranks: an event comes after as many as are `Earlier`.
*Refinement.* `ImplementsHistory`: with its lists read as sets, every run of the
simulator is a behaviour of `FeatureHistory`, so what is proved about rows holds for
rows of simulated data.

### Serving

*State.* `files` maps each file to the export it holds and `torn` is the one being
written; `up` and `store` are the Redis server; for the graph processor and the
replayer, `pc`, `backend` (shared or private server), `todo`, `pipe` and `total` are
the loop that fills pipelines, and `landed`, `lost` are histories of the round; `mem`
is the memory of the processor, which only grows between restarts, `acc` says which
exports the replayer read. A graph key holds the sets of `GraphMetrics`, a feature key
the exports it was made from. *Actions.* One step is one file read, one key put into
the pipeline (with `Execute` when it is full), one start; `BeginWrite`/`EndWrite` are
`export_data`, `Fail`, `Recover`, `Kill` and `ReadTorn` the faults. *Resolver.* `Seen`,
`Served` (group of features to the key's value, or none) and `ReportedAge` are what
`resolve` makes of its MGET in the current state; the properties quantify over every
request and both kinds of server. *Time.* `now` is the wall clock, which `Tick` advances
between any two steps, or never; the processor takes its stamp from it at the start
(`StartGraph`), and `read`, a history, is when it last read the relationships. Edges are
dated by the simulation (`latest`) and may lie in the future. *What is left out:* a server
that comes back has all it had, or nothing; one that falls back to an older snapshot is
not modelled, and `ScoresMissNothing` would not hold of it, because no program would know.

### ReasonCodes

One step, `Explain`, chooses attributions and a vector and computes the record:
`Total` and `Ranks` per group, `Candidates`, `Weight`, `Selected`, `Reasons`,
`Confidence`. SHAP values and feature values are integers; sums are `SumFunction` over the
features of a group or a code. The stable sorts are written by ranks: `Ranks` and `Places`
count what comes before. `Catalogue` is `config/explanation/reason_codes.yaml`, which the
worker loads; the defaults in `reason_codes.py` differ from it in one template
(`RC_CATEGORY_RETURN_ANOMALY` also quotes `return_rate_30d`).

### ModelBundle

`bundle` maps each file to the training it is of, `Torn` or absent; `save` is where
`save_version` is; `api` and `worker` hold what the loaders have in memory and the file
they read next. `Width` gives trainings a number of features, so that a row of one
schema may or may not fit a model of another (`Takes`). `jobs` and `explained` follow
the margin from the API to the worker that explains it.

## 3. Runs

Deadlock checking is off in the runs of `ExplanationPipeline`, `CaseReview`,
`FeatureHistory`, `ReasonCodes`, `Commerce` and `ModelBundle` because their instances do
stop: scorings, analyst decisions, orders, explanations, customers and trainings are
bounded by the constants, and when all are used up and every handler has finished,
nothing is left to do. That nothing stops *earlier* is what `KeepsPromise`,
`StartsServing` and `BothLoad` say, and `LabelsTellTheFlags` for the simulation. The
daemon of `Serving` never stops, and its run checks deadlock.

| Run | Result | Question |
|---|---|---|
| `PipelineSafety` | holds | Is a job ever in two places, tried too often, or a finished record only in the cache? |
| `PipelineProvenance` | holds | What can be found under an id whose file is shared, with repeated pushes too? |
| `PipelineLiveness` | holds | Does the pipeline implement its promise, and does a request end up READY for good? |
| `PipelineRegress` | **violated** | Once READY, always READY? |
| `CaseSafety` | holds | Are decisions durable, atomic and explained, do the aggregates agree (but for the sample figure), and does every start succeed in the end, under concurrent processes, a crash or a rollback? |
| `Decisions` | holds | Are losses non-negative and decisions monotone, and does the simulator agree? |
| `Reasons` | holds | Can a cold-start feature change the reasons, a rank contradict the risk, or more risk hide a reason? |
| `HistorySafety` | holds | Does any row look ahead, count itself or a row it is tested against, other than through the category baseline, do graph and aggregates agree, which features of a scoring are those of training, and do all rows pass validation? |
| `HistoryLookahead` | **violated** | Is the category baseline strictly as of the request time? |
| `Simulation` | holds | Are event log, labels and rings consistent, and is every run a history? |
| `Serving` | holds | Is a key skipped, does the reported age cover the time since the graph was read, does a scoring miss what a round has written, and is Redis up to date in the end? |
| `Bundle` | holds | Is anything ever served uncalibrated or with too new a schema, and do both programs get their model? |

### Bounds

* `PipelineSafety`: two requests, two payloads, two scorings, two workers, a reader
  besides the API, one retry, three faults. Two scorings of one request meet on one
  key and file; two workers meet on one job or file; three faults are enough for a
  job to fail, be retried, fail for good and still meet a lost stub or a crash. A
  symmetry over scorings, workers, requests and payloads is sound for these
  invariants: the model treats the members alike (here `SafeId` maps each request to its
  own file).
* `PipelineProvenance`: three requests, two of which share a file (`SharedFile`; the
  symmetry is of these two), two scorings, two workers, one payload, repeated pushes among
  the fault kinds and three faults; a second scoring of a request takes a restart of the API.
  Two writers of one file are two scorings of the two requests, or one job twice.
* `PipelineLiveness`: a request with a job and one whose features do not fit
  `ExplanationJob`, one fault of any kind, no symmetry. One fault is enough for a
  retry, a lost job, a lost stub or a torn file at every point.
* `PipelineRegress`: one job, one worker, no faults: the smallest instance in which a worker can overtake the handler.
* `CaseSafety`: two processes, two cases (one pending, one blocked by the engine),
  three recorded actions, one fault, starts that read all cases or only the blocked one
  (`_seed_initial_cases` falls back when its files are missing): two concurrent
  decisions on one case, a start racing with a decision or with a start that read other
  files, a rollback in between; 418,349 states. The sample escalation of a seeding takes one of the three
  stamps. Clients list the pending cases only: no property is about another list
  (`Listed`). The classification of a case depends only on the engine's verdict and the
  last decision; a case the engine approved has the row of one that was approved twice.
* `Decisions`: probabilities on both sides of every threshold and at both ends, three
  amounts (an order of 2000 in fashion has a salvage value above its direct loss), the
  two categories whose salvage value is farthest apart, and three
  policies, one with its thresholds the wrong way round.
* `Reasons`: seven drivers of five codes that compete for three places (two codes share
  `return_rate_30d` and have one more driver each, one code is not of the group of its
  driver, one driver is a cold-start feature), each with an attribution of -1, 1 or 3, so
  that sums of either sign and ties occur, and four vectors, one of them empty and one with
  a negative value. Without its exception, `MoreRiskKeepsReasons` fails on this instance.
* `HistorySafety`: three customers, of whom each pair shares some entity and one has
  a choice of device, three orders of two categories and any returns, three ticks, windows
  of no tick, one and one; a symmetry exchanges the two customers who have no choice, with
  their devices and payment methods (`Mirror`). A violation of point-in-time needs one return and one event in
  its future, a two-hop neighbour needs three customers, a wrongly merged span needs
  two orders of one customer and a third order to see it. A rate above one needs a
  window in which a return comes without its order, which the shortest one does. A
  history is enough at one order instead of five, and the shares are 34 and 67 percent
  instead of 70 and 85, so that three rows fill all three files.
* `HistoryLookahead`: two orders of that shop.
* `Simulation`: two customers, one household at most, three orders, two prices; a ring
  of two, a candidate left over from a ring, a serial returner of either difficulty and
  a wardrober. A ring that is not full and a leftover are the cases the slicing has; the
  address that a ring may share on top is not drawn.
  Durations are one tick or two and keep the order of the code's intervals.
* `Serving`: two exports (a customer; then two of one household, who share a device, of
  whom the other one now has the old transaction, so that files of two exports can be mixed
  up), pipelines of two keys, one replay, one fault, one tick of the clock: it may fall
  between the start and the reading, the reading and the writing, or the writing and the
  scoring. The newest edge of the second export is dated at one, so it may be in the future. One fault at any point is a failed pipeline, a
  wiped server, a processor that starts on a private server, or a killed program.
* `Bundle`: three trainings, the second and third with a feature more than the first,
  and two kills: a schema and a model of different trainings need two, a mixture of
  three needs a trainer killed between two others.

### Fairness

`ExplanationPipeline.Spec` has weak fairness of the API's two steps after a scoring
(a handler that has started runs on), of lookups that have started, of every
worker's step (`run()` loops for ever, and the container restarts unless stopped),
and of expiry (Redis removes a key whose TTL has passed). New requests, lookups and
faults have none. `EventuallyReady` is stated for behaviours in which nothing failed
but computations that were retried (`OnlyTransient`), since every other fault may
lose a job for good; in the others, `KeepsPromise` still says that each job ends.
`CaseReview.Spec` has weak fairness of the steps of a start and of a handler; a
process that failed to start is started again. `Serving.FairSpec` has weak fairness of
the graph processor (`docker-compose.yml` runs it with `restart: unless-stopped`, and the
daemon loops), of the server coming back and of an export that was begun; nobody has to
export, replay or fail, and the clock may stop. `ModelBundle.FairSpec` has weak fairness of the start and the loads
of the API, which includes that requests keep coming, and of the worker's start and
loading; nobody has to train.

## 4. Proofs

TLAPS checks these for any sets of requests, scorings, workers, customers and
trainings, and any bounds. The assumptions are the named `ASSUME`s of the modules, which say
that the constants have the right types and the special values are distinct.

**ExplanationPipelineProofs.** `Typing` (`SafeSpec => []TypeOK`): `TypeOK` is
inductive as it stands, because it ties the fields of each process to its step and
says that a worker only looks up while it checks. `ProvenanceHolds`, for every sanitiser:
`Provenance` alone is not inductive, because a record names
the right request only if the job it was made from does. `JobsBelong` (every job in the
API's hands, in the queue or with a worker names the request its scoring answered)
is proved first; `RecordsBelong` (every record in the cache, in a file, in a worker's
hands or in a lookup names the request of its scoring, which has the file name it is
stored under) is proved on top, with one step per action and one lemma per kind of write. `SingleFlightHolds`, under
`PushesOnce` (the Redis client repeats no push): the invariant is that the *places*
a job can be in exclude each other; the lemmas say how a push, a pop, a hold and a
drop move the places, and `StepMoves` that each action is one of these moves.

The rest of the module is also under `PushesOnce`. `RetryBudgetHolds`: `JobsCount` says that
the counter inside a job equals the failures of its scoring, wherever the job is: with
the API, in the queue or in a worker's hands; it is what makes the test in
`process_job` bound the failures, and a FAILED record is only drafted at the bound.
`KeepsPromiseSafety` is the refinement without fairness: `SingleFlight` gives each scoring
one phase (`OnePhase`), and every step moves at most one scoring, along an
edge of `ExplanationJobs` (`MovesPromise`, `ScoreAccepts`, `ComputeFails`,
`RequeueRetries`). `CachedIsDurableHolds`: for the only scoring that uses a file, and every
request with that file, `DurableInv` says of the cache, of each reader that is about to fill it
and of the worker between file and cache that the record it holds is the file's, and
that the file is not whole before the job was taken. `PushesOnce` is what the code gets
from a client that does not retry a push whose reply was lost.

**CaseReviewProofs.** One invariant carries all. `OneWriter`: at most one transaction is
open, and the step of a server says whether it is its own. `DraftsFollow`: an open transaction
is the committed database plus exactly the statements its server has executed, because
nothing was committed since it was opened. `StampsDiffer`: stamps of decisions in
progress are below the clock and nobody else's. `RowsAreExplained`: a row is the seeded
one or the outcome of a recorded action. From these, a commit moves the database by one whole decision or one
whole seeding (`TableStep`), and `AcknowledgedIsDurableHolds`, `HistoriesAgreeHolds`,
`DetailExplainsStatusHolds`, `DecisionsAreKeptHolds` and `QueueOnlyShrinksHolds` follow; the proof
classifies the steps into seven kinds (`Kinds`) so that each property is shown once per
kind. `ViewsAgreeHolds` needs only which combinations of status and action a row can
have: both losses are sums over one set. `Typing` bounds the clock by the actions, the starts and the faults (`ClockBound`).

**EconomicDecisionProofs.** `DecisionsTyped`: expected losses are natural numbers,
from the clamp in `FraudLoss` and the types of the profiles. `RiskierIsStricterHolds`:
the answer is always the decision of the last question (`Consistent`), and `Action`
is monotone, with the thresholds either way round. `SimulatorAgreesHolds` follows from the
same invariant.

**FeatureProofs.** The invariant is `TypeOK`, `EdgesAreOrders`,
`ReturnsFollow` (a return is the only return of an earlier order of the file) and the
finiteness of the orders. `EdgesAreOrders` says that an edge starts at the time of some order
that uses it and no later than any of them. That is what makes the graph features
point-in-time although the relationships file keeps only a span: the edges with
`first_seen <= t` are exactly the pairs used by orders up to `t`
(`ActiveEdgesAreKnown`). `PointInTimeHolds` then follows set by set
(`KnownIsEnough`, `SamePastSameRow`), `CountsItselfOnceHolds` from the
strict comparison in `PriorReturns` and `ReturnsOn`, and from the baseline having none, and `GraphMatchesOrdersHolds`
from the same equation of edges and orders. `ReturnsTrailOrdersHolds` maps each prior
return to its order, an injection into the prior orders without the order at hand.

On the same invariant, `OnlineParityHolds`: the processor forgets spans and cuts, but for
the newest return every edge and every other return lies before it, so its sets are
those of the row; a key of later rounds only knows more (`LoadedKnowsMore`,
`CountsGrow`); and the stand-ins are compared feature by feature. `OnlyBaselineLeaksHolds`: `NewestFirst` puts the rows in falling order of their
time, a row counts only strictly earlier returns (`CountsTheOlder`) except in the baseline, so
a row has counted one of an earlier file in the baseline or not at all. `ValidationPassesHolds` also needs `Numbered`
(transaction ids are distinct and not above the number of orders), because the
validator counts prior orders again by another rule; the rest is that each rate is
capped or divides a part by its whole (`RateRange`), and that the graph's timestamp, the largest of
some past times, is one of them (`UpdatedInTime`).

**ServingProofs.** `NothingSkippedHolds` from `Rounds`: during a round of writing, the keys
of the round are, without overlap, still to do, in the pipeline, on the server or lost with a failed
pipeline or a wiped server, and the printed total counts those that left the list.
`AgeCoversTheReadingHolds` from `Dated`: the stamp in the processor's memory and in every graph
key is no later than the reading of the relationships, since it is taken at the start, unless an
edge of the exports read so far moved it, and no reading is in the future.
`ScoresMissNothingHolds` from `OnServer`: the keys a round has landed hold the values of this
round, because nobody else writes them and what the values are made of does not change while
keys are written; with `Rounds`, that is every key but the lost ones. `CommerceProofs` and
`ServingProofs` take from the constants that sets of times and of exported pairs are
finite or have a longest element.

**CommerceProofs.** `Stages` says where the loop of `simulate_traffic` is and that the bound
on orders leaves room for the customers to come; `Delivered`, when each order arrives
and that customers come one after the other; `Returned`, that a return is of an earlier
order, that the order just delivered, the orders of a flagged customer before his
scenario, and the targets of a scenario are not returned yet; `Labelling`, that labels tell the flags.
Only with the middle one is `RequestReturn`'s guard (the order was not returned
before) met by four different writers of returns, and `ImplementsHistoryHolds` follows: an order's
number is the count of the orders before it plus one (`RowsCounted`, a bijection), placing
one leaves the earlier rows as they are (`RowsGrow`), and every step that writes neither
orders, returns nor edges stutters (`OthersStutter`). That a scenario always
finds an order to return (`TargetsAreMine`: the last k of a non-empty set are some) is
what makes the last part of `LabelsTellTheFlagsHolds` true. `RingsShareHolds` is arithmetic
on places: two candidates in one cluster get one ring number, whose ids are ids of the
simulation (`RingNumbers`), and households never take an id away.

`LivesAreOrderedHolds` from `Log`: every event is of a placed order, events up to the
delivery are no later than `delivery` says, and an order with an event of a return is among
the returned ones. So when one of the four writers schedules a return, `Returned` leaves only
events before the delivery in the log, and a block of rising events (`Rising`) put after them
keeps every life in order (`LivesGoOn`). That `validate_generated_data` cannot fail needs that
`Chronological` sorts (`ExportIsSorted`): an event has a rank below the length of the log,
two events have different ranks, an injection between sets of one size is onto, so each place
has its event.

**ModelBundleProofs.** For any number of trainings of any widths and any number of
kills, `CalibratedHolds` and `SchemaIsOldestHolds`. The order of the files is the whole
argument: the schema is written after the model and the calibrator and read before
them. `Passed` says which files the trainer has finished; `Layered`, that a whole schema
on disk has a calibrator beside it and is no newer than a whole model or calibrator;
`Loads`, the same of a schema that a program has in memory and the files it has still
to read, however many trainings happen in between. Neither property is inductive alone,
because both speak of loads that are over. Every step of a program is one of seven small
lemmas on a reader (`SchemaIsRight`, `ModelIsRight`, ...), shared by the service and the
worker; every step of the trainer goes through `SaveKeeps`.

**ReasonCodesProofs.** Three groups of lemmas carry the three theorems. *Sums*: the partial
sums that `SumFunction` folds over exist for any finite set of drivers (`FoldsReachAll`, by
the least size of subset at which they would not, since the library's induction cannot be
used), are integers, are positive when a weight is, and move by what one term moves
(`SumMoves`). *Rankings*: in a finite strict total order, one more than the number of
elements before an element is a bijection onto the numbers up to the size of the set
(`PlacesAreTaken`); `Outranks` is such an order of the groups because no two have one position
in the catalogue (`OutranksOrders`), `Precedes` one of the codes because no two have one
priority (`PrecedesOrders`). *Selection*: a code is selected when it is a candidate whose
place is at most `MaxReasons` (`SelectedAreFirst`). `RanksFollowRiskHolds` follows from the
second; `ColdStartDecidesNothingHolds` from the catalogue, in which no code lists a feature of the
informational group. For `MoreRiskKeepsReasonsHolds`: every code that lists the feature gains
the same (`ScoresMove`), so of two codes the one that lists it does not fall behind; if it loses its place, as many as
there are places are before it, which were before it already, unless one of them was no
candidate; and that one had no trigger, because a trigger has a score (`TriggerScores`,
`CandidatesMove`). The lemma `LargerKeepsReasons` is for any increase, the property for
those TLC can try. The invariant only says that the record is the one of the attributions
and vector beside it.

**Only model-checked.** Liveness under fairness (`EventuallyReady`, `StartsServing`,
`Converges`, `BothLoad`, the fairness half of `KeepsPromise`) is out of the prover's
reach. For a client that repeats pushes (without
`PushesOnce`) only `Typing` and `ProvenanceHolds` are claimed, and `PipelineProvenance` checks the latter.

## 5. Where the code and its documentation disagree

Each of these is a run that finds a counterexample.

1. **READY may turn into PENDING** (`PipelineRegress`; `inference/api.py:149-150`). The
   job is pushed before the stub is written. A fast worker stores READY first, the
   stub overwrites it, and the endpoint says PENDING until the stub's TTL of seven
   days is over and the file answers. `EventuallyReady` shows that it does recover.
2. **The category baseline looks ahead** (`HistoryLookahead`;
   `features/offline_builder.py:163-167`). It is counted once over whole files, so
   `category_return_rate_baseline`, `user_category_return_rate_diff` and
   `baseline_support_count` of a row depend on orders and returns after its request. They
   count the row's own return as well (`CountsItselfOnce`), and a test row counts the
   returns of the training rows of its category (`OnlyBaselineLeaks`), where
   `src/README.md:194` reports results "with zero future lookahead or
   self-contamination".

## 6. Observations without a run

Disagreements that the models show as well; each takes one more invariant to see.

* *No customer is spared a punitive code* (`explainability/reason_codes.py:202-297`).
  `src/README.md:223` has users "with tenure under 24 hours or zero purchase history"
  "programmatically forbidden from being issued punitive fraud reason codes". They get the
  confidence `LOW_COLD_START`, which nothing reads when the codes are chosen: the new
  customer of the `Reasons` instance gets `RC_DISPROPORTIONATE_RETURN_LOSS` when its
  features raise the risk. `ColdStartDecidesNothing` is what does hold.
* *A scoring does not read the row the model was trained on*
  (`inference/context_resolver.py:140-172`). `PHASE_5_REDIS_GRAPH_ONLINE.md:98` has the
  feature values verified against the offline ones. The category baseline is a constant,
  the difference to it zero, the current days are the average ones, the wardrobing score
  is fixed per category, the gap runs to the scoring, prices are compared with other
  orders, and costs are fixed shares (`StandIns`, which says when each agrees all the same).
  The history counts the order that is returned and those after it, so `user_history_count`
  is always too large, `has_prior_orders` is always one, `is_first_purchase` is lost with the
  next order, and `used_category_fallback` and `baseline_support_count` may differ.
* *Two losses for one set of cases* (`dashboard/services.py:616`): with no blocked case the
  KPIs show a prevented loss of 0 and the financial impact one of 185000 (`ViewsAgree`).
* *The age of the graph is not the age of its data* (`features/graph_processor.py:30`): a
  processor that starts hours after an export, or is restarted, reports the time since its
  start. `AgeCoversTheReading` bounds the age by the reading, and not when an edge is dated
  later than that: `first_seen` in the future makes the age too small, or 0.

* *Two processes that start together* (`dashboard/db.py:108-141`): the policy is counted
  and inserted in two statements with a fixed key, so the slower process fails at
  import. `StartsServing` shows that a restart cures it.
* *A resolved case is in no KPI class* (`dashboard/services.py:57-59`): status RESOLVED
  with action VERIFY satisfies none of the three conditions.
* *The action is not the cheapest one* (`inference/economic_engine.py:82`, against the
  "optimal risk actions" of line 4): the losses are reported, the thresholds decide.
* *Reasons of one group although others are left* (`explainability/reason_codes.py:270-274`):
  the heuristic only stops the loop at `max_reasons`, where it has ended anyway.
* *Attributions may not add up to the margin* (`src/README.md:146`): when the same version
  is trained again between the load of the API and that of a worker, the margin is of one
  model and the attributions are of the other (`explained` holds such a pair); the worker
  logs it and stores the record.

Explanations and cases:

* `explainability/store.py:16` calls persistence atomic and immutable. Files are
  written in place, so a crash leaves an empty or torn one (`OpenFile`, `WriteFile`),
  and a second scoring hides the finished record behind a stub and rewrites it.
* `inference/api.py:151`: when the features do not fit `ExplanationJob` (rows of the
  in-memory store carry strings and a datetime), the scoring is answered PENDING and
  has neither job nor stub (`Unjobbable`).
* `explainability/store.py:38`: the sanitiser drops characters, so two request ids may
  share a file, and a lookup that misses the cache returns the other request's explanation,
  under that request's id (`Provenance`).
* More risk may hide a reason (`explainability/reason_codes.py:233-245`): a code scores by the
  positive attributions of its features, whatever they read, but needs one of them with
  a positive value as trigger. When a feature with a positive value that two codes share
  stops lowering the risk, it may give the other one its only trigger, and with the score that
  one had it can take the place of a code that was selected before (the exception in
  `MoreRiskKeepsReasons`).
* `RC_NETWORK_ABUSE` is a candidate when only `connected_component_size` is attributed to,
  also at its least value of one; and a code's group may differ from the group of a
  feature it lists.
* `dashboard/services.py:240`: a case detail makes up a READY explanation when the
  store has none. `:368`: `previous_status` is a literal. `:186`: the priority filter
  runs after LIMIT and OFFSET, and the total ignores it. `:305`: `created_at` is taken
  before the transaction, so stamps and commit order may differ.
* `dashboard/db.py:144` and `src/config/policies/decision_policy.yaml` both define
  policy-3.0, with different thresholds, so simulating the policy that the dashboard
  shows as active changes decisions. At a score equal to a threshold the engine takes the
  milder action and the simulator the stricter one. The simulated loss does not depend on
  the verification threshold.
* `src/frontend/src/hooks/useCases.ts:16`: a hook keeps the answer that came last; after a
  quick change of the filter that may be the answer to the filter before.

Features and serving:

* `features/offline_builder.py:539-547` trains on the most recent 70 percent of the
  rows and tests on the oldest 15, as its docstring says; `OnlyBaselineLeaks` shows what
  still holds. The rule of `PHASE_2_FEATURE_ENGINEERING_OFFLINE.md` that an active edge
  also has `last_seen >= timestamp` is not applied. `connected_component_size` counts the
  two-hop neighbourhood, not the component. `is_first_purchase` and `has_prior_returns`
  may both be one. `build_features.py` saves the files also when validation fails.
* `features/graph_processor.py:30`: the stamp of a graph key is that of the start of the
  processor; in daemon mode it overstates the age more and more. Edges and return counts
  of earlier exports stay in memory until a restart (`Counted`, and `Current` in
  `Converges`).
* `inference/context_resolver.py:90-111`: without a graph key the age is 0 and the version
  the default one; with it they are reported also when the features come from the
  offline store.
* `features/online_builder.py:283`: `ttl_ms` is a field of the value and no expiry is
  set; keys lost with Redis are not written again until somebody replays. `:270`: a failed
  batch is counted in "wrote N keys". A replay on a private server writes into nothing.
* `docker-compose.yml` sets `REDIS_HOST`, which `RedisClient` does not read, and the
  images copy `data/` and `model_registry/` when they are built.

Simulation and models:

* Browsing events may come up to 20 minutes after their purchase; the targets of a
  scenario are the last orders of the list, not of the calendar; a candidate left over
  from the rings is flagged for nothing (`RingsShare`).
* `models/train.py` switches champions at a gain of 0.02 where its comment says 0.01, and
  registers an xgboost champion as `rr-lgbm`.
* `inference/model_loader.py`: the margin comes from `model.joblib` and the probability
  from the model inside `calibration.pkl`, which may be of different trainings after a
  trainer was killed; if their widths differ every request is answered 500 until a
  restart. An API that loaded between the schema and the metadata of a first training
  reports `cal-1.0`.

## 7. What is not modelled, and the plan

Modelled so far, in this order: the explanation pipeline and its promise, the case
database, the decision engine, the training features; then serving (data sets, graph
processor, replay, Redis with private servers, resolver), the parity of online and
offline features, the written data set, the simulator, reason codes and the model bundle.

Still to come:

* **CaseReview** with sorted histories: stamps and commit order, the chain of
  `previous_status`.

Left out for good: gradient boosting, calibration fits and evaluation (floating point, no
state); amounts and costs in the features; the frontend's rendering; logging, metrics, request ids and the loading of
configuration (nothing else reads them); the acceptance scripts, which call the parts
modelled here and print the outcome; the BFF services that assemble answers from constants
and rows; prices and texts. The resolver's economic profiles are left out of `Serving`
because Redis holds what the configuration files hold.
