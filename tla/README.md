# ApiPulse: a formal model

ApiPulse imports the HTTP traffic of a system, has language models analyse its
interfaces and generate tests for them, has people review what was generated,
runs the tests as scenarios, and keeps monitoring the interfaces. The server is
one Python process of asyncio coroutines over MongoDB (documents), Redis
(queues, counters, keys) and an in-process scheduler. Almost nothing in it is
protected by locks: a handler reads, awaits, and writes, and whatever else is
ready runs in between. That is what this project is about: TLA+ modules of the
parts that carry the program's own logic, TLC runs that check them on small
instances, and TLAPS proofs for every instance.

Contents: 1 the system, 2 the modules, 3 the runs, 4 fairness, 5 the proofs,
6 where code and words disagree, 7 what is not modelled, 8 the plan, 9 how to run.

## 1. The system

### Parts, their state and how they interact

| part | code | state it keeps | operations |
|---|---|---|---|
| scenario engine | `dag_engine/engine.py` | per run: context, results, the record; per engine *instance*: the children map, the steps, the execution id | `run_scenario`, `_run_wave`, `_dispatch_step`, containers, `_execute_step` |
| AI work queues | `ai_analyzer/analyzer.py`, `services/api_service.py`, `services/capture_service.py`, `har_parser/parser.py`, `services/ai_job_service.py` | Redis lists, `ai_jobs`, `api_dsls.analysis_status`; tasks and a semaphore in the process | enqueue, BLPOP loop, `process_one`, retry, dead letter |
| the eight other AI workers | `analyzer.py` (document, assertions, scenario, data template, monitor), `diff_evaluator.py`, `failure_diagnoser.py`, `alert_analyzer.py` | a list, a dead letter list and a semaphore each; the status of what a job is about; versions for review | one loop each |
| dead letter administration | `api/routers/dlq.py` | the dead letter lists, `ai_jobs` | list, retry and remove by index, retry by job; the page of jobs |
| worker supervision | `run_all_workers` in `analyzer.py`, `shutdown` in `api/routes.py`, `config/database.py` | nine BLPOP loops and their tasks, the connections | start, restart after an error, cancel, close |
| monitor checks | `monitor/monitor.py`, run-now in `api/routers/monitors.py` | `executions`, `alert_records`; in Redis the failure count, the previous status, the fingerprints | `_run_monitor`, `_evaluate_result`, `_fire_alert` |
| monitor scheduling | `api/routers/monitors.py`, `start` and `_add_job` of `monitor.py` | `monitors` and the scheduler's jobs | create, update, toggle, delete, load at start |
| generated versions and their review | `api/routers/generations.py`, `apply_version` and `_auto_review_generations` in `analyzer.py`, `services/trial_runner.py`, `services/quality_gate.py` | generation versions, the documents they are applied to | accept whole, in part or edited; reject; trial; automatic review; trigger of what comes next |
| dependencies and clusters | `services/dependency_service.py`, `services/cluster_pipeline.py` | `api_dependencies`: who feeds whom, how surely | discover, probe, confirm, refuse, decay; batches of a scenario job |
| knowledge | `knowledge/service.py` | `knowledge_entries` | upsert, extract singly and by batch, consolidate, promote, vote, edit, delete |
| API catalogue | `har_parser/parser.py`, `api/routers/apis.py`, `services/api_service.py`, `services/capture_service.py`, `services/diff_service.py` | `api_dsls` with its unique index, quarantine, `import_diffs`, the capture switch | HAR whole and streamed, OpenAPI, forms, cURL, capture, edit, delete, compare with the analysed |
| traffic proxy and sources | `mitmproxy_capture/capture_addon.py`, `TrafficService` in `services/mock_service.py`, `api/routers/traffic.py` | rules and their cache at the proxy, sources, `traffic_records` | apply rules, decide on recording, post, ingest, link |
| scenario service | `services/scenario_service.py`, `api/routers/scenarios.py`, the scenario builder of `analyzer.py` | `scenarios`, `scenario_versions` | create, import, update, restore, delete, run, batch; validate; repair of generated steps |
| mock services, data factory, SQL runtime, chat, memory, bots, access, statistics, prompts, front end | the rest | documents | requests of few steps |

Interaction. HTTP handlers, the HAR import and the proxy store APIs and push
*messages* onto Redis lists; worker loops take them off, call the language
model, insert versions and show the progress in two collections at once
(`ai_jobs` and the document the job is about). People, or the automatic review
after a trial run, apply the versions to the catalogue, the scenarios, the
templates and the monitors; a rejection weakens the dependencies a scenario was
built on and may teach the knowledge base, which the next prompts quote. A job
that fails too often goes to a dead letter list, which administrators empty
through handlers of their own. The scheduler calls the monitor service, which
runs steps and scenarios on *one shared* engine instance and keeps its counters
in Redis. The engine's failures go onto a queue for diagnosis, the monitors'
alerts onto one for assessment, the imports' differences onto one for judgement.
At shutdown one handler cancels all loops and closes the connections under them.

### What is hard, and what makes each part correct

* **Scenario engine.** Steps of a wave are tasks that end in any order, fail,
  raise or are cancelled; containers run waves inside a task; retries run inside
  iterations inside containers. Correct means: steps respect `depends_on` at
  every level, a condition sees what its dependencies extracted, the verdict
  "passed" is never given over a failure or over steps that never ran, "failed"
  never without a cause, and every run concludes.
* **AI work queues.** A message is popped before anyone is free to work on it;
  status is written before or after the push depending on the caller; crashes,
  timeouts and rate limits fall between any two awaits. Correct means: a job is
  in one place at a time, tried a bounded number of times, given up only when
  its tries are spent, and never shown as busy for ever.
* **The other workers.** Nine loops written after one pattern differ in which
  failures count, in the order of their writes and in what they leave behind when
  a timeout strikes. Correct means: jobs are buried for failures that count, the
  target of a job that rests does not look busy, and every job comes to rest.
* **Dead letters.** Elements are addressed by an index that three successive
  listings interpret, in a list other people change, while workers pop, wait for a slot, run
  and bury, each push and its note two awaits. Correct means: nothing is
  duplicated or lost, each request acts on what its user saw, a job returns
  to the queue it came from, and the page of jobs names each job once.
* **Shutdown.** Cancellation arrives in BLPOP, with an answer on the way, or in
  the sleep after an error. Correct means: at most one message per queue is
  lost, connections close under no loop, and all of it ends.
* **Monitors.** Count, previous status and fingerprints are read, decided on and
  written in separate awaits, by checks that may overlap. Correct means: the
  count is the length of the streak, alerts come exactly at the threshold and
  above, recoveries when the target is back, each once per window, and whatever
  was sent is on record.
* **Monitor scheduling.** Each monitor exists twice. Correct means: the job is
  what the document says, whenever nobody is in the middle of changing it.
* **Review.** One `apply_version` serves acceptance whole, in part, edited and
  automatic; it merges into a target that others merge into, edit and delete, item
  by item, passes over items it cannot use, and marks the version last. Correct
  means: all that could be used of what is called accepted is in the target,
  nothing gets there that nobody chose, and the system itself accepts only what
  is sound, not risky and has passed a trial where the settings ask for one.
* **Dependencies.** An edge is read, computed on and written back by people,
  discovery, probing and decay. Correct means: a refusal lasts, and the batches
  cut along the graph lose and split nothing.
* **Knowledge.** A consolidation compares copies and merges for as many awaits
  as there are pairs while others write the same entries. Correct means: a topic
  that was learned is not lost, and twins do not stay.
* **Catalogue and traffic.** Seven ways in, each with its own duplicate check and
  its own order of insert, message and record; rules applied at the request of a
  flow and again at its response. Correct means: one API for one request, every
  API stored is analysed and compared, and what a rule hides is not recorded.
* **Scenarios.** Documents are written by people, imports, restores and the
  language model, validated by one algorithm and executed by another, while runs
  write their status. Correct means: what validates runs, what is generated
  validates, what is replaced is kept, "running" means running.

The full list of hazards, each at its line, with the properties that watch it,
is in `PROJECT.json`.

## 2. The modules

```
ScenarioGraph ─┬─ Scenarios ── ScenarioRun <=implements=  DagEngine
               ├─ WaveOrder                <=implements=  TopoSort
               └─ ScenarioCheck ── ScenarioRepair ── ScenarioStore
JobLimits ─────┬─ JobLife                  <=implements=  JobQueue
               └─ AiWorkers
Dependencies + Knowledge ── Review         Catalog ── Traffic
DlqAdmin      WorkerShutdown      Monitor      MonitorSchedule
```

A line is EXTENDS or INSTANCE, from left to right. An action is the code between
two awaits, since that is what the event loop runs without interruption. A
definition keeps the name of what it models where there is one. Operators whose
comment says *slip* are deliberate variants of the definition after them and
are used by no specification: they are the plausible bugs the properties were
tried against, listed under `mutants`.

**ScenarioGraph**: the graph of `depends_on` as `_topo_sort` reads it. `Counted`
drops the reserved names `start` and `end`, `Frontier` is the next wave,
`Acyclic` the reference definition of "no cycle" (every non-empty set of steps
has a member that waits for none of the set).

**WaveOrder** (abstract) and **TopoSort** (the code). WaveOrder places, wave
after wave, all the steps whose dependencies are placed. TopoSort has the
in-degrees, the scan over the successors of the steps just placed, duplicates in
`depends_on` and the comparison of sizes at the end. Its `SortInit` picks any graph.

**ScenarioRun** (abstract) and **DagEngine** (the code). ScenarioRun is what a
caller of `run_scenario` may rely on at the top level: steps begin after what
they depend on passed, a failure ends the run, the verdict is true and final.
DagEngine has the tasks (`task`), one for every step's coroutine with its
attempt, remaining iterations and results; the levels (`frame`), one for the
scenario and one for every container being executed, with its placed steps, its
wave and its context; the record; and `children`, the map on the *instance*.
A context is the set of steps whose variables it holds; a condition container
shares its parent's, a loop works on a copy. A call is one step with an outcome:
it passes (with or without the variable asked for), fails, finds no API, or
raises outside the `try` of `_http_call`. A raising wave cancels its tasks, and
`Within` says which coroutines that reaches: those awaited directly, not the
tasks an inner `asyncio.wait` is waiting for.

**JobLife** (abstract) and **JobQueue** (the code). JobLife: a job is new,
waiting, held, done, dead or lost. JobQueue has the enqueuing handlers, each
with the order of its own steps (`PlanOf`), the message with its `fail_count`
and `force`, coroutines created by BLPOP before they hold the semaphore, skip,
call, versions, the setting `auto_review_flow`, timeouts, the retry message that
drops `force`, the dead letter and both statuses. `JobLimits` holds the
constants the two share.

**AiWorkers**: the eight other workers, in one module because they share one
pattern. `kind` says which worker a job is for; `PlanOf` is the order of its
sender's steps, `Excused` which failures requeue without being counted, and the
actions between `Take` and `End` are what a coroutine does, with the kinds it
applies to in their guards. Five branches for rate limits (document, assertion,
template and alert workers) are dead in the code, since the call inside swallows
the error, and so they are in `Excused`: there a rate limit costs a try, against
what two comments say (section 6). `BuriedForCause` names the causes itself and
does not refer to `Excused`. `target` is the status of what the job
is about: the difference, the execution, the API, the alert, or nothing.

**DlqAdmin**: requests as sequences of Redis commands over one dead letter list
that three queues share, with the workers going on underneath: a `hand` is one
coroutine of theirs, which has popped a job and waits for the semaphore, then
marks it running, saves versions, and concludes, or pushes the job back or onto
the dead letters and in a later step notes so in `jobStatus`; and the page of
jobs, read from the records, every queue and the dead letters of every queue, one
reading after the other, and merged (`rows`).

**WorkerShutdown**: loops, the tasks around them (a bare loop, or a supervisor
that awaits one coroutine object), and the shutdown handler that cancels and
awaits one group after the other. `super` is the outer task's state.

**Monitor**: checks numbered by their start. A response body is one of two that
differ by at least `diff_threshold` changes. The properties compare the counters
with `Streak`, computed from the stored executions alone. `RunNow` are the checks
that somebody asked for and whose report is followed.

**MonitorSchedule**: documents and jobs, with each handler's steps. Creating,
updating, toggling and deleting write the two stores in different orders;
`crossed` marks the monitors two requests worked on at once since the start.

**Dependencies**: `edges` holds, for each ordered pair of APIs, the documents of
it, of which two concurrent inserts may leave two. A `task` is one request: what
it read (`found`), what it has still to write (`todo`). The graph, its components
and the batches are operators over the edges of the moment (`Explore` is the
loop over the stack, a turn of which is `Pop`, and `Grown` a turn of the loop over
the nodes); a batch is named by the cluster it is cut from and its number there,
group 0 being the APIs of no cluster. `FollowClusters` judges them by a definition
of its own. Confidences are in twentieths.

**Knowledge**: entries with a title, the APIs behind it and a confidence; a hash
is a title, and which titles are alike (edit distance below three) is given. A
`pupil` is one request, with one `hand` for each extraction of a batch, since
`batch_extract` gathers three at once, and with the merges it has computed from
its copies and still has to write.

**Review**: composes the two above with the versions. A `session` is a review
request on its way through `apply_version`: load, read the target, write it or
insert item by item, mark the version, tell the API, trigger. The content of a
version is the set of parts it suggests, in revision 0, or 1 once edited; the
target is where its parts have landed. A part-wise acceptance that names no part
is a full one, and for scenarios inserts all, as in the code. `usable` are the
parts `apply_version` can use of a version (objects, fields with a name, monitors
of a target that exists): it passes over the others and goes on. `copies` counts
the documents of the target; `DeleteTarget` takes them away, after which an update
matches nothing. `grade` is what the gates found, `trial` the outcome of the trial
run, `settings` the three switches that decide whether trials are run, whether
the system reviews, and whether it asks for a passed trial. Rejecting starts the decay in
Dependencies (`Weaken`), and with a reason given, an upsert in Knowledge.

**Catalog**: `caller`s bring a file, a spec, a form, a command, a capture or a
record, read it in batches, look for duplicates, insert, and announce. `plan`
is what they bring. A `Fingerprint` is what the four places that compute
one put into it. The analysis is one step (`Analyse`).

**Traffic**: EXTENDS Catalog by the proxy: a flow goes through the rules at its
request and its response, with the cache of the moment, is posted by a thread,
checked, recorded, and becomes a caller of the Catalog.

**ScenarioCheck** and **ScenarioRepair**: the validation and the repair of
generated documents as operators; a document is a graph with types and parents.
`Runnable` is what the engine needs (`Sortable` of ScenarioGraph on every level),
`HasCycle` says what a cycle is, for the search of the code (`Cyclic`) to be
compared with, and `Sensible` which answers of the language model name what is there.
**ScenarioStore** has the requests around them, and the executions of single
runs and batches up to the engine, which is one step with an outcome.

`MCx` instantiates module `x` for TLC (`MCTraffic` Catalog too, `MCReview` all
three). `x_proofs` holds the theorems about `x`; those about JobLife are in
`JobQueue_proofs`, about ScenarioRun in `DagEngine_proofs`, about TopoSort,
WaveOrder, ScenarioCheck and ScenarioRepair in `ScenarioStore_proofs`, about
Dependencies and Knowledge in `Review_proofs`, about Catalog in `Traffic_proofs`,
about MonitorSchedule in `Monitor_proofs` and about WorkerShutdown in
`AiWorkers_proofs`. (MonitorSchedule, WorkerShutdown and TopoSort call their
specifications `ScheduleSpec`, `ShutdownSpec` and `SortSpec`, so that they can stand
there.)

## 3. The runs

Passing runs (module MC…, bounds, what they show):

| run | instance | shows |
|---|---|---|
| `topo_sort` | every graph over `start`, two steps and a name that is no step, two of the names possibly repeated in a list of dependencies | `ImplementsWaveOrder`: TopoSort implements WaveOrder: waves respect dependencies, exist exactly for the sortable graphs, and the sort returns |
| `dag_engine` | start, a call, a condition container over two parallel calls beside a loop of 0 or 2 iterations over two dependent calls (one retried), and a call that waits for both; every outcome of every call | `ImplementsScenarioRun` (order, truth and finality of the verdict), `PassedMeansComplete`, `ConditionSeesDependencies`, `QuietAfterVerdict`, and a run `Concludes` |
| `job_queue` | two jobs for one API, a forced one from the service and one from the HAR import; two coroutines under two semaphore slots, MAX_RETRY 2, no rate limit, one crash | `ShownBusyIsBusy` and `NotedFirstIsShown`: statuses mean what they say while nothing crashed; `ImplementsJobLife`, crashes included; `Settles`: every queued job ends |
| `ai_workers` | one job of each of the eight kinds, three coroutines under two slots, two batches of a scenario job, MAX_RETRY 2, one failure that does not count; deletions and reviewers at any time | `BuriedForCause` (how many failures of which causes bury a job in each worker), `TargetsSettle` (what a target shows when its job rests), `JobsSettle` |
| `dlq_admin` | two administrators, two requests, two jobs of two queues, one of them a letter of the old format; two coroutines of the workers, one slot for each queue; one crash | `OnePlace`, `ActsOnTheOneSeen` as long as requests do not cross; the page: `PageNamesEachOnce`, `ShownDeadIsDead` |
| `worker_shutdown` | two supervised loops in one group, then a bare one; two messages each | `LossBounded`, `ClosedUnderNoLoop`, `LoopsStop` |
| `monitor` | four checks, two at once, one of them run by hand, two bodies, threshold 2, one trouble (a failing call or a crash) | `AlertOnStreak`, `OncePerWindow`, `SentIsRecorded` |
| `monitor_schedule` | two monitors, two plans, two requests at once, restarts anywhere, load limit 2 | `InStep`: the scheduler is in step with the database |
| `review` | two versions of any of seven types over two parts (one holds both, one the second), all of them usable or some or none of a version, two settings (trials run and asked for, or neither), two gradings, one deletion of the target, two reviewers at once and a third request; three APIs in a chain of two dependencies, batches of two; three titles of which the middle is like both others, two stocks of entries | versions: `AcceptedIsApplied`, `OnlyChosenLands`, `AutoHasEvidence`; dependencies: `BatchesFollowClusters`, `RefusedStaysOut`; knowledge: `TopicSurvives`, `NoTwinsLeft` |
| `catalog` | three requests, two of one path, one other; every mix of two sources out of HAR whole or torn, stream, spec, form, cURL, capture, edit, recorded flow, user's post; batches of two; one failing call, or one deletion, switch or change of rules | `SameRequestOnce`, `StoredIsSent`, `ReportedOnce`, `BlockedStaysOut` |
| `scenario_store` | every document of start, end, two calls and a condition with all parents and the dependencies that matter, and some whose markers bear other names, put to the validation; every answer of up to three generated steps, put to the repair; a few documents under three requests and batches of two under one slot; one failing call or one restart | `ReplacedIsKept`, `RunningIsUnderway`, `ValidIsRunnable`, `GeneratedIsRunnable`, `BatchesAnswer` |

Why these bounds are enough for the cases to occur. Three steps are the smallest
graph with a chain, a diamond's half, a two-cycle, a self-dependency and an
unknown name. The scenario has both kinds of container side by side in a wave,
a level with two parallel tasks (cancellation through a wave), a level with a
chain, and a step after the join. Two jobs for one API are what is needed for
one job's status to be overwritten by another's; MAX_RETRY 2 (3 in the code)
distinguishes first, middle and last try. The other workers treat jobs one by
one, so one job of each suffices, with a coroutine more than slots. A dead
letter of each of two queues makes the filtered index differ from the raw index;
two coroutines under one slot let one wait while the other runs. Two
loops in one group and another after it show both waits of the shutdown. A
threshold of two separates "at", "below" and "above" within four checks, which
leaves room for a streak, a recovery and a second streak. With two requests a
monitor can be crossed while another is not. Two versions that share a part and
differ in another are what two reviewers can contend for; a chain of three APIs
with batches of two is the smallest cluster that does not fit. Three titles in a
chain are the smallest set where "alike" is not transitive, which is where the
consolidation is hard. Two requests of one path are what the comparison of
newcomers needs, two callers what a duplicate check can be crossed by. Three
requests let a save, a restore and a run of one scenario interleave.

State constraints are not used: all bounds are guards over the constants
commented as *bound*, and these restrictions of `Review`, which keep its three
machines from multiplying: dependencies are at work only beside versions of type
"scenario" and not while one is being applied, the knowledge only beside those
of type "doc", and a version is edited once. What they share (the decay after a
rejection, the entry made of its reason) is inside.

`CHECK_DEADLOCK FALSE` stands in the runs whose system really stops: a scenario
or a sort returns, the bounded jobs, requests and checks are used up, and a
stopped application does nothing. `monitor_schedule` is checked for deadlock.
Symmetry is used where no liveness property is checked: bodies in `monitor`,
coroutines in `dlq_admin` and all three sets in `monitor_schedule`.

The violating run, `review_downstream`, is in section 6.

Each module states more than its run checks: the type invariants (`TypeOK` of
AiWorkers, DagEngine, DlqAdmin, JobQueue, Monitor and TopoSort, `ScheduleTypeOK`,
`ShutdownTypeOK`) and the invariants below. They hold on the same
instances; put the name into the cfg to see it. `BackToItsQueue` (a retried
letter goes back to the queue it came from), `DependencyOrder`, `PassedMeansClean`
and `FailureHasCause` of the engine, `DegreeCountsUnscanned`, `DependenciesFirst`,
`OutcomeExact` and `Terminates` of the sort, `CountIsStreak`, `AlertsAreEarned`,
`RecoveryWhenBack` and `ReportIsNotStale` of the monitor, `ReviewHasVersion` and
`OneVersion` of the workers, `TemplateKeepsFields` of the review, `SentIsStored`
of the catalogue, and the action property `DeletedStaysOut` of the scenarios.
`PlaceholdersGo` of DlqAdmin holds under `FairSpec` without crashes only: after a
crash behind the LSET the placeholder stays for ever.

What the conditions in the properties mean:

* `ShownBusyIsBusy` and `NotedFirstIsShown` are about executions without a
  crash: after one, a status can be stuck, because no code repairs it.
* `NotedFirstIsShown` is restricted to the HAR import because the other
  handlers push the message before they note the job, and the note can then
  overwrite "dlq" with "queued". It also exempts a job whose last retry was taken
  up before the coroutine that pushed it had noted it (`Outrun`): the late note
  "retrying" (`analyzer.py:2882`) can come after the "dlq" of the coroutine that
  gave the job up.
* `TargetsSettle` speaks of the target, not of `ai_jobs`: a difference whose
  record or API is gone, an analysis skipped and assertions kept leave the job's
  record at "running" for ever. An execution may stay "queued", which the engine
  writes after the push and the note.
* `OnePlace` and `ActsOnTheOneSeen` are about requests that do not cross
  (`crossed`); two that do are the subject of `MCDlqAdminNamed.cfg`. A job that a
  crash took out of a worker's or a request's hands is lost in the code; `OnePlace`
  counts the loss as its place.
* `ShownDeadIsDead` exempts jobs (`silent`) that went by index, in place of another
  or in a crash, since no handler notes these, and jobs whose retry came
  between the push of their letter and its note (`analyzer.py:2907`, `:2908`): the
  late note overwrites the retry, until a worker runs the job.
* `PageNamesEachOnce`: a job without a record (a letter of the old format, retried
  by index) that was popped and waits for a slot is in no store, and no page can
  name it.
* `BuriedForCause` says less of the document, assertion, template and alert workers,
  where a rate limit costs a try (section 6), than of the four others.
* `CountIsStreak`, `AlertOnStreak`, `RecoveryWhenBack` and `OncePerWindow` are
  about checks that did not overlap and whose calls were answered: increments
  are lost otherwise, and the mark is set after the notice is sent. The first one
  allows a crash anywhere. `AlertsAreEarned`, `SentIsRecorded` and
  `ReportIsNotStale` hold for overlapping checks too.
* `QuietAfterVerdict` exempts the steps below a cancelled container, which do go
  on (section 6).
* `AcceptedIsApplied` speaks of the parts `apply_version` can use: a version of
  scenarios of which it can use none is accepted with nothing inserted. It exempts
  versions whose target is deleted while they are under review (`deleted`), and a
  deleted template that two requests recreate at once, of which one copy is never
  read. `OnlyChosenLands` exempts scenarios, whose acceptance in part inserts all.
  `TemplateKeepsFields` exempts requests that merged at once (`crossed`): the later
  write undoes the earlier; and deletions.
* `AutoHasEvidence` asks for a trial where `auto_review_trial_required` is set, as
  the code does, and for a sound structure at thresholds above 40 %.
* `RefusedStaysOut` exempts who had read the edge before the refusal.
* `TopicSurvives` exempts two consolidations at once, and edits during one
  (`mingled`): between them a whole topic can go. `NoTwinsLeft` is about
  consolidations that nobody disturbed.
* `SameRequestOnce` is about the four places that share a fingerprint. OpenAPI
  hashes the operation (without its server), recorded traffic puts the project
  in front, a cURL body stays text: a request known from one of those and from
  another source is two APIs.
* `StoredIsSent` exempts failing calls and the OpenAPI insert that the index
  refuses in part: what it stored is never sent (section 6).
* `ReplacedIsKept` exempts crossed writes: two saves of one reading keep one
  version of it, twice, and the document between them is in none.
* `RunningIsUnderway` exempts scenarios (`stuck`) whose single run broke off:
  there the status stays at "running", as no code corrects it.
* `ValidIsRunnable` has no condition where it says that the search finds a cycle
  exactly when there is one. That what validates can be sorted needs dependencies
  that stay on their level and markers that bear the names "start" and "end".
* `GeneratedIsRunnable` is about answers that are `Sensible`: types that exist,
  parents and dependencies that name earlier steps of the answer, and names that
  are neither reserved nor made up for a nameless or repeated one (`api_2`, `a_2`,
  and `step_1` for a container). For the engine there must be no call in a
  container either.
* Without these conditions both fail, and section 6 says how.

## 4. Fairness

* `TopoSort`: the function runs to its end.
* `DagEngine`: weak fairness of the next-state relation. The event loop runs
  what is ready, every call has a timeout (`httpx` client timeout) and every
  back-off a length; no choice among ready coroutines has to be fair for a run
  to conclude.
* `JobQueue`: each coroutine is weakly fair. A coroutine's longest wait is the
  600 s timeout; the semaphore wakes its waiters. Handlers, crashes and reviewers
  are not fair: they need not happen, nor go on.
* `AiWorkers`: the same, with strong fairness of the one step that takes a
  slot: `asyncio.Semaphore` serves its waiters in turn, so a coroutine is not
  passed over for ever when slots come and go. Deletions, reviewers and users
  are not fair.
* `DlqAdmin`: a request, once it is made, is served.
* `WorkerShutdown`: the tasks run on and a shutdown that began goes on; that
  it begins, and that Redis answers or fails, is up to others.
* `ScenarioStore`: weak fairness of what a batch can do: the loop does not rest
  while a member can go on, and an execution of the engine ends (`Concludes`).
* `Monitor`, `MonitorSchedule`, `Review`, `Catalog`, `Traffic`: safety only.

## 5. The proofs

All theorems hold for every value of the constants, from the named assumptions
of the modules only (`SortAssumption`, `StepsAssumption`, `EngineAssumption`,
`MaxRetryAssumption`, `QueueAssumption`, `WorkersAssumption`, `ShutdownAssumption`,
`ScheduleAssumption`, `MonitorAssumption`, `RepairAssumption`, `StoreAssumption`,
`CatalogAssumption`, `AdminAssumption`, `DependencyAssumption`, `KnowledgeAssumption`,
`ReviewAssumption`;
TLC evaluates them in the runs).

* **DagEngine_proofs.** Every action is one of seven kinds of step of one run
  (`NextIsAStep`): a run starts, is refused or does its books; a task acts; a
  container opens its level; a level advances to its next wave; a level shuts,
  cancelling some tasks. The inductive invariant `Sound` says of tasks and levels
  together: the top level is open while the run is in its waves (`Booked`); a
  container is "inside" exactly while its level is open (`Begun`); a live task is in
  the wave of an open level or below a cancelled container (`Held`); a failure is
  in the wave still, or has failed its container (`Noticed`); the steps of earlier
  waves ran and what they extracted is in the context, which a condition container
  shares with the level around it (`Orderly`, `HomeOk`). `ConditionsSee`,
  `DependenciesFirst` and `NothingRunsOn` follow. For `PassedIsClean`, a live or failed
  step is in a live or failed container, so such steps would have to go on
  upwards for ever (`NoEndlessClimb`), or up to a top-level step, which passed
  (`Told`). `TheEngineKeepsItsPromise` maps each kind of step to a step of
  ScenarioRun or a stutter, and `StepsInOrder`, `PassedIsTrue` and `VerdictIsFinal` are
  what that gives (`TheEngineIsOrderlyAndFinal`). `PassedIsComplete` is the only one
  with a condition on the behaviour, `TakeTurns`: no execution starts on an engine
  while another one there is between its start and its end. Without it the property
  fails, since the children map is the engine's (section 6, `engine.py:909`);
  the singleton engine of single runs and of monitors does not guarantee it. Where
  no two runs share an engine it holds of itself, and so does
  `ContainersKeepChildren` (`OwnEngineOwnChildren`).
* **JobQueue_proofs.** `Custody` says that a message is in one place: on its way,
  in a queue, in one coroutine's hands or with the dead letters, and with what
  number of failures. With it every step is a step of JobLife or a stutter
  (`TheQueueKeepsItsPromise`). That JobLife bounds the tries is not inductive, as
  nothing that takes a job looks at them; `LifeTally` relates `tries`, `fails` and
  the place of a job, and `TriesAreBounded` and `DeadHaveTriedAll` follow;
  `LossIsOutOfHands` is an action property. `TheQueueWorksAsPromised` has all three
  for the code. `BusyIsTrue`: an API shown busy has a job that carries the status,
  and who takes the job away hands the status over (`HandsOver`). `GivenUpIsShown`
  needs that a coroutine's last note is not outrun; the attempt to prove it
  without that failed with two coroutines under two slots, and TLC found
  the behaviour once the run had two slots (`NotedFirstIsShown` in section 3).
* **Monitor_proofs.** `WhatWasSentIsRecorded`: the property `SentIsRecorded`, for
  any number of checks, any overlap and any troubles. Between its record and
  its end a check means one notice, which is in the records unless a call failed
  and, after `Push`, among those sent; the invariant `Records` says so of every
  place a check can be in. `AnAlertEndsAStreak` and `OneAlertAWindow`: the properties
  `AlertOnStreak` and `OncePerWindow`. As long as no checks overlapped and no call
  failed, the counter in Redis is the length of the last streak of the history, at
  each point of the one check under way, and a mark is set for every alert of
  the window. `ARecoveryEndsAFailure` (`RecoveryWhenBack`) adds that the previous
  verdict in Redis is that of the last check that wrote one (`Mindful`).
  `TheCountIsTheStreak` (`CountIsStreak`) allows crashes: the checks that counted
  form a line (`InLine`), an interrupted one is not in it although what it stored
  may be a baseline, and the counter is the number of counted checks at its end
  that are bad. Two hold for overlapping checks as well: `AnAlertIsEarned`
  (`AlertsAreEarned`), since no count exceeds the number of failed or differing
  checks that had read one (`Earned`), and `AReportIsNotStale`
  (`ReportIsNotStale`), since a check past its call has an execution in the
  database unless the process died.
  Of MonitorSchedule, `KeptInStep` is the property `InStep` of its run, for any finite
  set of monitors within the load limit. The invariant says of every monitor that
  was not crossed that it either rests and runs as stored, or exactly one request
  works on it and what that request has done so far (`Between`, one clause for each
  half-way point of a handler) is what its remaining steps need.
* **ScenarioStore_proofs.** `WhatIsReplacedIsKept`: the property `ReplacedIsKept`,
  for any requests. Between keeping a version and writing the document, what a
  request read is in some version of its scenario (`WritersKept`), and no step
  takes one out; a document that changed meanwhile is the property's exception.
  `WhatRunsIsUnderway`: the property `RunningIsUnderway`. A run shows itself only in its
  own scenario, and a request that has not begun has no run under way
  (`NoneBefore`), so that no request restarts a run that a status relies on;
  the rest of the invariant (`Showing`) says of what shape the data are.
  `WhatIsDeletedStaysOut`: the action property `DeletedStaysOut`.
  `WhatValidatesRuns`: the property `ValidIsRunnable`. The search is a function of
  the path it stands on; what it finds is given in closed form (the steps of the
  path, and those that reach one of them or a cycle), and that the closed
  form satisfies the equation of the search, and alone does, takes the finiteness
  of the document (`SearchExists`, `SearchIsUnique`, `CyclesAreFound`). That every
  document is finite, the stored, the kept and those in a request's hands, is the
  invariant `DocsListed`. `WhatIsGeneratedRuns`: the property `GeneratedIsRunnable`.
  The answer is absorbed step by step, and `Sane` says of the document made of the
  first n steps that parents are containers, that each step depends on steps
  before it and on its level, and whose names are whose; the numbering of
  repeated names ends, and on a new one, since there are only so many before it
  (`FreshIs`). The attempts showed that an earlier wording, too weak about
  names, was false for longer answers and for other documents than the run
  had: a step that merely bears the name "start" in a cycle, a container named
  "end", a name that is also made up for another step. Hence the conditions in
  section 3; the run now has these cases.
  Of TopoSort, `TheSortIsAWaveOrder`: the refinement `ImplementsWaveOrder`,
  for every finite level and every graph, with names repeated in a list. The
  in-degree of a step is the number of its edges from steps that were not scanned
  (`DegreesAreTrue`; an edge counts as often as its name is repeated, in the
  initial count and in the decrements alike), so a step joins the next wave
  exactly when all it waits for was scanned. The groups are pairwise apart, which
  is why comparing the sum of their sizes with the number of steps (`SizesTell`)
  finds every cycle. Opening a wave is then a round of WaveOrder, a scan a stutter.
  Of WaveOrder itself, `DependenciesAreFirst` is by induction over steps: a newly
  placed step's dependencies are all placed in earlier rounds. `OutcomesAreExact`
  needs a strengthening: a "knot", a set of steps each of which waits for
  another of the set, is never entered; so when everything is placed there is no
  knot, and when nothing more can be placed the unplaced steps are one.
  `TheSortKeepsItsPromise` has both for the code.
* **AiWorkers_proofs.** `BuriedWithCause`: the property `BuriedForCause`, for any
  jobs of any kinds, coroutines, slots and tries. The number on a message is the
  number of failures that its worker counts (`Blamed`), wherever the message is
  (`Tally`). That needs a
  job to have one message at most, in the list, with the dead letters or in one
  coroutine, and none before it is sent (`OneMessage`); and the numbers of the
  batches stay in range because one is left while one is under way (`BatchLeft`).
  `ConcludedOnce`: the further invariant `OneVersion`, on top of that. While the message of a
  difference or an execution can still be worked on it has no version, and from
  where one was inserted no failure leads back (`Single`); that only one
  coroutine inserts is `OneMessage` again. `WhatIsLeftIsSettled`: the property
  `TargetsSettle`. A target that says it is worked on has a message on its way, in
  the list or in a coroutine's hands, or a coroutine that gave the job up and is
  about to say so (`Carried`, `Mourned`); the target of a difference nobody judged
  may have its message in the dead letters instead; and a coroutine that has told
  the end has a settled target (`Settling`). `WhatIsShownIsThere`: the further
  invariant `ReviewHasVersion`, from what a coroutine that saved something has
  inserted (`Supplied`).
  Of WorkerShutdown, `NoLoopIsLeft` and `AtMostOneIsLost` are the properties
  `ClosedUnderNoLoop` and `LossBounded`, for any groups of loops. The invariant adds
  that a task outlives its loop, that the groups the handler has passed have ended,
  and that messages are accounted for (without which the type invariant is not
  inductive).
* **Traffic_proofs.** One invariant (`TrafficInv`) carries five properties, for any
  requests at once and any files, specs, captures, posts and flows they bring.
  `OncePerRequest` (`SameRequestOnce`): what is stored keeps the hash it came with and,
  until somebody edits it, its request (`Honest`); two stored hashes differ, as
  every insert, single or by batch, passes the index, however long ago the
  sender had looked. `AllSent` (`StoredIsSent`): what a caller has stored and not
  sent is among the ids it still carries (`Owe`), place by place along its
  handler, the recovery after a refused bulk insert included; only a failing call
  or the index's refusal of an operation lets go of some. `NoStraySend`
  (`SentIsStored`): what a caller carries to be sent was stored, until it guesses ids
  from hashes (`Told`). `OneReport` (`ReportedOnce`): what a caller has reported is
  none of what it has yet to compare (`Rep`); for a streamed file this takes the
  position it has read to, since each batch is compared on its own. And `BlockedOut`
  (`BlockedStaysOut`): a flow that was not posted left no trace, and one the proxy
  hid is over, or is at its response and marked to be skipped there (`Outside`), so that rules
  changed in between cannot bring it back. The lists of the code are
  comprehensions; `InOrder` (the positions that satisfy a condition, in their
  order) and `Of` define them without recursion, and `InOrderIs` and `ChosenOf`
  are what they promise: exactly these elements, each as often as before.

* **DlqAdmin_proofs.** One invariant (`DlqInv`), in seven parts, carries five
  properties, for any jobs, administrators, coroutines, slots, requests and crashes. `InOnePlace`
  (`OnePlace`): while requests do not cross there is one at most (`Alone`), the
  element it overwrites is the letter it read, and from there to the RPUSH the job
  is in its hands alone; that the placeholder is no job, and goes by its value
  and not by its place, is why the workers' appends do not matter (`ShrunkIs`,
  `PlaceMark`, `PlacePush`). `TheOneSeen` (`ActsOnTheOneSeen`): an append
  leaves every position of every listing as it was (`ListedGrows`), and only
  another request could shift one (`Aim`). `PageIsWhole` (`PageNamesEachOnce`):
  between its readings, a job the page has not named lies before it, in a queue or
  a letter it has yet to read, or was taken by a worker and has a record since
  (`Ahead`), or waits for a slot (`Waits`); who runs has a record (`Recorded`), so
  that the next push of a worker brings none without one. Two hold although requests cross. `DeadIsDead`
  (`ShownDeadIsDead`): a retry that meets another letter than it was asked for
  says so in `silent`, and otherwise holds what it was asked for (`Retrying`); a
  worker's late note finds the letter, the retry that holds it, or a job that has gone
  on, which it then adds to `silent`. `BackHome`
  (`BackToItsQueue`): a letter without a target queue goes to the queue
  under which the request listed it. That is right because the old format stopped being
  written before the new one began, so all such letters stand before all others,
  whatever is taken out (`OldFirst`): from where a request for another queue
  points, the list only holds letters that name theirs, however far it
  has shifted meanwhile (`Bound`).
* **Review_proofs.** One invariant (`ReviewInv`) carries four properties, for any
  versions of a type, parts, grades and reviewers at once. Where a request stands tells
  what it may still apply and what of it has landed (`Fits`): of a list, everything
  that it could use and no longer has to insert; of a version that it is about to call
  accepted, all usable parts in the revision it loaded, unless the target was deleted. What landed is never taken back
  (`Grows`), so that another request's edit, or a failure, does not undo it, and a
  version that says accepted has landed whole in some revision (`Honest`). With that
  `WhatIsAcceptedIsApplied` and `NothingElseLands` follow, and `TheSystemHasEvidence`,
  since a request in the name of the system past its decision has a version that
  passed a trial, if the settings ask for one, is not of high risk and, when the
  threshold is above 40 %, passed gate 0 (`Evident`; `SoundOrDoubted` is the arithmetic
  of the score, its vote rate of 0 read as 1 included). That the target is there
  until somebody deletes it, unless it is a template nothing has landed in, is
  `TargetInv`. `TemplatesKeepFields`: while no two merges crossed and nothing was deleted, one request at most is between its reading and its write, and
  what it read is still there (`Alone`).
  Of Dependencies, `OnlyAPersonBringsBack` (`RefusedStaysOut`): a merge leaves a refused
  edge refused, whatever it adds, so that only a write computed from an earlier
  reading, a decay, or a person can bring one back (`EdgeInv` for the shape of
  what requests hold). And `BatchesFollowTheGraph` (`BatchesFollowClusters`), for any
  finite set of APIs, any graph and any batch size. Between two turns of the search the
  stack and the component are disjoint, without repetitions, inside the cluster of the
  first API, and hold with the older clusters all that is seen (`Searching`); each turn
  makes the component longer by one, so that after as many turns as there are APIs the
  stack is empty; the component is then closed under edges and lies inside the
  cluster, so that it is the cluster (`ExploreIs`). The clusters found are whole, apart from one another and
  cover all APIs with an edge (`ComponentsAre`); every position of a list is in
  one cut of it (`CutsAre`), and a list that fits is its only cut (`SplitFollows`).
  Of Knowledge, `WhatWasLearnedStays` (`TopicSurvives`) and `NoTwinsAreLeft` (`NoTwinsLeft`).
  What the two loops of a consolidation decide (`ConsolidatedIs`) is proved over
  their recursive functions, by the least lap at which it would fail (`Least`,
  `LapsExist`): each entry it removes has one of its topic that stays, though it may
  have been merged into another that was removed later; and of those that stay no two
  are alike, though an entry removed in the inner loop goes on being compared. As
  long as no two consolidations cross, one at most is under way and nothing else
  removes an entry but a person, so the one that replaces an entry is still there when
  it goes (`MergesReplace`), whatever stale copies are written meanwhile.

All three refinements are proved, so what the abstract specifications promise
holds of the code's modules for every value of the constants.

Only model-checked: all liveness. Liveness under fairness and ENABLED are outside
what the prover can do, as are induction principles with an operator parameter;
where a theorem needs an induction over data, it is made by hand over the numbers
up to a bound (`Least`), over functions shown to exist (`StepsExist`, `LapsExist`).
No module uses RECURSIVE operators.

## 6. Where code and words disagree

| configuration | words | what happens |
|---|---|---|
| run `review_downstream` (`MCReviewDownstream.cfg`) | `analyzer.py:891`: accepting a scenario triggers the template and the monitor generation | `analyzer.py:910` reads a field that versions do not have; the exception is logged and nothing is ever sent |
| `MCReview.cfg` with `MergedKeepsSources` | `knowledge/service.py:475`: a merge keeps the sources of both | of three titles alike a keeper's second merge overwrites the first, and an entry already merged away can be the keeper of a third: sources vanish |
| `MCDagEngineShared.cfg`, `ContainersKeepChildren` | `engine.py:877`: concurrent executions do not overwrite instance state | they do (`engine.py:909`), with two monitors on the shared engine (`monitor.py:68`): a container finds none of its children and passes |
| `MCJobQueueLimited.cfg`, `RateLimitsBuryNone` | `analyzer.py:2206`: a rate limit does not count as a failure | the exception is swallowed below that handler (`analyzer.py:1299`); the job is given up |
| `MCAiWorkers.cfg` with `RateLimitIsFree` | `analyzer.py:2281`, `:2356`: a rate limit does not increase `fail_count` | `analyze_doc` and `analyze_asserts`, the template generator and the alert assessment swallow the exception and answer that they failed: the worker counts it, and rate limits alone bury the job |
| `MCDlqAdminNamed.cfg`, `RetriesTheNamedJob` | `dlq.py:589`: retry by job id | the id becomes an index (`dlq.py:205`), another administrator shifts the list, another job is retried |
| `MCWorkerShutdownSupervised.cfg` | `analyzer.py:2128`: supervisors leave on the shutdown signal | the loop swallows the signal, the supervisor awaits a finished coroutine for ever (`analyzer.py:2136`) |
| `MCMonitorChange.cfg`, `ChangeIsReported` | `README.md:21`: changes of responses are detected and alerted | the changed response becomes the next baseline (`monitor.py:552`); with a threshold above 1 it is never reported |

Each of these configurations shows its counterexample with
`tlc -config <configuration> <module>`; `MCReview.cfg` and `MCAiWorkers.cfg` when the
named invariant takes the place of their own.

Met while modelling, modelled as the code has them, without a configuration of
their own:

Engine, queues and workers

* `engine.py:958` says a failing step cancels its siblings; only an exception does.
* `engine.py:994` says all unfinished tasks are cancelled; the children of a
  cancelled container, run as tasks of an inner wave, go on.
* `engine.py:1811` says an unexpected exception is not retried; it is.
* `api_service.py:794` skips APIs analysed within five minutes by a field,
  `analyzed_at`, that nothing writes.
* `analyzer.py:2873`: the requeued message of a forced job no longer has `force`, so
  its retry is skipped where the first try was not (`analyzer.py:2175`). So it is
  in the document and assertion workers.
* A worker's late `mark_dlq` (`analyzer.py:2908`) overwrites the note of a retry that
  was made since the letter was pushed (2907): a job in its queue is shown as dead.
  A job without a record that was popped and waits for the semaphore is on no page.
* The rate limit branches of the document, assertion, template and alert workers
  are never reached (`RateLimitIsFree`, above); the monitor worker's also takes every other error of the
  language model's API and never counts it, so that such a job is tried for ever.
* The 600 s timeout can strike after the version was inserted: the retry inserts
  a second. A retried scenario job generates again the batches it had saved.
* The evaluator of differences writes its verdict over one a person gave
  meanwhile; the generators write "pending_review" over "applied".

Review and knowledge

* The comment at `generation_version.py:38` gives an order of the statuses that no
  handler enforces: a rejected version can be accepted.
* An acceptance in part that names nothing is one in full
  (`generations.py:508`, `:530`); of a scenario any acceptance in part is.
* `quality_gate.py:37` takes the second gate's result for the first's, and the
  third gate, which nobody runs, scores 0, so no version reaches the default
  confidence of 0.7. The model uses 0.6. A vote rate of 0 is falsy
  (`quality_gate.py:46`) and scores as 1: a version that every vote refused is as
  sure as one that every vote approved.
* `auto_review_trial_required` can be switched off (`quality_gate.py:108`): the system
  then accepts scenarios that were never tried.
* `apply_version` passes over scenarios and monitors that are no objects, fields
  without a name and monitors of no valid target (`analyzer.py:709`, `:738`, `:796`,
  `:804`) and says nothing: the version is accepted, a version of scenarios even when
  nothing of it was inserted.
* The update of a document or of rules (`analyzer.py:675`, `:691`) whose API was
  deleted, or of a template deleted since it was read, matches nothing; nobody looks
  at the count, and the version is accepted.
* A trial may be of a content that was edited meanwhile. Two acceptances of one
  version insert its scenarios or monitors twice.
* Rejections in a batch neither weaken edges nor teach. The reason of a second
  rejection of one type and API is dropped, since the upsert merges only sources,
  tags and confidence.

Catalogue

* `import_openapi` (`apis.py:325-362`) uses a name, `db`, it does not define (353):
  after everything is stored and sent the request fails, and the comparison that
  the docstring at `apis.py:71` promises never runs. `POST /apis/{id}/asserts`
  fails likewise (`apis.py:660-670`).
* The duplicate check of a HAR file asks the database only: a file that holds a
  request twice has its insert refused in part, and the recovery
  (`parser.py:544-555`) names ids that were never stored.
* An OpenAPI insert that the index refuses leaves the part already stored unsent
  and unanalysed.
* An edited API keeps its old fingerprint. APIs from a HAR file, a capture or the
  proxy do not show that they are queued.
* An analysed API compared with a newcomer that has no document yet reports every
  documented parameter as removed.
* A failed fetch empties the proxy's rules for ten seconds, so what they hide is
  recorded again. What the proxy records of a modified response is the modified
  one. The preview of rules in the front end judges by other rules than the proxy.

Scenarios

* The repaired `end` depends on every call, those inside containers too
  (`analyzer.py:1952`, `:1962`), and the engine's top-level sort refuses what is
  not of its level (`engine.py:1833`): generated scenarios with a call in a
  container validate and never run.
* A step that is neither start nor end but bears such a name is searched by the
  validation and ignored as a dependency by the engine, so a cycle through it
  is refused though it could be sorted.
* The validation accepts dependencies that cross levels, rings of parents
  (`scenario_service.py:283-294`), and cycles through start and end nodes that
  are named otherwise.
* `scenario_service.py:126` and `:170` promise that every overwritten document can
  be restored; two saves that cross lose one.
* A single run that raises leaves its scenario at "running"
  (`scenario_service.py:433`; batches correct it at 497); a restore and an import
  write "running" from the past. A restore of a deleted scenario answers that it
  was restored.
* A member whose scenario cannot be read (`scenario_service.py:464`, before the
  `try`), or whose rescue cannot be written, ends the answer of a batch while the
  others go on.

Monitors

* Run-now reports the newest record of the target, which may be of another check,
  and shows an earlier execution when the monitor is silenced and no check is made.

## 7. What is not modelled

* Inside the modelled parts: assertion operators, substitution of variables,
  scripts and SQL steps of a call; the wording of prompts and alerts; web
  socket broadcasts and logs (no state depends on them); the summary of the
  queues and the page limit of the dead letters; failing writes of MongoDB and
  Redis in JobQueue (crashes are modelled); the `process_one` tasks that are
  still running at shutdown; crashes in AiWorkers (JobQueue has them, and the
  loops are the same); the analysis job that a diagnosis of a changed API may
  send (`failure_diagnoser.py:437-480`); the job of a monitor that a review
  inserts (MonitorSchedule has the registration); the memory of a project and
  the audit log beside a review; which entries a prompt quotes and how often,
  and the implicit feedback (`_record_user_feedback`), which has no caller;
  drafts and single calls of an API; the status in the body of a `PUT` of a
  scenario; previews.
* Mock services: matching is a search of one request among stored cases, data
  without a protocol. Managing them is single documents under unique indexes,
  with one gap noted here: a route inserted while its service is being deleted
  (three deletions in turn) is left without one.
* Data factory and SQL runtime: rows and statements for databases outside the
  system, one request each. (`_infer_fields` passes an empty prefix down, so the
  documented limit of three levels never bites.)
* Chat: a list of messages per session, driven by a model's answers; two
  messages that cross lose a round. The tools that write
  (`ai_chat.py:1205-2139`) ask for a permission, `ai_chat:write`, that no role
  holds, and are never reached.
* Bots: the handler uses a class it does not import (`bot_webhook.py:125`), so
  messages never reach the service behind it. Alert channels format and send.
* Project memory, access, projects, settings, observation, statistics, prompts,
  data models, start-up and the front end: documents, aggregation and text,
  written and read by single requests.

## 8. Plan

Done, in this order: the sort and its abstraction; the engine and its
abstraction; the queue and its abstraction; dead letters; shutdown; checks;
scheduling; proofs about the abstractions, the schedule and the shutdown; then
the other workers, the review with dependencies and knowledge, the catalogue with
the proxy, and the scenarios with their validation and repair; last, proofs about
the checks, the scenario store with validation and repair, the other workers, and
the queue, the engine and the sort as the code has them, with the refinements of
JobLife, ScenarioRun and WaveOrder, the catalogue with the proxy, the dead
letters, and the review with the edges and the knowledge.

Every invariant and action property that a passing run checks is a theorem. Left
is what section 7 lists as not modelled.

## 9. How to run

```
tlc -workers 2 -config MCDagEngine.cfg MCDagEngine      # any run of section 3
tlc -workers 2 -config MCTraffic.cfg MCTraffic          # catalog
tlapm Monitor_proofs.tla                                # any proof module
```

Distinct states: `monitor` 4.3 million and `review` 1.2 million (the longest runs, two
minutes and more with two workers), `dlq_admin` 579 000, `catalog` 577 000,
`job_queue` 298 000, `scenario_store` 220 000, `monitor_schedule` 163 000,
`ai_workers` 121 000, `topo_sort` 105 000, `dag_engine` 31 000, `worker_shutdown`
27 000.
