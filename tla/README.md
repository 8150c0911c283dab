# TLA+ models of the integration-service pipeline adapter

This directory holds TLA+ models of `src/controllers/pipeline/pipeline_adapter.go`. That file is the
reconciler adapter of the integration service. When a Tekton PipelineRun completes, the adapter runs
two operations on it:

* `EnsureApplicationSnapshotExists` handles **build** PipelineRuns. It makes sure there is an
  ApplicationSnapshot that holds the image just built next to the current images of the other
  Components of the Application.
* `EnsureApplicationSnapshotPassedAllTests` handles **integration test** PipelineRuns. Once every
  required IntegrationTestScenario has a finished run, it aggregates their task results. It then
  writes the `HACBSTestSucceeded` condition of the snapshot as Passed or Failed.

## 1. Inventory

### Components and their state

| Part | Code | State it touches | Operations |
|---|---|---|---|
| Snapshot Matcher | `EnsureApplicationSnapshotExists` (64-97) and its helpers (212-282, 374-433) | Component images (`Status.ContainerImage`), ApplicationSnapshots, the PipelineRun's status | List Components, compose the pull spec, List snapshots, compare, List Components again, Create, `updateStatus` |
| Outcome Aggregator | `EnsureApplicationSnapshotPassedAllTests` (99-172) and its helpers (174-193, 284-372, 435-517) | Snapshot conditions, IntegrationTestScenarios (optional label), integration PipelineRuns (Succeeded, CompletionTime, `HACBS_TEST_OUTPUT` results) | Get snapshot, List required scenarios, List runs per scenario, reduce outcomes, merge-patch the condition, `updateStatus` |
| Reconciliation orchestrator | the controller and the `results` package (not under `src/`) | the work queue | One worker per PipelineRun, up to `MaxConcurrentReconciles` workers. Event redelivery. `ContinueProcessing`, `RequeueWithError` and `RequeueOnErrorOrStop(err)` decide whether an event is finished or requeued. |
| Object store client | controller-runtime client (external) | all objects | Get, List, Create, Status().Patch, Status().Update. Any call may fail. A Create may fail after the object was stored. Lists by a field index (`client.MatchingFields`) are served from the informer cache. |
| Snapshot GC CronJob | `src/config/snapshotgc/snapshotgc.yaml` | snapshots | Deletes old snapshots periodically. This is configuration only. |
| ServiceMonitor, PR size workflow | `src/unnamed/part_000`, `src/.github/workflows/size.yaml` | none | Monitoring and CI configuration |

### How the parts interact

* Builds and tests share the store.
* The build service records a Component's new image in `Status.ContainerImage`. It does this at
  any time, so it can happen between the two Component Lists the matcher makes.
* Integration runs name their snapshot and scenario in labels. Each run's completion is a separate
  event. Those events are handled concurrently and read and write the same snapshot condition.

### What makes this code hard

* **Check-then-create.** The matcher's search and Create run with no lock or name reservation.
  `GenerateName` gives every snapshot a fresh name, so two workers, or one worker whose Create
  failed after storing, can create the same image combination twice.
* **Two prepares.** The snapshot searched for (line 235) and the snapshot created (line 423) come
  from two separate Component Lists.
* **Swallowed errors.** Several error paths return `RequeueOnErrorOrStop(a.updateStatus())`.
  `updateStatus` writes the PipelineRun unchanged, so when that write succeeds the event stops and
  the original error is lost.
* **Unversioned status patch.** `client.MergeFrom` carries no resourceVersion. A worker that read
  the snapshot and the runs earlier can overwrite a newer verdict.
* **Selection.**
  * The triggering run is used for its own scenario as it is. It is not required to have succeeded
    or to be the latest.
  * Other scenarios use the latest *succeeded* run, compared by `CompletionTime` at one-second
    resolution with a strict `After`.
  * `TaskRuns` is a Go map, so the first failing or malformed result found depends on the
    iteration order.
* **Permanent input errors** (a missing `IMAGE_DIGEST`, a missing snapshot label) go through
  `RequeueWithError` and are retried forever. `agg_unlabelled` shows this for the test path. The
  digest-less build b4 of the matcher model takes the same path in `matcher_serial`.

## 2. Modules

| Module | Models | Composes |
|---|---|---|
| `SnapshotMatcher` | the build path, the build service writing Component images, Components joining the Application, the work queue and the store failures | `SnapshotRegistry` (as an `INSTANCE`, for the refinement) |
| `SnapshotRegistry` | the abstract promise of the matcher (design §3 and §4.2). It has no store calls and no handler steps. | none |
| `MC_SnapshotMatcher` | model values: Components cA and cB, plus cC, which may join later. Four builds: b1 and b2 for cA and cB, b3 a rerun of b1 that built the same image, b4 a build with no digest. A Port variant puts cB in a registry addressed with a port. | `SnapshotMatcher` |
| `OutcomeAggregator` | the test path, Tekton finishing runs, the work queue and the store failures | none |
| `MC_OutcomeAggregator` | three scenarios (S1 with no optional label, S2 `optional=true`, S3 `optional=false`) and three runs (r1 and r3 for S1, r2 for S2). `MCOptionalLabelsNoneRequired` also allows the labelling in which every scenario is `optional=false`. | `OutcomeAggregator` |

### SnapshotMatcher

Each build `b` has an event whose `pc[b]` steps through the handler. `pc[b]` takes these values:

* `running`, `queued`;
* the handler states `findComponents`, `findSnapshots`, `prepareCreate`, `create`, `updateStatus`;
* `done` for ContinueProcessing and `dropped` for a stop after the status update.

`Dequeue` starts a handler when fewer than `Workers` handlers are busy and no other worker holds
the same key. `Redeliver` puts a finished event back in the queue, up to `MaxRedeliveries` times.
`StoreCallFails` lets any store call fail, up to `MaxStoreFailures` times.

Each action corresponds to one store call of the code:

| Action | Code |
|---|---|
| `FindComponents` | `findMatchingApplicationSnapshot` 233-238 (first prepare) |
| `FindSnapshots` | 239-250 plus `EnsureApplicationSnapshotExists` 70-82 |
| `PrepareCreate` | second prepare, 423 |
| `Create` | 427-433, 83-95. A failed Create may still have stored the object. |
| `UpdateStatus` | 87, 519-522 |
| `RecordImage` | the build service |

Data is abstracted as follows:

* `IMAGE_URL` is a record of its parts: registry, port (`""` if none), repository path and tag.
* A pull spec is the pair (repository, digest). `getImagePullSpecFromPipelineRun` takes the text before the first `:` of `IMAGE_URL` (`FirstField`), which is what `strings.Split(outputImage, ":")[0]` returns.
  * Without a port, that is `registry/repository`.
  * With a port, it is the registry host alone.
* `PushedImage(b)` is the image the build really pushed: the URL without its tag, plus the digest. The build service records this image on the Component (`RecordImage`).
* A snapshot is its sequence of (Component, pull spec) pairs, in the order of the Component List. Each List may return any order (`SetToSeqs`).
* `compareApplicationSnapshots` is translated as length equality plus membership of every expected pair.
* `getAllApplicationSnapshots` lists by the `spec.application` field index, which the client serves from its informer cache. The client's setup is not under `src/`. That the List is cached is inferred from the field selector, which controller-runtime resolves through a cache index.
  * Snapshots are only appended, and the watch delivers them in creation order. So the cache holds a prefix of the list, and `cached` is that prefix's length.
  * `SyncCache` is the watch delivering the next snapshot.
  * With `CacheLag = FALSE` the List reads the store directly. `matcher_concurrent` and `matcher_cache_lag` set it to TRUE.
* The Application's Components are the variable `present`. `AddComponent` adds one, and every Component List reads `present` at the time of the call.

### SnapshotRegistry and the refinement

`SnapshotRegistry` is an append-only list of snapshots. Its actions are:

* `Record` puts an image in a Component's history.
* `CreateFor(b)` appends a snapshot that pairs every current member of the Application once with an image from its history. The build's Component gets the build's image. The event may be reported handled in the same step.
* `Finish(b)` reports an event handled once some snapshot holds its image.
* `Join` adds a Component, and `Reopen` is a redelivery.

Deduplication is not part of the promise, because the design disclaims the atomic check-and-create.

`SnapshotMatcher` instantiates it as `Registry`. The refinement mapping is:

* `BuildImage` is the image each build pushed (`PushedImage`), not the pull spec the adapter derives from it;
* `history` is the initial image plus the images of the recorded builds;
* `members` is `present`;
* `done` is the builds whose `pc` is `done`.

`ImplementsSnapshotRegistry == Registry!Spec` is checked as a `PROPERTY`.

### OutcomeAggregator

* `Complete(r)` is Tekton finishing run `r`. It sets the run's status (`StatusChoices`), the set
  of task results its TaskRuns hold (`ResultChoices`), and a completion time that is either the
  clock or one second later. This lets two runs finish in the same second.
* The scenarios' optional labels are the variable `optionalLabel`. Init chooses it from `OptionalLabels`, and no action changes it.
* The handler states are `getSnapshot`, `listScenarios`, `listRuns` (one action per scenario
  resolved), `evaluate`, `patch` and `updateStatus`.
* `getLatestPipelineRunForApplicationSnapshotAndScenario` is translated as its loop.
  * `LaterSucceeded` is one iteration: keep a run whose Succeeded condition is true if there is no latest yet, or if its time is strictly later.
  * `LatestPipelineRuns(s)` folds it with `FoldLeft` over every order the List may return (`SetToSeqs`).
  * `LatestCandidates`, the set of maximal succeeded runs, is the reference definition that `LatestWins` compares the loop against.
* `calculateIntegrationPipelineRunOutcome` returns the set of outcomes that some Go map
  iteration order can produce:
  * `error` if some result is malformed;
  * `fail` if some result is neither SUCCESS nor SKIPPED;
  * `pass` if neither.
* `PatchedVerdict` models the merge patch:
  * If the copy read already holds the condition, the patch is empty and the stored verdict stays.
  * Otherwise the patch overwrites the stored verdict, whatever another worker wrote since.

## 3. Runs

The cfgs all declare their constants as model values and run `Spec`. They set
`CHECK_DEADLOCK FALSE` because the controller really does stop: once every event is handled it
waits for the next event.

| Run | Expect | What it shows |
|---|---|---|
| matcher_serial | pass | `TypeOK`, `NoDuplicateSnapshots`: with one worker and stable images, builds, a rerun and a digest-less build never create two snapshots of the same combination, while cC joins. This holds through failures after storing, redelivery and any List order. 2.2M states, 35 s. |
| matcher_concurrent | pass | `DoneImpliesSnapshot`: an event that ended with ContinueProcessing left a snapshot holding its image. `EventHandlingTerminates`: the handling of every build that reports a digest ends, although b4 (no digest) is requeued by every attempt and keeps taking workers. `ImplementsSnapshotRegistry`, with a fixed Component set: every snapshot created pairs each Component with an image it has had and the build's Component with the image the build pushed, and snapshots are never changed. A Component joining would break it (see §4). Builds b1, b2 and b4, two workers, image recording, a lagging snapshot cache, 1 failure, 1 redelivery. |
| matcher_cache_lag | violation | `NoDuplicateSnapshots` fails with one worker. b1's snapshot is created, the event is redelivered, and the snapshot List is served from a cache that has not yet received the snapshot. The redelivered event then creates it again. |
| matcher_stale_prepare | violation | `NoDuplicateSnapshots` fails with one worker when an image is recorded between the two prepares. |
| matcher_lost_build | violation | `BuildEventuallySnapshotted` fails: a failed create and a successful `updateStatus` drop the build. |
| matcher_registry_port | violation | `ImplementsSnapshotRegistry` fails: cB's IMAGE_URL is `registry.svc:5000/ns/b:v2`, and the snapshot records `registry.svc@sha256:b2`, which is not the image the build pushed. One worker, no failures. |
| agg_concurrent | pass | `TypeOK`. `VerdictJustified`: a written verdict is the reduction of one finished run per required scenario (`Resolutions`). So Passed needs a passing run for every scenario, Failed a failing chosen run, and no verdict is written before every required scenario is resolved. `EventHandlingTerminates`. Two workers, failing and malformed results, an unlabelled run, 1 failure, 1 redelivery. About 1.1M states in 2 minutes. |
| agg_complete | pass | `VerdictEventuallyWritten`: once some run has finished and every required scenario has a finished run, the snapshot gets a verdict, with runs succeeding and no failures. Init also allows every scenario to be `optional=false`. In that case the completeness test compares 0 with 0, and the first run's event must still write Passed. `LatestWins` (design §8): every List-based resolution keeps one of the latest succeeded runs, whatever the list order and with ties in the same second. It also never leaves a scenario that has a succeeded run unresolved. |
| agg_stale_verdict | violation | `SettledVerdictIsLatest`: a stale Passed overwrites the Failed from the newer rerun. |
| agg_failed_runs_no_verdict | violation | `VerdictEventuallyWritten` fails when the runs of both required scenarios end with Succeeded=false. |
| agg_failed_run_passes | violation | `PassedOnlyOnSucceededRuns`: a failed triggering run marks the snapshot Passed. |
| agg_unlabelled | violation | `PermanentErrorNotRetriedForever` fails for a run without a snapshot label. |

Every property of a passing run has a mutant in `PROJECT.json`. A mutant is a plausible bug in the
mapped definition, and TLC finds the property violated once the bug is in.

### Bounds

| Bound | Value | Why it is enough |
|---|---|---|
| Components | 2, and a third that joins | Two are enough for one Component's image to change under another's build. The third joins the Application while builds are handled. |
| Builds | 4 | A rerun of the same image is what makes a duplicate possible (b3). |
| Scenarios, runs | 3 and 3 | One optional scenario is excluded. Two required scenarios can interleave. A rerun (r3) gives "latest" a meaning. |
| Workers | 2 | Two workers are the least that can race. |
| Store failures, redeliveries | 1–2 each | One failure at each call site, plus one duplicate event, reach every error path. More only repeat the same states. |

Completion times are bounded by the number of runs.

### Fairness

Each event is held by a worker of the controller's work queue. The code neither blocks nor sleeps
in the handler, and the queue keeps serving queued keys. Weak fairness on `Handle(b)` (each event's
own handler steps and dequeue) is therefore what the scheduling gives. The informer's watch keeps delivering while the controller runs,
so `SyncCache` is weakly fair too: the cache is eventually consistent, as design section 1 says of the store. Weak fairness is not assumed
for `Complete`, `RecordImage`, `Redeliver` or failures: these are the environment.

## 4. Not modelled

* The snapshot GC CronJob. Only its schedule and retention counts (keep 100 PR and 700 other
  snapshots) are in this repository; the `/snapshotgc` program is not. Its effect on this code is a
  test run whose snapshot was collected: the Get returns NotFound, and the event is requeued
  forever by the mechanism `agg_unlabelled` shows. This is recorded as a hazard.
* The ServiceMonitor and the PR size workflow are configuration only.
* `IsBuildPipelineRun`, `IsIntegrationPipelineRun` and `GetTypeFromPipelineRun` are label reads.
  Each model is restricted to its kind of run.
* `GetOutputImage` failing: a build always has `IMAGE_URL` in the model. Only the digest may be missing.
* Components joining during a build, with the refinement checked. `ImplementsSnapshotRegistry` catches the partial snapshot this gives: List (line 423), a Component added, then the Create. The refinement's violation run is spent on the registry-port bug instead. `matcher_serial` still lets cC join.
* Components being removed, and scenarios added or relabelled while runs are in flight.
* Cache lag for the other reads. The lag is modelled for the snapshot List only.
  * A Component List from a lagging cache returns an image the Component has had. The registry allows that already, and the duplicate it can cause is the one `matcher_stale_prepare` shows.
  * The aggregator's PipelineRun List: the informer updates its cache before it queues the event. So when a run's event is handled, the cache already holds every run update the watch delivered before it, and the last run's event sees every run.
  * The aggregator's snapshot Get: a stale condition only changes whether the patch is empty. `agg_stale_verdict` already shows the stale verdict that results.

## 5. Plan for later work

1. An `IntegrationReconciler` module composing both paths on one store, so that test runs refer
   to snapshots the matcher created.
2. The partial-snapshot window (hazard at line 427) as a violation run of its own.
3. An abstract verdict specification for the aggregator, with the write-once verdict of design
   §3. The code is expected not to refine it, in the way `agg_stale_verdict` fails.
4. Verdict liveness under store failures (the swallowed-error path at lines 131, 148, 154 and 164).
5. Scenarios whose optional label changes while runs are in flight. `optionalLabel` is already a variable, so this needs only a relabelling action.
6. The two-worker check-then-create race of design §9 as a violation run. `matcher_cache_lag` and `matcher_stale_prepare` show the single-worker ways to the same duplicate.
