# Calibration diagnostics: TLA+ models

This directory holds formal models of the parts of the calibration-diagnostics
repository that keep state shared by several actors, or that compute what such
parts depend on:

* the **telemetry collector**, which folds the events of dataset builds into run
  documents;
* the **calibration-tree publisher**, which turns releases and staging runs on
  Hugging Face into immutable trees and one shared manifest in Vercel Blob, and
  the **webhook** and workflow queue that start it;
* the **comparison builder**, which computes comparison trees when they are asked
  for, and the **calibration tree** itself: its levels, its compiled form and
  what the explorer shows of it;
* what the dashboard reads of a repository: the **release picker**, and the **targets**
  of a calibration with their losses, views and comparisons;
* the **staging pages**: what is accepted of a staging run's documents, which record of a
  hosted run is shown, and the **build monitor** that draws a timeline from a build's
  files;
* the **evaluation bundles**: how they are built, published and read, and the
  **review** of the facts that the next ones are evaluated on.

Everything is plain TLA+: TLC checks the models on small instances, and TLAPS
proves most invariants of the state machines for every value of the constants.
`PROJECT.json` maps each definition to the lines it models, and lists the runs,
the faults each property detects, the hazards and the theorems.

    tlc -workers 2 -config MCTelemetryCollector.cfg MCTelemetryCollector
    tlc -workers 2 -config MCTreePublisherSerialized.cfg MCTreePublisher
    tlc -workers 2 -config MCStagingRuns.cfg MCStagingRuns
    tlapm HfWebhook_proofs.tla

## Inventory

| Component | State it keeps | Operations | What is hard | What makes it correct |
|---|---|---|---|---|
| Telemetry collector store (`telemetry-service/telemetry_collector/storage.py`, `database.py`) | runs, producers, events and materialized columns in PostgreSQL | register a run or producer, append a batch, list runs, get a run | retried, repeated, reordered and late batches; concurrent requests; restarts of a build as later producers | the stored columns equal a replay of the stored events, in whatever order they came |
| Collector service (`app.py`, `auth.py`, `migrate.py`) | signed session tokens, in-memory caches | sign in, ingest, read | refusals half-way through a request | a refused request changes nothing |
| Manifest and Blob store (`calibration-tree-{manifest,blob,bundle,artifact}.ts`) | `manifest.json`, immutable tree files | merge an entry, validate, upload, audit, conditional write | writers that read, merge and write; partial uploads; lost files | a listed build is stored, unique and immutable |
| Publisher (`publish-calibration-tree.ts`, `release-record.ts`, `publish-calibration-tree.yml`) | one invocation's inventory, audit listing, failures | reconcile releases, reconcile staging runs, publish one release, select the latest release | crashes and failures between any two steps, upstream moving meanwhile, two publishers at once | nothing listed is lost; a missed publication is repaired; the latest selection names a published release |
| Hugging Face webhook (`frontend/lib/microcosm/hf-webhook-*.ts`, `release-record-alerts.ts`, `slack.ts`) | none of its own; the concurrency group's pending slot | check a delivery, compare records, dispatch a workflow, post alerts | retries after a partial handling, older deliveries displacing newer ones, lost answers | the last state of a repository is eventually reconciled; each change is told, once |
| On-demand comparisons (`calibration-comparison-blob.ts`, the route `comparison-tree`) | in-process table of running builds, comparison bundles in Blob | ask, join or start a build, evict, upload | eviction while running, two servers building one bundle, instances that end or are replaced by other code | an index stands for a whole comparison; a redirect can be read; a pair asked for is built |
| Target matching and changes (`target-surface-matcher.ts`, `target-change.ts`, `calibration-build-comparison.ts`) | none | match targets of two builds by successively looser keys; tell the change of each target and of the score | ambiguous groups falling through to a later strategy; targets and weights that only one side has | the matches are a partial bijection and do not depend on which build comes first; the changes of targets add up to that of the score |
| Release picker and selections (`latest-artifact.ts`, `calibration-release-locator.ts`, `calibration-selection.ts`, the route `releases`) | none | list the releases, resolve an id, choose a baseline | tags that share a folder, folders that change under a tag, a record, the dashboard manifest and release manifests that disagree | the latest release is offered, once; a baseline was not withdrawn |
| Targets of a calibration (`latest-artifact.ts`, `target-loss-attribution.ts`, `geography-labels.ts`) | none | read diagnostics rows, attribute losses, page, summarize, compare | zero targets, absent values, labels of several areas, inherited calibrations, recipes pinned for one release | a loss is told with evidence only; the views of the same targets agree |
| Calibration tree and explorer (`calibration-tree.ts`, `calibration-tree-{artifact,bundle}.ts`, `calibration-explorer.ts`, `calibration-explorer-view.ts`) | the parts a page has loaded, the path of selections | lay out a level, compile, cut into parts, select, go up, filter | ragged and sparse dimensions, geographies spelled two ways, levels shared by both breakdowns, parts that arrive in any order | every target is reached once; what is read from parts is what is built from rows |
| Staging documents and runs (`staging-contract.ts`, `staging-artifact.ts`) | caches of candidates and comparisons | accept documents, find a candidate and its diagnostics, list runs, compare with a release | files read of different commits; documents of two attempts or three versions; what is kept past a run's end | a candidate is that of one commit; the list names every run; nothing refused hides anything else |
| Staging run state (`build-runs.ts`, `staging-run-state.ts`, the staging routes) | five caches of a server instance, shared requests | poll, share a request, give up waiting, choose between two records | two stale views of one run; overdue requests that still answer | the end of a run is shown and not taken back |
| Build monitor (`build-monitor.ts`) | none | rebuild spans, state, failure, solver segments; compare runs; forecast; count stops and failed gates | files read at different times; three telemetry schemas; a build that stops without a word; histories of runs that stopped early or repeat a stage | the timeline agrees with what the build did; a forecast is what the history says |
| Evaluation bundles (`evaluation_harness/frontend_bundle.py`, `scripts/publish_evaluation_bundle_to_hf.py`, `frontend/lib/cross-dataset/artifact.ts`) | bundle directories, the dataset, a reader's promises | build, verify, publish in one commit, serve | rebuilding while publishing or serving, two publishers, lost answers | what is published and what is served is one edition of one run |
| Secret cache (`secret-manager.ts`), prefetch (`calibration-prefetch.ts`), Dashboard (components and hooks) | cached secrets, a prefetch queue, page state | read, prefetch, render | late answers | what is shown belongs to the selection |
| Chronicle updates (`evaluation_harness/update_review.py`, `planner.py`, `full_run.py`, `microcosm_{aging,release_targets}.py`, `yale_reconstruction_checkpoint.py`) | none | plan, classify, pair, review, verify | keys, periods and definitions that move between two snapshots; results that change their origin | what the review does not name need not be computed again; a snapshot found ready loses nothing |
| Evaluation adapters and scores, backend, scripts | files of one batch run | execute, score | numerical work | out of scope |

The webhook dispatches the publisher's workflow; the publisher reads the dataset
repositories and writes Blob; the dashboard and the comparison builder read the
manifest and the trees. Build machines send telemetry to the collector, whose
documents the staging pages overlay on what the repositories hold; the build
monitor reads the files the build itself writes. Operators build and publish
evaluation bundles, which the dashboard serves from a directory or the dataset.

## Modules

| Module | Models |
|---|---|
| `RunMaterialization` | the canonical event order, `_apply_event`, `_fold_events`, `materialize_run` and the incremental `apply_event_batch`, as operators |
| `TelemetryCollector` | the collector's tables for one run and its transactions: `register_run`, `append_events` in the three steps that its row lock separates, and rollback |
| `RunLedger` | what the collector promises: a growing set of events and a view that is a function of that set |
| `CalibrationTreeManifest` | sources, builds, entries and the pure manifest operations |
| `TreePublisher` | publisher invocations (reconcile releases, reconcile staging, publish one release), the manifest write, Blob, the dataset repositories, failures and crashes |
| `TreeCatalog` | what publishing promises readers: write-once files and a list of stored builds that only grows |
| `ReleaseRecord` | `releases.json`, the differences of two records and what is said of them |
| `HfWebhook` | pushes, deliveries and their handler, the pending slot and the job that follows (`TreePublisher` is that job in detail); EXTENDS `ReleaseRecord` |
| `ComparisonBuilds` | requests, the tables of active builds, builds of both modes and their uploads |
| `TargetMatching` | the three strategies that pair the targets of two builds |
| `ReleasePicker` | the releases offered for selection, the id each is loaded as, the commit a folder is read at, a candidate's baseline |
| `ReleaseCandidates` | what the publisher finds in a repository with and without a record, which release is the latest, what a reconciliation and a local command leave in the manifest; EXTENDS `ReleasePicker` |
| `TargetLossAttribution` | the loss each target carries: reported, reconstructed by a pinned recipe, inherited, or unavailable |
| `TargetRows` | rows of diagnostics, the views of them and the comparison of two calibrations; EXTENDS `TargetLossAttribution` and takes `TargetMatching` |
| `TargetChange` | the change of each target and of the score, and what a published tree keeps to be compared by; EXTENDS and takes the same |
| `CalibrationTree` | a reader's place in a tree (selecting, going up, breadcrumbs), the levels of a tree, the levels compiled from them and the shards of its targets |
| `TreeParts` | the documents a tree is stored in, what is refused of one alone and of a bundle of them; EXTENDS `CalibrationTree` |
| `TreePage` | what a page shows of a tree while its parts load, fail or are refused; EXTENDS `TreeParts` |
| `TreeSources` | what is read of stored trees to compare two of them and to tell the detail of a compared target; EXTENDS `TreeParts` |
| `StagingDocuments` | which documents of a staging run are accepted, each alone and together |
| `StagingRuns` | the candidate, the page and the list of staging runs, and the caches of comparisons; EXTENDS `StagingDocuments` |
| `HostedRuns` | three pages that show a hosted run, the caches behind them and the two records of the run |
| `BuildTimeline` | a build that writes its files, and the timeline read from them |
| `BuildForecast` | what the monitor derives from several timelines: statistics of stages, gates and stops, and the forecast of a run; EXTENDS `BuildTimeline` |
| `EvaluationBundles` | bundle directories, publishers, the dataset and the dashboard's reader |
| `ChronicleReview` | the review of a new Chronicle snapshot: plan, classification, pairs of facts, the work it names and the gate |
| `MC*` | the instances TLC checks |
| `*_proofs` | the theorems |

Modules of operators keep no state, so their properties are checked on every input of
small families, beside the state machine of the same part. An MC module extends the one
before it, and the last is the root of the run: `MCTreePublisher`, `MCPublishedTrees`
(with an instance of `MCTreeParts`: `TreePage`, `TreeSources`) and `MCReleasePicker` (`ReleaseCandidates`) for `publish_repair`;
`MCStagingRuns` (`HostedRuns`, `StagingRuns`) for `hosted_runs` and `hosted_late_events`;
`MCBuildTimeline` (`BuildForecast`) for `build_timeline`; `MCComparisonBuilds`
(`TargetMatching`) and `MCTargetRows` (`TargetRows`, `TargetChange`) for `comparisons`;
`MCEvaluationBundles` and `MCChronicleReview` (`ChronicleReview`) for
`evaluation_bundles`. Such a property has a premise of the state machine that holds
in some of its states only, so that TLC evaluates it where the part is in use.

### The collector

`run`, `producers`, `events` and `columns` are the tables of `database.py` for
one run. `lock` is the run's row lock, `pc[w]` says where request `w` is in
`append_events`, and `snapshot[w]` is what `_stored_producers` returned to it.

* `RegisterRun` is `register_run`. The time stamp is a parameter, because it is
  read before the transaction starts: producers may be inserted in another
  order than their times. Updating the owner's displayed name is left out.
* `LockRun`, `ReadProducers` and `AppendEvents` are `append_events` up to its
  `SELECT ... FOR UPDATE`, up to the producers' highest sequences, and to the
  commit. `Insertable` is `ON CONFLICT DO NOTHING` against both keys of the
  table, among stored rows and within the batch.
* `Rollback` is every refusal, exception and lost worker of a transaction.

`Folded` applies events in the canonical order with `Apply` (`_apply_event`), to the
columns of a new run in a replay and to the stored columns for a batch.
Payloads (failure message, block, work, resources) are reduced to the
producer and sequence of the event they were copied from: enough to tell which
event a column came from. The block is not a stored column, as in the code.

`RunLedger` does not fold: it defines each column as the value given by the
latest event of the final attempt that writes it, the characterisation in the
docstring of `apply_event_batch`. `ImplementsLedger` therefore compares three
accounts of a run: the incremental fold, the replay and the declarative view.

### The publisher

A build is identified by its source and the content of its files, as
`calibrationTreeBuildArtifactId` digests them. A staging run's commit is part of
that content and a release's is not, so two commits of a release may have the
same build, which is what makes the immutability check of a listed build matter
(`ContentAt`). A tree has the part `data`, for all its data files, and the part
`index`, uploaded last. The content of a data file depends on the version of the
tree builder; the index depends on the commit too.

`pc[p]` is the step of invocation `p`, `task[p]` what it read and has left,
`item[p]` the entry it is publishing, and `etag[p]` the manifest its next write
starts from.

| Action | Code |
|---|---|
| `Start` | `runPublisher` up to its first manifest read; a job of the concurrency group waits for the others |
| `Enumerate` | `enumerateReleaseCandidates`, `enumerateRecordedBuildCandidates` or the staging inventory, and the Blob listing |
| `Pick`, `Refuse` | `--release` and `--latest`: the release to publish, or the error that ends the command |
| `Examine` | the loop body: audit a listed build, refuse a moved tag or a rebuilt index that differs, or go on to upload |
| `Upload` | `uploadCalibrationTreeFile`: keep an identical file, refuse a different one, write an absent one |
| `Audit` | the audit of what was uploaded: before the manifest write for a release, after it for a staging run |
| `Read`, `Put`, `Overwrite`, `Verify` | `updateCalibrationTreeManifest`: read and merge, put with the etag, after a conflict re-read and put without one, read back |
| `Select` | `selectLatestRelease` after the last candidate |
| `Promote` | `promoteIfCurrent` after a single publication |
| `StepFails`, `Crash` | a failing request, and the loss of the whole job |
| `Publish`, `MakeCurrent`, `MoveTag`, `Upgrade`, `LoseFile` | the dataset repositories, the default branch and Blob, as the code in `src/` sees them |

Where the order of the candidates is by id in the code, the model leaves it open.
An etag identifies the content of the manifest. A job is in `Grouped`; a local
command (docs/calibration-tree-artifacts.md, "Historical reconciliation") is a
publisher outside it and may use an older builder.

### The webhook and the queue

`commits[repo]` is the history of a repository's main branch, for a release
repository the record of `releases.json` at each commit. `deliveries` are the
webhook's deliveries, `phase`, `todo` and `answer` the state of a delivery's
handler, `posted`, `logged` and `missed` what became of its messages, `accepted`,
`pending` and `running` the workflow's runs.

| Action | Code |
|---|---|
| `PushRelease`, `PushTag`, `PushStaging` | what Hugging Face announces: an update of main, a tag, or both |
| `Compare`, `CompareFails` | `compareReleaseRecords` before anything is done: a transient failure answers 503, a lasting one goes on without record alerts |
| `DispatchTreeBuild`, `DispatchFails` | the workflow dispatch, accepted, refused, or accepted with its answer lost (502) |
| `PostAlert`, `Answer`, `LoseAnswer` | tags' messages first, then `releaseRecordAlerts`; a message Slack refuses is logged and not retried; 200; the handler or its answer lost |
| `StartJob`, `FinishJob` | the concurrency group: one run at a time, a newer dispatch in the place of the pending one; a release job reads the head of main when it starts, a staging job is given a commit |

A build that is listed and already withdrawn within one update is told as listed
only. A staging job reconciles the commit of its dispatch, so that an older
delivery retried last reconciles an older state until the next delivery.
Manual dispatches and the checks of the signature and of the payload's form are
left out.

### Comparisons on demand

`stored` is the Blob store, `active[i]` an instance's table of running builds,
`build` and `request` the promises of the server processes.

| Action | Code |
|---|---|
| `Ask`, `Join` | the route: a redirect to a stored comparison, or `ensureCalibrationComparison`, which shares a running build of the pair or starts one |
| `Evict` | builds of other pairs push this one out of the table while it runs |
| `CheckBoth`, `CheckFails` | a build looks for both indexes before it loads its sources |
| `GetPart`, `PutPart`, `StorageFails` | `uploadCalibrationTreeFile` for each part of each mode, the index last: compare what is there, or put what must not be there |
| `Replace` | an instance ends or reaches its time limit; its place is taken by one that may run other code |

When a build settles, `Forgotten` deletes the pair's entry whichever build it is
for, as the code does: a newer build's entry may go with it. After one mode has
failed the other mode's upload goes on. A request that loses a race between get
and put is answered 503, although asking again succeeds.

### Matching targets

Three strategies pair the targets of two builds in turn, by name, fact key and
identity; each pairs what has a key that neither side shares, among the targets the
ones before it left. `ComparisonRows` are the rows of a comparison.

### The release picker

A release id is the folder of a line on main, a tag or a build of a release; the
dashboard manifest, what Hugging Face answers to the request for the record, and the
release manifests are given.

| Definition | Code |
|---|---|
| `IsRecord`, `RecordFromResponse`, `LoadReleasesRecord` | `release-record.ts`: which document is a record, and which answer says that there is none |
| `RecordedBuilds` | the builds of `releases.json`, withdrawn ones too |
| `ReleaseRole`, `Entry`, `LoadedAs` | what a release manifest says of a release, and the id it is loaded as |
| `FolderReleases`, `PublishedCutReleases`, `MergeReleaseInventory` | a repository without a record: folders on main, tags, and their merge |
| `RecordedReleaseInventory`, `LatestEntry` | a repository with one |
| `ReleaseFromManifest`, `FolderCommit` | `calibration-release-locator.ts` |
| `ReleasesRoute`, `ComparisonRelease`, `NewestLocalArea` | the route, and the release that a candidate is compared with (`staging-artifact.ts`) |
| `FromBuild`, `ToBuild` | the two ends of a comparison, `calibration-selection.ts` |

### What the publisher finds

`TreePublisher` takes the candidates of an invocation as given. `ReleaseCandidates` says
what they are, as operators over a repository (the head of main, its folders, its
tags with the files at their commits, the pointer, the answer for the record and the
build folders) and a dashboard manifest. A read that fails is `Refused`.

| Definition | Code |
|---|---|
| `TaggedDirectory`, `TaggedReleases` | `resolveTaggedReleaseDirectory`: a cut's files are in the folder of its line, if the release manifest there names the tag |
| `FolderCandidates`, `TagCandidates`, `LineFolders`, `HeldBackFolders` | `enumerateReleaseCandidates`: a folder that a tag publishes, or that an unreadable tag may, is not a release of its own |
| `RecordedBuild`, `SelectedBuild`, `RecordedBuildCandidates` | a repository with a record: a build at the commit that wrote its folder; a published one keeps its commit |
| `UpstreamLatest`, `CutLatest`, `RecordedLatest`, `RecordedCurrentBuild` | `readUpstreamLatest` and the record's current build |
| `RequestedRelease`, `RequestedRecordedBuild`, `Requested` | the release of `--release` or `--latest` |
| `Registered`, `Promoted`, `Commanded` | `registerReleaseBuild`, `promoteIfCurrent` and the command that runs both |
| `Inventory`, `Moved`, `FailedOf`, `After`, `Selectable`, `Report`, `Reconciled` | `reconcileReleaseBuilds`, `selectLatestRelease` and `reconciliationFailureMessage` |

Two things follow from the code that an operator may meet. A folder without a tag, named
by the pointer, is read at the head of main by `readUpstreamLatest` and pinned to the
newest commit of its files by the inventory: when the two differ, a reconciliation
publishes it and reports the latest as "not completely published", and after `--latest`
published it at the head, later reconciliations report that it "changed". The property
therefore speaks of the latest when it has a tag or the commits coincide.

### The targets of a calibration

What is parsed of names and metadata is given: a row's source, variable, measure,
geography and dimensions. Fractions are exact, so a tolerance of the code (1e-4, 1e-9,
1e-12) is equality, errors are whole per cents, and a hash is what it is the hash of.

| Definition | Code |
|---|---|
| `SquareRootWeights`, `ConceptBudget`, `BasesEqual`, `MeanOne`, `Multiplied`, `RecipeWeights` | `reconstructedWeights` and the recipes it is made of |
| `ReportedAttribution`, `Reconstruct`, `InheritedAccepted`, `Attribution` | `normalizeTargetLossAttribution`: what is accepted of a report, of a pinned release and of a parent's calibration |
| `NormalizeDiagnosticsRow`, `EnrichTargetRow`, `Labelled`, `BuildCalibration` | rows, their errors and statuses, labels that two areas would share |
| `DiagnosticsPage`, `Passes`, `Slice` | the targets page: filters, order, facets and offsets |
| `Treemap`, `VariableSummary`, `FamilyFitSummary`, `Highlights`, `Investigation` | the other views |
| `BuildComparison` | the comparison of two calibrations by the rows of `TargetMatching` |
| `TargetChangeDataset`, `Summary`, `PooledSummary`, `Reconciled` | `target-change.ts`: changes under the reported weights, and under weights pooled from both sides |
| `CompactRow`, `InferredAttribution`, `FromSummaries` | what a published tree keeps of a calibration, and the calibration read back from it |

### The calibration tree and the explorer

These are operators over the rows of a tree; they keep no state. A row has its
program, the id and the spelling of its geography, its dimensions and a `band`, which
stands for every facet that is read from the row alone. Groups, metrics, labels
and the order of display follow from what is modelled and are left out.

| Definition | Code |
|---|---|
| `Label` | `geographyLabeller`: the first spelling of an id |
| `Unfold`, `HierarchyLevel` | `hierarchyPartitions`: rows with a path, a dimension that does not distinguish them is passed over |
| `Assign`, `Partition`, `StructuredLevel` | `partitionRowsByDimension`: the narrower of several overlapping dimensions takes its rows first |
| `Level` | `buildCalibrationTree`, the calculation used live by the staging and target-change trees |
| `StatesFrom`, `Covered`, `Compiled`, `Tiers`, `Draft` | the compiler: levels that both breakdowns reach once, the part of each depth |
| `Shards`, `DetailSelection` | the cutting of targets' details into parts and where one is read |
| `Tier`, `FilterIndex`, `SummaryShard`, `DetailsShard`, `BundleOf` | the documents of a draft and their descriptors (`buildCalibrationTreeBundle`) |
| `Readable*` | `parseCalibrationTreePart` and the parsers of each part: a document alone |
| `ValidFiles`, `ValidPostings`, `ValidGraph` | `validateCalibrationTreeBundle`: the documents of a bundle together |
| `IndexResult`, `PartResult`, `ComparedResult`, `Page` | the requests of `useCalibrationTreeBundle`: an answer that is not what was asked for has failed |
| `Reached`, `Members`, `Served` | `calibrationTreeResponseFromBundle`: follow the path of selections through the parts that have loaded, filter the level by postings |
| `DetailRequests`, `Shown` | the details of the selected target, and what the page says of loading and of errors |
| `LoadedSource`, `SourceDetail`, `ComparedDetail` | `calibration-comparison-blob.ts`: the sources of a comparison, and the detail of a compared target, read again from both |
| `Select`, `Parent`, `Crumbs`, `SelectedPath` | `calibration-explorer.ts`, `calibration-explorer-view.ts` |

A program's source is taken to be non-empty, and a row's path to name a dimension
once (the hierarchy reader checks it). The bytes that frame a shard are a constant
that the limit leaves out. A digest stands for the document it is of: a descriptor's
`digest` is the document itself, and two documents with one digest are one.

`PagesShowTheTree` has four parts. Rows are compiled to a bundle that is valid, in which
each target is reached once. A bundle with one fault is not valid: a node that lost a
target or leads elsewhere, a level that is lost or at another depth, a target with another
id or facet, a file that is lost, displaced or of another bundle. Of whatever parts are
answered, waiting or failed, a page shows the level as it is built from the rows or that
it waits or failed, and details of the selected target only. A comparison, and the detail of
a compared target, come from one version of each source whichever files of it were
replaced or lost in between, or are refused.

### The staging pages

Event `i` is the run's i-th event by time and `End` the one that ends it, so that a
record of the run is a set of events: `received` is the collector's, `1..copied` the
Hugging Face copy's. `requests`, `entry` and `answered` are `collectorRunLists`,
`recordCache` and `copyCache` the entries of `stagingRunCache`, `listing` is
`stagingListCache`. `viewer[v]` is the request a page waits for, `shown[v]` its last
response.

| Action | Code |
|---|---|
| `Receive`, `UploadCopy` | the two sources; the collector takes events in any order |
| `PollCandidate`, `WaitOver`, `AnswerCandidate` | the Candidate tab: wait five seconds for the list, then use one that answered within the last minute |
| `PollListing`, `LoadListing`, `LoadWithoutCopy`, `ListingExpires` | the Build progress list, one load shared for thirty seconds |
| `Refresh`, `RefreshFails` | `refreshHostedRun`, the page of one run |
| `ListAnswers`, `ListFails`, `ListOverdue`, `EntryAges`, `AnsweredAges` | a request of `collectorRunLists`, shared while it is not overdue; an overdue one may still answer |
| `RecordAnswers`, `RecordFails` | `loadCollectorRun`, with the record that is reused while the list names the same update |

`StandingRecord` is the rule of `candidateRunState`, `overlayRunSummary` and
`mergeHostedDocuments`, `RefreshedRecord` that of `refreshHostedRun`. `noted` says
that the page reports a failed read: when its fresh read of the collector
fails, the run page goes back to the copy, which the property allows.

### Staging documents and runs

Documents have a version, a schema name, the fields of one version and the attempt that
they belong to; `files` are the files of a run as they were read, each perhaps of another
commit of the writer.

| Definition | Code |
|---|---|
| `VersionAccepted`, `FieldsAccepted`, `DeliveryAccepted`, `FailureAccepted`, `BlockAccepted`, `Parse*` | `staging-contract.ts`: one document alone |
| `Consistent` | `validateStagingRunConsistency`: versions, attempts and paths of the documents of a run |
| `CandidateSource`, `BundleDiagnostics`, `DigestAccepted` | `resolveStagingCalibrationSource`: the diagnostics of the run or of its bundle, of which the declared digest is checked |
| `RunPage` | `loadStagingRun` |
| `Listing`, `Merged` | `loadStagingRuns`: the tree, the index of version 1, manifests and a bounded number of progress documents |
| `Compare`, `Through`, `Kept` | `loadStagingTargetChangeDataset` and its two caches |

### The build timeline

The build is external and is modelled from what `build-monitor.ts` reads and
`docs/build-monitor.md` says: it enters, leaves, fails and observes stages, is refused by
its gates, logs epochs and saves its progress document, in one of three telemetry
schemas. A build that is killed takes no more steps. `read` is what the page has
read, the event and calibration files at one time (`ReadEvents`), the progress
document at another (`ReadProgress`). The rest are operators: `SpansFrom`, which advances the
spans event by event (`Advance`: `spansFromTransitions`, `spansFromLifecycle`), `Timeline`
(`buildTimeline`), `SameStageSequence`, `SolverPasses` (`SolverPass` is one turn of its loop),
`SolverSegments` (`AddSegments` is one turn, `PassSegments` the loop). `Within` is the code's
`filter`, as a fold with a set for the test. A solver's passes have a number of epochs
(`PassEpochsAssumption`).

`BuildForecast` works on timelines in seconds, since its rates are quotients; they are
rounded down.

| Definition | Code |
|---|---|
| `Quantile`, `Samples`, `StageStatistics` | `stageStatistics`: the finished spans of a stage over runs |
| `ComparableHistory` | the runs of the pipeline that the run is compared with |
| `CalibrationRate`, `WorkRate`, `Pace`, `SolverForecast` | what is measured of the run itself: epochs, reported work, its pace against the history, the passes its solver has left |
| `ByMilestone`, `ByTotal`, `WithRates`, `Remaining`, `Stretches`, `ForecastCompletion` | `forecastCompletion`: the stage it counts from, the time left and its spread, the stages laid out ahead |
| `GateStatistics`, `StopStatistics` | which gates failed, and where runs stopped and why |

A run that entered a stage twice has each of its spans compared with the stage's summed
typical time (`paceFactor`), and the limit of twelve runs is applied before runs that did
not finish are dropped, so a forecast may say that no finished run is known when
a thirteenth is: both are modelled as they are.

### Evaluation bundles

`bundle[o]` are the files of an operator's directory, `build[o]` what its builder has
left to write, `job[o]` its publisher, `published`, `latest` and `head` the dataset,
`reader` the dashboard's promises. A document is known by its run and, where it says
something about pages, by the page size; so is its hash.

| Action | Code |
|---|---|
| `Build`, `WriteFile`, `BuilderCrashes` | `publish_frontend_bundle`: into a directory that does not exist, the manifest last |
| `RemoveBundle` | the operator's own doing |
| `StartPublish`, `VerifyBundle`, `RereadManifest`, `LoadFiles` | `load_bundle`: the manifest, the verification, the manifest again, every file again |
| `ReadHead`, `ListRun`, `ListLatest`, `Commit` | the head is read before the listing, and the commit is refused when it has moved |
| `VerifyPublished`, `PublisherCrashes`, `OtherCommit` | the end of the script, and commits to the dataset by others |
| `ReadManifest`, `ReadPartition`, `StartInstance` | `artifact.ts`: every file is kept, answered or failed, until the instance ends |

Publishing an older bundle again moves `latest.json` back, as the script's
docstring says it may. Only the manifest, the summary and `latest.json` are compared
after publishing, which is enough because the commit is atomic.

### Reviews of Chronicle updates

These are operators over two snapshots and an integration; they keep no state.

| Definition | Code |
|---|---|
| `GrowthOf`, `KeptRaw`, `AgingFactor` | `MicrocosmAgingPolicy.transform` and `_factor`: the facts that are not aged, the factor of a fact's income series and the fallback to that of adjusted gross income |
| `IsReleaseTarget` | `compile_release_target_alignments`: the target of a fact's record, if the unit and the period it states are the fact's |
| `AlignmentOf`, `PrecomputedSpec`, `CheckpointRefuses` | `_plan_for_facts` with the other modules it calls: targets of the pinned release, the reviewed checkpoint |
| `MappingOf`, `Represents`, `Treatment`, `Query`, `Classify` | `CapabilityPlanner.classify` |
| `Materialized`, `Capabilities` | `apply_precomputed_capability_specs`, `build_full_capability_matrix` |
| `Pairs` | `_pair_facts`: by key, else by a definition that is unique on both sides |
| `Review` | `review_source_update`, with its signatures |
| `Checks`, `GatePasses`, `Ready` | `verification_gate`, whose facts are rows of the old snapshot, and `ready_for_evaluation` |
| `Estimate`, `Benchmark` | `execute_groups`, the materializations and `build_scored_results`: what a full run takes an estimate and its benchmark from |

Values, queries and estimates are known by what they are made from. A definition
stands for the fields of `_fingerprint`. A fact has besides it its income series (`series`,
what `_income_source` makes of the source measure) and whether it is a `source_projection`
of its publisher (`projected`), and may change either under one key. The growth of a
snapshot stands for what `_factor` finds, for a series and a source year, in the projections
of the snapshot or in the release. Diagnostics of the release that lack a final estimate
fail the review as a whole and are left out. A source's
weights differ by entity, as in every `overview.yaml`: the signature of an execution has
the weight and not the entity. Two targets of the release are taken to differ in their
definition, which includes the semantic key; if two were alike and one replaced the
other under a new key, the review would not ask for the new one's estimate to be reloaded.

**Changes of score that no review names.** The review compares alignments by their
identifiers, and an identifier names the fact and the two periods, not the factor
(`microcosm_aging.py:95`). An aged fact may get another factor under the same identifier,
key and value:

* the projections of the new snapshot give its series another factor, or give a series its
  own where it took that of adjusted gross income;
* the fact is of another series, because its `source_measure_id` changed;
* its `assertion` becomes or ceases to be `source_projection`, whose values are not aged;
* its concept becomes or ceases to be a sum of dollars, with the same query or the same entry
  of the checkpoint.

None of these is in the fingerprint or in a signature (`update_review.py:51`, 143-176)
except the last, and that one does not matter for facts paired by key. So the aged benchmark
changes, `requires_rescore` stays false, and the source is not listed under `rescore`, against
"recompute scores when a benchmark value changed" (docs/chronicle-update-workflow.md, step
3). `ReviewsNameTheWork` does not set these cases aside: it says of every update that
rescores nothing that a benchmark is the old one exactly when the fact is not aged by another
factor (`AgedByAnotherFactor`). Both sides of that equivalence occur in the run, the second
one by each of the four ways, three of them with the same growth. Without the
exception TLC finds the property violated, and so it does with any one of the four ways
left out of it.

## What the runs check

| Run | Instance | Shows |
|---|---|---|
| `collector` | 2 requests, 2 users, 3 producers, 2 registration times, 13 events over 5 slots plus an event that reuses an identifier, every batch of one or two events and two longer ones | `SnapshotIsCurrent`, `StoredColumnsMatchReplay`, `DocumentIsConsistent`, `UpdatedAtNeverDecreases`, `ImplementsLedger` |
| `publish_serialized` | two interchangeable jobs of the group, one release and one staging run, two commits, two builder versions, two faults | `ListedBuildsStayListed`, `FailedNeverLatest`, `ImplementsCatalog`, `TypeOK` |
| `publish_concurrent` | a job and a local command, two commits | `ManifestIsValid`, `ListedBuildsAreStored` |
| `publish_repair` | one job under `FairSpec`, two faults; some 1400 small sets of rows as the trees it publishes, faulty, partly loaded and compared ones; repositories of two lines with a record and without one, before and after runs and commands | `MissedPublicationsAreRepaired`, `LatestCatchesUp`; `PagesShowTheTree`; `ReleasesAreOffered` |
| `publish_lost_entry`, `publish_upgrade` | a job and a local command; one job, a builder change and one fault | findings, below |
| `hf_webhook` | one release repository with a channel and one staging repository, two pushes from four kinds of change, one fault | `RetriesNeverRepeatMessages`, `AnsweredDeliveriesTellTheChange`, `LastReconciliationIsOfTheHead`, `DeliveriesAreAnswered`, `NewestDispatchRuns` |
| `comparisons` | two instances, two requests, two builds, one pair, one part, two versions of the code, one fault; all pairs of surfaces of up to two targets; calibrations of up to three rows and five recipes | `IndexedComparisonsAreWhole`, `RedirectsCanBeRead`, `PartsNeverChange`, `AskedPairsAreBuilt`; `MatchingIsOneToOne`; `LossesAreVerified`, `ViewsOfTargetsAgree` |
| `hosted_runs` | three pages, two open at a time, a run of two events, two list requests in flight, one fault; files of a staging run read of two commits, and lists of two runs | `OneTimelyListRequest`, `EndIsShown`, `EndIsNotForgotten`; `StagingRunsAreConsistent` |
| `hosted_late_events` | the list alone, a run of three events, no fault | finding, below |
| `build_timeline` | each schema, three interchangeable stages besides the solver's, depth two, three events, four events and epochs together; histories of every plan of three stages of one or two minutes | `TimelineFitsTheBuild`, `EndsAreTrue`, `StoppedRunsStayComparable`; `ForecastsFitTheHistory` |
| `evaluation_bundles` | two operators, two runs, three facts, pages of two or three; six budgets of builds, publishes, instances and faults; updates of snapshots of up to two facts for four integrations | `BundlesAreWhole`, `ServedDocumentsAgree`, `QueriesFindEveryFact`, `PublishedFilesNeverChange`; `ReviewsNameTheWork` |

Each property is stated above its definition, with the code it is about, and
`PROJECT.json` gives for each a fault of that code that breaks it.

**Why the bounds are enough.**

*Collector.* Materialization compares an event with its neighbours: the active
producer's, a later producer's, an earlier one's. Three producers give each role an
actor at once, and equal registration times (two readings for three producers) exercise
the tie by producer id. Every slot has two or three alternative events, so a terminal
event, a reopening, a heartbeat and a progress event meet in each order, and timestamps
deliberately disagree with sequence numbers.

*Publisher.* One release and one staging run are the two paths through a
reconciliation, and they share the manifest, so either can disturb the other. Two
commits of a release with the same build, and two of a staging run with different
builds, are the cases `Accepts` distinguishes. Two builder versions are one before and
one after a change. Two faults allow a failure and another one during the repair.
`Recorded` is empty where tags may move and holds the country where releases.json pins
the commits; the runs between them cover both.

*Webhook.* Two deliveries are the least that can be handled in the wrong order or
displace each other in the slot; one fault is a retry of one of them. The
records a push may lead to add a build, withdraw, restore, change the current build, and
lose the record.

*Comparisons.* Two instances race for every part; the evicted build and the one begun
again are two builds. With one part and the index there is a step before, between
and after each pair of writes. Surfaces of two targets a side are the least with
an ambiguous group on either side that a later strategy resolves.

*Trees.* Up to three rows over 13 paths (two keys with two values, in both orders,
ending early) rejoin, end inside one another and pass over a dimension. Up to four rows
over 8 sparse sets of three dimensions overlap in every way the order of narrower
dimensions distinguishes, one of them with two values for a key. Three rows of one
program, or two rows of two, over two spellings of a geography with no id or one of two
ids, are labelled in every order. Filters choose none or one value in each of two
categories, over all tiers, all but one or none, with or without the filter index and the
summaries: a page follows one path, on which the first missing tier decides. Details: up to
five targets of one to four bytes under a limit of four. Single faults are made of trees
of one or two rows, which have every kind of part, two shards and a level that both
breakdowns lead to. Three targets in two shards are browsed with five of their parts
waiting, failed or answered, and compared with a second tree, from stores in which each
part of a source is of either of two versions or gone.

*Release picker.* Two lines, one of them shared by two tags, are the least for which a
folder may belong to another release than its tag; a record has builds of two releases,
withdrawn, current or neither. The manifest has any subset of four or five builds,
so each release is published or not independently of the others.

*What the publisher finds.* Two tags of one line, each a cut, a tag that the manifest of
the line's folder does not name, or one with a folder of its own, pushed before or after a
first run; a plain folder with an older tag or none; a pointer to each kind of
release. The first run reads all but some of the commits of tags and of main, publishes
all but some, or is a local command; a second run finds all. A record has four builds of
two releases, withdrawn or not, and a current build or none, some of the documents being
refused; one folder is unread, missing, of another build or right, and perhaps written
again. The answers that are no record are those with each of the two codes, a
failure and bytes that are no document.

*Targets.* One to three rows over amounts, counts of two kinds and a concept of
several districts are what the recipes tell apart; a producer's weights are each recipe's in
turn, and rows are exchanged, dropped or missed by more. Lists of up to three of eight
kinds of rows, compared in lists of up to two, meet zero and absent targets, estimates
outside the bounds, measures of several programs and labels of several areas. Changes are
told of one or two targets a side that miss by nothing or by half under unequal weights,
one of them weighing nothing.

*Staging documents.* Two attempts of a writer, of each version and status, with the
artifacts declared or not, give torn reads of every two commits; two runs
and one fetch beyond the index meet the limit of fetches; three requests over
two runs and two releases fill the caches before and after a run's end.

*Hosted runs.* Two events are a beginning and an end, which is all that the rules between
the two records look at; three are needed for a late event that is not the end. A second
request in flight is one that replaced an overdue one. The list and the run's page
share loads, and the tab and the page share requests, so two pages at a time
meet in each cache.

*Timeline.* Two open stages are the least that nest; thresholds are 0 or 1 on a clock of
three instants, so each is met, passed and not reached. Three epochs in passes
of two make a whole pass and a restart. The stages besides the solver's are
interchangeable, and TLC uses that symmetry; so are the operators and the runs of
`evaluation_bundles`. Forecasts: three stages are one done, one under way and one
ahead; each takes one or two minutes, the solver's is first, second or last, and there is
at most one gap, after the last stage or between two. The run is looked at each minute
and twenty seconds later, measuring nothing, epochs or steady work; its history has
the run it repeats, with a slower one of another pipeline or one that stopped at any
minute, earlier or later. Stops are one failed run and one silent run a minute. Schemas 1
and 3 are the ones that differ here. TLC also checked the inductive invariants of the proofs
(`TimelineInv`, `TimesInv`, `FurtherInv`) on this instance.

*Bundles.* Three facts fill a page of two and part of another, or one page of
three. The budgets pair publishers with a builder, with faults and with the
dashboard, and the dashboard with builders and faults. Three builds during one
publication, the last one with the content of the first, pass the script's checks and
may publish a mixture: `BundlesAreWhole` holds when a directory is built again at most
twice, as in the budgets, and such a sequence of builds by hand within seconds is
outside them.

*Reviews.* Two records, present or absent in either snapshot, are the least that can be
alike, exchange definitions, or replace one another under new keys; the definitions differ in one
respect each (concept, place, period, slice), the new keys are of the old edition or
the next, and one key is unscored. The integrations are the kinds there are: a plain
one, one computed for each fact's year, one with targets of the release, one with a checkpoint.
Their mappings, dataset and way of execution change too, under one growth. Where facts are
aged, either record also changes its series, its assertion, its unit or its source year,
under growth that is absent, is the same, is that of adjusted gross income alone, gives wages
their own factor or changes that of the other series. A release target has a unit that
some facts of its record do not have.

The proofs below remove the bounds for the properties they cover.

**Fairness.** No safety property depends on it.

* Publisher: an invocation under way has weak fairness: a started job goes on until it
  ends, fails or is killed (the faults are bounded). The start of each kind of
  reconciliation has strong fairness: the job slot is free infinitely often and the
  webhook keeps delivering. This is the assumption in the documentation's own sentence,
  "a later webhook delivery inventories all eligible versions and repairs a missed
  publication"; nothing is scheduled, so without later deliveries nothing is promised, and
  because the one slot is shared by all countries and kinds a dispatch can be displaced.
  Single publications have no fairness.
* Webhook: Hugging Face delivers again what was not answered with 200, a handler goes on,
  GitHub starts a pending run and ends a running one.
* Comparisons: an instance goes on with what it began, until it is replaced. The
  requests need not come again; `AskedPairsAreBuilt` is conditional on that.
* Hosted runs: open pages poll, a request answers or fails, and caches age. Neither source
  need ever record the end, nor a copy be completed.

## Findings

* **An entry may be dropped by the second put** (`publish_lost_entry`). After an
  etag conflict the manifest is read and merged again and then put without a
  condition (`calibration-tree-blob.ts:373`). A write by another publisher in
  between is replaced, and the read-back looks for the writer's own entry only, so
  neither command reports it. The workflow's concurrency group prevents this among
  jobs, and that is proved; the documented local commands are outside it. The
  manifest stays valid and every entry in it stays stored, which is proved too, and a
  later reconciliation lists the dropped build again.
* **A builder change after an interrupted upload** (`publish_upgrade`). The build id
  does not depend on the builder. Files left by a publication that stopped before its
  manifest entry are refused as "different content" by every later run of a builder
  that renders them differently, so the version is never published, contrary to
  "repairs omissions from an earlier failed or missed publication"; the documented
  list of failures that rerunning does not correct has published trees and moved
  tags only.
* **A late event of a finished run is never shown** (`hosted_late_events`). The record of a
  finished run is reused "until the collector reports a newer update for it"
  (`build-runs.ts:355`, 364). The collector takes events that arrive late, and its
  `updated_at` is the latest event *time*, which a late event does not move. A
  record read before that event arrived therefore compares equal to the list for good,
  and the Build progress list lacks the event until the instance ends. The run's own
  page reads the collector again and is complete.

## What is proved

All theorems hold for every value of the constants under the modules' named
assumptions, and those of `MC*` instances in addition where a property is stated there:

* publisher: kinds of sources are disjoint and finitely many, each source has a country, two
  commits of a staging run have different content, `None` is not a value, `Grouped` is a set
  of publishers, the number of faults is a natural number;
* collector: producers and times are integers, client batches are finite sets of events
  whose producer, sequence and timestamp have their types, `None` is none of the values
  it stands beside;
* webhook: no repository is both a release and a staging repository, the number of
  deliveries is finite, and a pushed record keeps what was listed, as
  `release-record-alerts.ts` says of its only writer;
* hosted runs: a run has two events at least, and candidates, builds and pages are
  told apart;
* comparisons: the first version is one of the versions, no part is the index and `None` is
  not a build;
* timeline: `None` is no time, stage, outcome or event, stages are not markers, and versions
  are those of the three schemas;
* bundles: operators and runs are disjoint, there is a run and a page size, and the numbers of
  facts and faults are natural;
* reviews: `Reviewable`, below.

**Publisher** (`TreePublisher_proofs`).

* `TypeCorrect`, `TypeOKAlways`. `TypeOK` is not inductive: a step reads `task[p].kind` or
  `item[p].entry`, which exist only if the publisher is where its `pc` says. `TypeInv` adds
  `Control`: which of `task`, `item` and `etag` are defined at each step, and that the
  item's source belongs to the task's kind and country.
* `ListedBuildsAreStoredAlways`. `StoredInv` adds to the stored manifest every
  other manifest that may come to be written or used: each invocation's `known`, each `etag`,
  and the item whose index is uploaded. Its second half is that a step keeps every stored
  or lost file (`FilesKept`), so what was stored once stays so.
* `ManifestIsValidAlways`. The check of an entry is made against one manifest and the
  write may replace another. `ValidInv` records that a pending write was checked against the
  very manifest it merges into (`etag`), whether or not the put is conditional.
  Hence validity needs no assumption on the publishers.
* `ListedBuildsStayListedWhenSerialized` and `SerializedPublishersImplementCatalog`
  assume `Grouped = Publishers`. `Serialized` says that at most one
  publisher is under way, that the manifest its put starts from is the stored one,
  and that the re-read and the unconditional put are never reached. From it each
  write adds one entry to the stored list, and every step is a step of
  `TreeCatalog` or a stutter. The assumption is needed: `publish_lost_entry`
  is the counterexample without it.
* `NothingFailedIsSelected`. `SelectedInv`: sources fail while candidates are left, and
  an item selected as latest is taken up after that, or by an invocation of one release,
  which ends when its release fails. So an item under way that is selected is not among
  the failed, whatever others do.
* `RunsKeepTheManifest`, `CommandsKeepTheManifest` are about `ReleaseCandidates`, for every
  repository, whatever its tags, folders, pointer and record. `Fits` is what the manifest
  keeps: each release has one entry, as `registerReleaseBuild` writes it, and the latest is
  one of them. A run finds each release once (`CandidatesAreOfOneRelease`): a name that is a
  tag and a folder is found by only one of the two enumerations. Then no entry is lost and
  each release still has one, although a run adds the entries and the selection one by one
  and any of its publications may fail; and if it reports no failure, all that it found is
  listed at its commit and the latest is the release that the pointer or the record names.
  They assume that no release is called `latest` (`NamesReleases`), which is a keyword of
  the command line, and that `None` is no entry.

**Collector** (`TelemetryCollector_proofs`).

* `SnapshotIsAlwaysCurrent`, `KeysAreAlwaysUnique`. `LockInv` says that a request holds the
  lock exactly while its transaction is under way and that its snapshot is what the tables
  hold; the second theorem is the pair of uniqueness constraints, through `Insertable`.
* `BatchShows` is about the operators alone. What a fold of events amounts to is stated
  without a fold: each column is set by the *latest* event of the last attempt that *writes*
  it (`Shows`). A replay shows its events, by induction over the subsets of a finite set
  of events, and stored columns that show the events before a batch show all events after
  it, by cases on which producers the batch is of. Two columns that show the same events
  are equal.
* `StoredColumnsAlwaysMatchReplay`, `DocumentIsAlwaysConsistent`,
  `UpdatedAtNeverDecreasesAlways`, `StoreImplementsLedger` follow. `StoreInv` is `LockInv`,
  the types of the events, and that the columns of a registered run show its events.
  The lock is what lets `BatchShows` be cited: the producers that it takes are those that
  were read.

**Webhook** (`HfWebhook_proofs`).

* `MessagesAreNotRepeated`. `MessagesInv` strengthens the count: while a delivery is waiting
  or dispatching, or has a message left to post, that message was shown at most as often as a
  handler or an answer was lost, because a delivery is answered 503 or 502 before its first
  message only.
* `TheHeadIsReconciled`. `OrderInv`: every commit has a delivery and each
  handled delivery a dispatch with its commit. `JobsInv`: a job reads the head when it
  starts, which is at least the commit of every dispatch accepted before it; what succeeded
  is reconciled up to there. `LastInv`: each repository's dispatches have a last one.
* `TheChangeIsTold`. `ToldInv` has two parts: a delivery is of one update of a record,
  and it tells nothing but that update, and all of it once it has dispatched, counting what
  is left to post and what Slack refused. That a record's update can be read from
  its messages and log is a lemma about the operators, where `RecordsAssumption` is
  needed: a writer that removed a listed build would not be told of.

**Hosted runs** (`HostedRuns_proofs`).

* `OneRequestIsTimely` needs only that the request the cache names is the last one.
* `TheEndIsNotForgotten`. A record is `Honest` when it is final only if one of the two
  sources has the end. `IInv` says of every place where
  one is kept (either cache, the list, each viewer, each page) that it is honest, and
  of a viewer that is `owed` the end (it showed it, and nothing failed since) where the end
  will come from at each step: the collector, the copy or one of the caches.
* `TornReadsAgree` is about `StagingRuns`. The files of a run are read one after the other
  while its writers replace them. Two such reads that found the same structured manifest, and
  were both resolved to a candidate, give the same candidate and diagnostics, for any
  other documents beside it: a progress document of another attempt is refused, and the
  diagnostics are named by the manifest or by a receipt that it digests. Receipts of one
  digest are taken to be one receipt.

**Comparisons** (`ComparisonBuilds_proofs`).

* `IndexesAreOfWholes`, `RedirectsAreReadable`, `StoredPartsStay`. `BuildsInv` says of every
  build, whatever became of the instance's table, that the parts before its next one are
  stored as its instance's version computes them, and that a table's entry or a waiting
  request refers to a build of its pair that has not settled. The first part makes the index
  stand for the whole, the second makes the redirects right although entries are evicted
  and forgotten by pair.
* `TargetsAreOnOneRow` needs nothing but that the surfaces are sequences: what a
  strategy pairs is a pairing of the targets it was left (`StrategyPairs`), and a
  pairing of those joined to the earlier one is again a pairing (`PairingsJoin`), so the
  pairs and the single targets cover both builds without overlap. Nothing is assumed of
  the keys. `MatchingIsSymmetric` exchanges the sides strategy by strategy, and
  `MatchingIsAlwaysOneToOne` is both together, as the run checks them.

**Timeline** (`BuildTimeline_proofs`).

* `OpenSpansAreTheStack`, `EndsAreAlwaysTrue`. The spans of a file are a fold over its
  events, so the spans of one event more are one step from the spans before
  (`SpansOfAppend`). `TimelineInv` relates that fold to the build: the spans are well
  formed, the open ones are the stack, in its order and at its depth (`OpenInv`), the last
  failed or the innermost open span is of the stage in which the build failed (`Blames`), a
  terminal event tells the outcome (`Tells`) and ends the file, and a refused span means
  a build that broke its gate. A page has read its two files at two times, so the invariant
  says of what was read that a terminal event in it means that nothing followed
  (`ReadInv`), and that a progress document tells the end or that the build runs (`DocInv`).
* `StoppedRunsAlwaysStayComparable`. `FurtherInv`: what was read is a beginning of what is
  written, and no event takes a span away or renames one (`AdvanceExtends`). So the order of the
  stages that were read `Leads` the order of those written (`OrdersLead`), and two such
  orders agree on the stretch they share (`LeadingOrdersMatch`).
* `TimelineAlwaysFitsTheBuild`. `TimesInv` gives what the sums need. An event is written no
  later than the clock, epochs are logged in their order, and a document is saved no later
  than it is read (`FilesInv`). Of the spans it says (`Placed`, `TimedSpans`) that those of depth
  0 follow one another in time: each is closed before the next one starts, although a nested
  stage may be reported with a start of its own, because the observer dates a stage without
  a start back to the last moment at which nothing was open (`idleSince`). A sum of such
  spans is at most the last end (`PhasesFit`), and a run that is shown as ended, stalled or
  running lasts at least that long (`ShownIsUpto`). `PassesAreOrdered` and `SegmentsTile` are
  by induction over the passes: a pass cannot start before the one before it ended, and
  where a segment ends is where the next one starts.

**Bundles** (`EvaluationBundles_proofs`).

* `PublishedRunsStay`. `KnowsTheHead`: as long as the head is the one a publisher read before
  it listed the run, none of the files it will upload is there. So a commit that is not
  refused only adds files.
* `BundlesStayWhole`. `DirInv`: the manifest is written last, over files that are all of one
  build. `DocsInv`: which files of its list a publisher has, and that what it need not upload
  is published. `WholeInv` counts the builds that a publisher has seen between its reads. The
  theorem assumes `RebuiltTwiceAtMost`, as the run's budgets do, and three builds refute it:
  the script compares manifests, and a directory may hold the first one again.
* `ServedDocumentsAgreeAlways`. `ReaderInv`: a reader's manifest is that of a bundle, and what
  it read of the files is what that manifest attests.
* `EveryFactIsFound`. The pages of a bundle cut the sequence of facts, and the index
  names the page of each; a lemma about the operators, applied to what was read.

**Reviews** (`ChronicleReview_proofs`).

* `PairsAreOneToOne`, `ReadySnapshotsLoseNothing` hold for any capabilities, if each key is
  that of one record. The pairs map the results there were one to one into those there are, so
  none is lost; and a fact that the gate finds by its definition is the one it was paired with.
* `ReviewsAreSound`, and with it `ReviewsAlwaysNameTheWork`. The review compares signatures
  and not what results are computed from (`Estimate`, `Benchmark`), so each thing a signature
  leaves out has to follow from what it has: the entity from the weight (`KeptWork`), the
  record of a release target from its key or definition, and the entry of a checkpoint from
  its mapping, which is the key. The factor of an aged fact follows from nothing: the theorem
  says that an unchanged alignment tells a benchmark up to that factor, for any growth, series,
  assertions and units, and so that no other change of a benchmark goes unnamed.
  `Reviewable` states what that takes of the plans and the facts: keys name records, as
  `_facts_by_key` enforces within a snapshot and the namespace promises between two; entities have weights of
  their own and the targets of the release differ in their definitions (see *Reviews of
  Chronicle updates*); an integration takes targets of the release or has a checkpoint, and
  none of its rules is for precomputed results; prior years are not the build year. TLC
  evaluates `ReviewsAssumption` on the run, so that its 156,422 reviews meet it.

**Only model-checked.**

* Liveness, because fairness and `ENABLED` are outside the prover:
  `MissedPublicationsAreRepaired`, `LatestCatchesUp`, `DeliveriesAreAnswered`,
  `NewestDispatchRuns`, `AskedPairsAreBuilt`, `EndIsShown`.
* `PagesShowTheTree`: the tree's levels are recursive operators, which the prover does not
  take.
* `ReleasesAreOffered`, `StagingRunsAreConsistent`, `ForecastsFitTheHistory`,
  `LossesAreVerified`, `ViewsOfTargetsAgree`: checks of operators over enumerated families of
  inputs, some of which build their records with `@@`, of which the prover knows nothing. Of
  the first two, `RunsKeepTheManifest`, `CommandsKeepTheManifest` and `TornReadsAgree` state
  the parts about the publisher's manifest and about torn reads for every input.

## Not modelled, and why

* Listing runs with a keyset cursor, and the fields of run documents that are
  copied unchanged.
* Sessions and tokens of the collector; schema migrations.
* Dry runs (they write nothing), `migrate-release-timestamps`, dates of releases,
  `--release` with a commit for a release that has no tag, and staging inventories that a
  publisher refuses as a whole: they change no shared state or no more than is modelled.
* Floating-point rounding and its tolerances (fractions are exact, errors are whole per cents),
  metrics, the resources and shares of stages, wording, the order of what is displayed, layout and charts.
* The form of fields inside a stored document (types and ranges in `latest-artifact.ts`,
  `staging-artifact.ts`, `calibration-tree-artifact.ts`), and the
  readers that derive a target's fields from its name and metadata: stateless, each
  of which a unit test reaches. What the documents of a tree or of a staging run say of
  themselves and of each other is modelled.
* What a direct release's diagnostics are identified by: build, commit and names in the code
  and in the model, so a digest that differs is not noticed there.
* A single publication that restores a lost file of a listed build with another
  builder version's content: lost files are exempt from `ListedBuildsAreStored`.
* Staging pages: local runs, the upload record, runs beyond the sixty most recent,
  several instances (each has its own caches), a copy cached as final while it is
  being uploaded, answers that cross on their way to the record cache, the framework's HTTP
  cache. The run page reads the candidate apart from the documents; each read is consistent,
  and they may be of two commits. A network error is read as an absent file, as the code
  does. Runs of version 1 have no commit, so nothing is claimed of it.
* Comparisons: the routes that serve stored parts, which never change. A changed calculation under the same schema version, together with an
  interrupted upload, leaves parts that the new code refuses: the pair cannot be built
  then, and `AskedPairsAreBuilt` is stated for one version.
* Explorer: the retries of a part that failed to load, and a path of selections kept
  while the tree under it is exchanged (the mode switch of the staging target map), which
  may then lead nowhere and throw while the page is rendered
  (`calibration-tree-artifact.ts:1861`).
* Bundles: the run that is listed and committed is that of the manifest first read, where the
  script takes it from the verified one; they are the same whenever loading succeeds within
  the rebuilds allowed. Removing a bundle is one step. A query has one facet.
* Reviews: the alignments that only a full run adds (wages by BEA and age top codes),
  the counts, the publish and classify flags and the publication of the document.
* Dashboard components, the evaluation harness's adapters and scores and the backend:
  rendering, numerical work and stateless requests.

Hazards that no property covers, besides those with a note in `PROJECT.json`: a run
registered with an earlier time after a page was read (`storage.py:759`), a message that
Slack refused, which is logged and not sent again (`hf-webhook-handler.ts:365`), a copy
kept as final while it is still being uploaded (`build-runs.ts:331`), a progress document
left "running" beside a terminal event, shown as stalled (`build-monitor.ts:890`), reads
that fail and stay failed for an instance's life (`artifact.ts:366`), and an in-flight
secret read whose older answer is used after a newer one (`secret-manager.ts:85`).

## Plan

Done: the modules and theorems above. Left, in order of importance:

1. The rest of `StagingRuns` and `ReleasePicker` for every input: the list of runs names each
   run once, and the latest release is offered once, stated of the operators instead of the
   families.
2. `SecretCache`: in-flight sharing and replacement, late answers and failures.
3. `RunListing`: pages by keyset cursor while runs are registered.
4. `CalibrationPrefetch`: a late answer after the selection changed.
5. A composition of `HfWebhook` with `TreePublisher`, the job of the first being one
   invocation of the second.
