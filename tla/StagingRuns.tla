---------------------------- MODULE StagingRuns ----------------------------
(***************************************************************************)
(* What the dashboard makes of a staging repository (staging-artifact.ts): *)
(* the list of its runs, the candidate of a run, the page of a run and the *)
(* comparison of a candidate with a release. A writer commits to the       *)
(* repository meanwhile, so each file may be read of another commit.       *)
(*                                                                         *)
(* `files` are the files of a run as they were read, None for one that is  *)
(* absent or could not be read. The content of a diagnostics file stands   *)
(* for its digest, and `bundles` has the diagnostics of the run's bundle   *)
(* at each commit of the release repository.                               *)
(***************************************************************************)
EXTENDS StagingDocuments

CONSTANTS
    Failed,         \* a file whose request failed
    MaxFetched      \* MAX_UNINDEXED_FETCH

-----------------------------------------------------------------------------
(***************************************************************************)
(* The candidate of a run.                                                 *)
(***************************************************************************)

Documents(files) ==
    [progress |-> ParseProgress(files.progress), manifest |-> ParseManifest(files.manifest),
     calibration |-> None, events |-> <<>>]

Candidate(run, docs) ==
    IF docs.progress # None /\ docs.progress.attempt.candidate # None
        THEN docs.progress.attempt.candidate
    ELSE IF docs.manifest # None /\ docs.manifest.attempt.candidate # None
        THEN docs.manifest.attempt.candidate
    ELSE run

\* The artifact of a structured manifest by its name.
Declared(manifest, name) ==
    IF ~Structured(manifest) \/ \A i \in DOMAIN manifest.artifacts : manifest.artifacts[i].name # name
    THEN None
    ELSE CHOOSE a \in Range(manifest.artifacts) : a.name = name

\* The diagnostics among the files a receipt names: the one with the plain
\* name, or else the only one with the stem of the dataset.
Plain == [stem |-> None, segment |-> TRUE]
BundleFile(names) ==
    LET stems == {n \in names : n.stem # None}
    IN  IF Plain \in names THEN Plain
        ELSE IF \E n \in names : stems = {n} /\ n.segment THEN CHOOSE n \in stems : TRUE
        ELSE None

\* The receipt names the run's own prefix in the country's release repository.
ReceiptAccepted(receipt, run) ==
    /\ receipt.run = run /\ receipt.prefix = run
    /\ receipt.registered /\ receipt.revision # None

\* loadStagedBundleCalibrationSource: the diagnostics of the bundle that the
\* run's receipt declares.
BundleDiagnostics(run, manifest, files, bundles) ==
    LET declared == Declared(manifest, "staged_dataset")
        receipt == files.receipt
        name == BundleFile(DOMAIN receipt.files)
        expected == receipt.files[name]
    IN  IF declared = None THEN None
        ELSE IF receipt = None \/ (receipt # None /\ receipt.digest # declared.digest)
            THEN Refused
        ELSE IF ~receipt.landed THEN None
        ELSE IF ~ReceiptAccepted(receipt, run) THEN Refused
        ELSE IF name = None \/ (name # None /\ expected = None) THEN None
        ELSE IF bundles[receipt.revision] # expected THEN Refused
        ELSE expected

\* A fault the runs must notice: the digest is not compared.
AnyDigest(diagnostics, declared) == TRUE

DigestAccepted(diagnostics, declared) == diagnostics = declared.digest

\* The diagnostics of the run itself: a structured manifest declares them.
RunDiagnostics(manifest, files) ==
    LET declared == Declared(manifest, "calibration_diagnostics")
    IN  IF files.diagnostics = None THEN IF Structured(manifest) THEN Refused ELSE None
        ELSE IF Structured(manifest) /\ ~DigestAccepted(files.diagnostics, declared)
            THEN Refused
        ELSE files.diagnostics

\* The source that a run's documents, as they were parsed, declare.
SourceOf(run, docs, files, bundles) ==
    LET manifest == docs.manifest
        fromBundle == /\ Structured(manifest)
                      /\ Declared(manifest, "calibration_diagnostics") = None
        diagnostics == IF fromBundle THEN BundleDiagnostics(run, manifest, files, bundles)
                       ELSE RunDiagnostics(manifest, files)
    IN  IF docs.progress = Refused \/ manifest = Refused THEN Refused
        ELSE IF ~Consistent(run, docs) THEN Refused
        ELSE IF diagnostics \in {None, Refused} THEN diagnostics
        ELSE [candidate |-> Candidate(run, docs), diagnostics |-> diagnostics,
              progress |-> docs.progress, manifest |-> manifest]

\* resolveStagingCalibrationSource.
CandidateSource(run, files, bundles) == SourceOf(run, Documents(files), files, bundles)

Page(run, docs, candidate) ==
    IF \/ Refused \in {docs.progress, docs.manifest, docs.calibration, docs.events, candidate}
       \/ ~Consistent(run, docs)
    THEN Refused
    ELSE docs @@ [candidate |-> Candidate(run, docs), shown |-> candidate,
                  identity |-> IF docs.progress # None THEN docs.progress ELSE docs.manifest]

\* loadStagingRun (and loadStagingRunTelemetry, which has no candidate).
RunPage(run, files, candidate) ==
    Page(run, [progress |-> ParseProgress(files.progress),
               manifest |-> ParseManifest(files.manifest),
               calibration |-> ParseCalibration(files.calibration),
               events |-> ParseEvents(files.events)], candidate)

-----------------------------------------------------------------------------
(***************************************************************************)
(* The list of the runs. The tree names the directories that have any file *)
(* (`listed`) and those with a manifest; it is None if it is not public.   *)
(***************************************************************************)

Row(run, doc) ==
    IF doc = None THEN [run |-> run, candidate |-> None, version |-> None, status |-> None,
                        updated |-> None]
    ELSE [run |-> run, candidate |-> doc.attempt.candidate, version |-> doc.version,
          status |-> doc.status, updated |-> doc.updated]

\* The manifest of a directory, Refused if the run is reported as incompatible.
ListedManifest(run, file) ==
    LET manifest == ParseManifest(file)
    IN  IF /\ file \notin {None, Failed} /\ manifest # Refused
           /\ manifest.attempt.run = run
           /\ Consistent(run, [progress |-> None, manifest |-> manifest,
                               calibration |-> None, events |-> <<>>])
        THEN manifest ELSE Refused

\* The progress of a directory that the index does not name.
ListedProgress(run, file) ==
    LET progress == ParseProgress(file)
    IN  IF /\ file # Failed /\ progress # Refused
           /\ Consistent(run, [progress |-> progress, manifest |-> None,
                               calibration |-> None, events |-> <<>>])
        THEN progress ELSE Refused

\* Newest first. A row without a time is older than any.
Newer(a, b) ==
    LET time(row) == IF row.updated = None THEN 0 ELSE row.updated
    IN  time(a) > time(b) \/ (time(a) = time(b) /\ a.run > b.run)

\* A fault the runs must notice: the index stands over a structured manifest.
IndexStands(indexed, fetched, manifests) == indexed @@ fetched @@ manifests

\* The rows of the runs, a later source over an earlier one.
Merged(indexed, fetched, manifests) == manifests @@ fetched @@ indexed

\* The list, with the manifest of each run that has one.
ListingOf(read, manifest) ==
    LET missing == read.tree = None
        withManifest == DOMAIN manifest
        sound == {r \in withManifest : manifest[r] # Refused}
        structured == {r \in sound : Structured(manifest[r])}
        index == IF missing \/ sound # structured THEN read.index ELSE None
        indexes == index \notin {None, Failed} /\ index.version = 1
        indexed == IF indexes THEN index.rows ELSE <<>>
        others == IF indexes /\ ~missing THEN read.tree.listed \ structured ELSE {}
        unindexed == ((sound \ structured) \cup others) \ DOMAIN indexed
        fetched == {r \in unindexed :
                        Cardinality({s \in unindexed : s > r}) < MaxFetched}
        progress == [r \in fetched |-> ListedProgress(r, read.progress[r])]
        rows == Merged(indexed, [r \in fetched |-> Row(r, progress[r])],
                       [r \in structured |-> Row(r, manifest[r])])
    IN  IF index = Failed \/ (indexes /\ ~index.sound) THEN Refused
        ELSE IF index = None /\ missing /\ ~read.visible
            THEN [available |-> FALSE, runs |-> <<>>, incompatible |-> {}, truncated |-> FALSE]
        ELSE IF \E r \in fetched : progress[r] = Refused THEN Refused
        ELSE [available |-> TRUE,
              runs |-> SetToSortSeq(Range(rows), Newer),
              incompatible |-> withManifest \ sound,
              truncated |-> fetched # unindexed]

\* loadStagingRuns. `read` has what the requests answered: the tree, the
\* index of version 1, whether the repository is visible at all, and the
\* manifests and progress of the runs.
Listing(read) ==
    ListingOf(read, [r \in IF read.tree = None THEN {} ELSE read.tree.manifests |->
                        ListedManifest(r, read.manifest[r])])

-----------------------------------------------------------------------------
(***************************************************************************)
(* The caches of the comparison of a candidate with releases. An entry has *)
(* a key, a value and the time it expires.                                 *)
(***************************************************************************)

CONSTANTS
    MutableSeconds, FinalSeconds,   \* TARGET_CHANGE_MUTABLE_ and _FINAL_CACHE_SECONDS
    CacheLimit                      \* the limit of either cache

\* stagingTargetChangeCacheTtlSeconds.
Ttl(status) ==
    IF status \in {"passed", "published", "completed", "blocked", "failed"}
    THEN FinalSeconds ELSE MutableSeconds

Live(cache, now) == SelectSeq(cache, LAMBDA e : e.expires > now)

\* A new entry replaces the oldest one when the cache is full; nothing is
\* kept for a candidate without diagnostics.
Kept(cache, entry) ==
    LET room == IF Len(cache) = CacheLimit THEN Tail(cache) ELSE cache
    IN  IF entry.value = None THEN room ELSE Append(room, entry)

\* Either cache: the value kept under the key, or else the `fresh` one.
Through(cache, now, key, ttl, fresh) ==
    LET live == Live(cache, now)
    IN  IF \E i \in DOMAIN live : live[i].key = key
        THEN [cache |-> live,
              value |-> (CHOOSE e \in Range(live) : e.key = key).value]
        ELSE [cache |-> Kept(live, [key |-> key, value |-> fresh, expires |-> now + ttl]),
              value |-> fresh]

CandidateKey(run, ttl) == <<run, ttl>>

\* loadStagingTargetChangeDataset and loadStagingTargetChangeDatasetFromBuild:
\* the comparison of a run's candidate with a release or a build (`with`), for
\* as long as the run's status allows. The diagnostics stand for the result.
Compare(caches, now, run, with, status, diagnostics) ==
    LET ttl == Ttl(status)
        hit == \E e \in Range(Live(caches.changes, now)) : e.key = <<run, with>>
        dataset == Through(caches.candidates, now, CandidateKey(run, ttl), ttl, diagnostics)
        compared == Through(caches.changes, now, <<run, with>>, ttl, dataset.value)
    IN  [changes |-> compared.cache,
         candidates |-> IF hit THEN caches.candidates ELSE dataset.cache,
         answer |-> compared.value]

=============================================================================
