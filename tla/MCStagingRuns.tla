---------------------------- MODULE MCStagingRuns ----------------------------
(***************************************************************************)
(* The Staging pages for TLC: a viewer of each page, two pages open at a   *)
(* time. The Candidate tab and the run's page share the collector's list   *)
(* and the record kept for the run; the list and the page share loads.     *)
(* And the staging repository: reads torn between commits of one run,      *)
(* lists of two runs, and the caches of its comparisons.                   *)
(***************************************************************************)
EXTENDS HostedRuns

CONSTANTS candidate, builds, page, Refused, Failed

MCListSession == {{builds}}
MCSessions == {{candidate, page}, {builds, page}}

S == INSTANCE StagingRuns
        WITH MaxFetched <- 1, MutableSeconds <- 2, FinalSeconds <- 6, CacheLimit <- 2

(***************************************************************************)
(* The documents that a writer makes of a run: two attempts of it, for two *)
(* candidates, and a run of another id, in both structured versions.       *)
(***************************************************************************)

Attempt(run, id) ==
    [run |-> run, candidate |-> id, release |-> None, nonRelease |-> TRUE]

Remote(run) ==
    [enabled |-> TRUE, mode |-> "local_and_remote", reason |-> None, run |-> run,
     repository |-> "staging", attempts |-> 2, successes |-> 1]
Disabled ==
    [enabled |-> FALSE, mode |-> "disabled", reason |-> "opted out", run |-> None,
     repository |-> None, attempts |-> 0, successes |-> 0]

Document(name, version, attempt) ==
    [name |-> IF version = 1 THEN None ELSE name, version |-> version, fields |-> version,
     sound |-> TRUE, attempt |-> attempt]

RunDocument(name, version, attempt, status, updated) ==
    Document(name, version, attempt) @@
    [status |-> status, updated |-> updated,
     delivery |-> IF status = "blocked" THEN Disabled ELSE Remote(attempt.run),
     failure |-> IF status = "failed" THEN [fields |-> version] ELSE None,
     block |-> IF status = "blocked" THEN [count |-> 1] ELSE None]

\* What a manifest declares.
Artifacts == {<<>>,
              <<[name |-> "calibration_diagnostics", digest |-> 1, sound |-> TRUE]>>,
              <<[name |-> "calibration_diagnostics", digest |-> 2, sound |-> TRUE]>>,
              <<[name |-> "staged_dataset", digest |-> 3, sound |-> TRUE]>>}

Manifest(version, attempt, status, artifacts) ==
    RunDocument("manifest", version, attempt, status, 1) @@
    [artifacts |-> artifacts,
     paths |-> [run |-> attempt.run, calibration |-> attempt.run]]

Progress(version, attempt, status) == RunDocument("progress", version, attempt, status, 1)

Structure == {2, 3} \X {Attempt(1, 1), Attempt(1, 2)} \X {"running", "failed", "blocked"}
Writes == {w \in Structure : w[3] = "blocked" => w[1] = 3}

Manifests == {Manifest(w[1], w[2], w[3], a) : w \in Writes, a \in Artifacts}
Progresses == {Progress(w[1], w[2], w[3]) : w \in Writes}

\* A receipt of a bundle with the diagnostics 2; the same digest is the same receipt.
Receipt(digest, file, diagnostics) ==
    [digest |-> digest, landed |-> TRUE, run |-> 1, prefix |-> 1, registered |-> TRUE,
     revision |-> 1, files |-> file :> diagnostics]
Receipts == {None, Receipt(3, [stem |-> "uk", segment |-> TRUE], 2),
             Receipt(4, [stem |-> None, segment |-> TRUE], 1)}
Bundles == <<2>>

EventsOf(version, attempt) ==
    <<Document("event", version, attempt) @@ [sequence |-> 1],
      Document("event", version, attempt) @@ [sequence |-> 2]>>

\* The directory of one commit whose files a writer has completed.
Whole(progress, manifest) ==
    LET declares(d) == \E i \in DOMAIN manifest.artifacts : manifest.artifacts[i].digest = d
    IN  [progress |-> progress, manifest |-> manifest,
         diagnostics |-> IF declares(1) THEN 1 ELSE IF declares(2) THEN 2 ELSE None,
         receipt |-> IF declares(3) THEN Receipt(3, [stem |-> "uk", segment |-> TRUE], 2)
                     ELSE None,
         calibration |-> Document("calibration", manifest.version, manifest.attempt),
         events |-> EventsOf(manifest.version, manifest.attempt)]

\* A directory is accepted, and reads torn between two are refused or give
\* the candidate that the commit of the manifest gives by itself.
WholeRun(progress, manifest, diagnostics, receipt) ==
    LET whole == Whole(Progress(manifest.version, manifest.attempt, manifest.status), manifest)
        files == [whole EXCEPT !.progress = progress, !.diagnostics = diagnostics,
                               !.receipt = receipt]
        expected == S!CandidateSource(1, whole, Bundles)
        read == S!CandidateSource(1, files, Bundles)
    IN  /\ expected # Refused
        /\ (manifest.artifacts # <<>>) = (expected # None)
        /\ read \notin {None, Refused} =>
              /\ expected # None
              /\ read.candidate = expected.candidate
              /\ read.diagnostics = expected.diagnostics

\* The page of the run: its documents are of one attempt and one version.
WholePage(progress, manifest, other) ==
    LET whole == Whole(Progress(manifest.version, manifest.attempt, manifest.status), manifest)
        files == [whole EXCEPT !.progress = progress,
                               !.calibration = Document("calibration", 3, other),
                               !.events = EventsOf(3, other)]
        seen == S!RunPage(1, files, None)
    IN  /\ S!RunPage(1, whole, None) # Refused
        /\ seen # Refused => /\ seen.identity.attempt = manifest.attempt
                             /\ seen.candidate = other.candidate
                             /\ seen.manifest.version = seen.calibration.version

CandidatesAreWhole ==
    /\ \A m \in Manifests, p \in Progresses \cup {None}, d \in {None, 1, 2}, r \in Receipts :
          WholeRun(p, m, d, r)
    /\ \A m \in Manifests, p \in Progresses \cup {None}, a \in {Attempt(1, 1), Attempt(1, 2)} :
          WholePage(p, m, a)

(***************************************************************************)
(* Lists of two runs with documents of the three versions, sound or not.   *)
(***************************************************************************)

Old(name, run) == Document(name, 1, Attempt(run, None)) @@ [status |-> "running", updated |-> 1]

ManifestFiles(run) ==
    {Failed, Old("manifest", run), Manifest(3, Attempt(run, run), "blocked", <<>>),
     Manifest(3, Attempt(run, run), "failed", <<>>) @@ [block |-> [count |-> 0]],
     [Manifest(2, Attempt(run, run), "running", <<>>) EXCEPT !.fields = 3],
     Manifest(3, Attempt(3, 3), "running", <<>>)}
ProgressFiles(run) ==
    {None, Failed, Old("progress", run), Progress(3, Attempt(run, run), "running")}

Indexes ==
    {None, Failed, [version |-> 2, sound |-> TRUE, rows |-> <<>>],
     [version |-> 1, sound |-> FALSE, rows |-> <<>>]} \cup
    {[version |-> 1, sound |-> TRUE, rows |-> [r \in runs |-> S!Row(r, Old("progress", r))]] :
        runs \in SUBSET {1, 2}}

Reads ==
    [tree : {None} \cup [listed : {{1, 2}}, manifests : {{}, {2}, {1, 2}}],
     manifest : {<<a, b>> : a \in ManifestFiles(1), b \in ManifestFiles(2)},
     progress : {<<a, b>> : a \in ProgressFiles(1), b \in ProgressFiles(2)},
     index : Indexes, visible : BOOLEAN]

ListedWhole(read, list) ==
    LET rows == {list.runs[i] : i \in DOMAIN list.runs}
        listed == {row.run : row \in rows}
        manifests == IF read.tree = None THEN {} ELSE read.tree.manifests
        sound == {r \in manifests : S!ListedManifest(r, read.manifest[r]) # Refused}
    IN  IF list = Refused
        THEN \/ read.index = Failed \/ (read.index # None /\ ~read.index.sound)
             \/ \E r \in {1, 2} : read.progress[r] = Failed
        ELSE /\ list.available \/ read.index = None
             /\ Cardinality(listed) = Len(list.runs)
             /\ manifests \subseteq listed \cup list.incompatible
                    \/ list.truncated \/ ~list.available
             /\ \A r \in sound : S!Structured(read.manifest[r]) =>
                    S!Row(r, read.manifest[r]) \in rows
             /\ \A i, j \in DOMAIN list.runs : i < j =>
                    ~S!Newer(list.runs[j], list.runs[i])

RunsAreListed == \A read \in Reads : ListedWhole(read, S!Listing(read))

(***************************************************************************)
(* Three requests to compare a run of two with a release of two. The run   *)
(* ends, with other diagnostics, at some time.                             *)
(***************************************************************************)

Asked == [1..3 -> [run : {1, 2}, with : {1, 2}, at : 0..6]]

\* The caches after the requests, with the last answer.
After(asked, end) ==
    FoldLeft(LAMBDA kept, q :
                LET ended == q.at >= end
                IN  S!Compare(kept, q.at, q.run, q.with,
                              IF ended THEN "completed" ELSE "running", IF ended THEN 2 ELSE 1),
             [changes |-> <<>>, candidates |-> <<>>, answer |-> None], asked)

\* After the end, what was of the run before is gone as soon as a running
\* run's entries are.
KeptForAsLong ==
    \A asked \in {a \in Asked : a[1].at <= a[2].at /\ a[2].at <= a[3].at} : \A end \in 1..4 :
        asked[3].at >= end + 2 => After(asked, end).answer = 2

-----------------------------------------------------------------------------

\* However the files of a structured run are torn between commits of a
\* writer, the dashboard refuses them or shows the candidate and diagnostics
\* of the commit it has the manifest of, and no commit by itself is refused
\* (resolveStagingCalibrationSource, validateStagingRunConsistency). What is
\* kept for long of a comparison with a release is of the final diagnostics,
\* whatever releases and runs were compared before the run ended
\* (loadStagingTargetChangeDataset). The list names every run that has a
\* manifest, with what a sound structured manifest says, or reports it: a run
\* that is refused takes no other with it, and a repository that cannot be
\* seen is not an empty one (loadStagingRuns).
StagingRunsAreConsistent ==
    received # {} => CandidatesAreWhole /\ KeptForAsLong /\ RunsAreListed

=============================================================================
