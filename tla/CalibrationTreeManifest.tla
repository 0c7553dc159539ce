----------------------- MODULE CalibrationTreeManifest -----------------------
(***************************************************************************)
(* The manifest that lists every published calibration tree                *)
(* (packages/calibration-tree/src/calibration-tree-manifest.ts).           *)
(*                                                                         *)
(* A source is a release or a staging run of one country: the pair of kind *)
(* and id that manifest aliases must not repeat. A build id is a digest of *)
(* the source and of its files (calibrationTreeBuildArtifactId), which a   *)
(* staging run's commit is part of and a release's is not: two commits of  *)
(* a release may hold the same build. The index also names the commit, so  *)
(* its digest depends on the commit and on the builder version that        *)
(* rendered it. Labels and timestamps are left out.                        *)
(***************************************************************************)
EXTENDS Integers, FiniteSets

CONSTANTS
    None,
    Countries,
    Releases,       \* sources of kind release
    StagingRuns,    \* sources of kind staging
    CountryOf,      \* source -> country
    Commits,
    Contents,       \* what the digests of a source's files may be
    ContentAt,      \* <<source, commit>> -> content
    MaxVersion      \* builder versions that render trees differently

Sources == Releases \cup StagingRuns

ASSUME SourcesAssumption ==
    /\ Releases \cap StagingRuns = {}
    /\ IsFiniteSet(Sources)
    /\ CountryOf \in [Sources -> Countries]
ASSUME ContentsAssumption ==
    /\ ContentAt \in [Sources \X Commits -> Contents]
    /\ \A s \in StagingRuns, c, d \in Commits :
        ContentAt[<<s, c>>] = ContentAt[<<s, d>>] => c = d
ASSUME VersionsAssumption == MaxVersion \in Nat \ {0}

Versions == 1..MaxVersion
Builds == Sources \X Contents

\* CalibrationTreeManifestEntry; commit and version determine indexSha256.
Entries == [source : Sources, commit : Commits, version : Versions]

\* calibrationTreeBuildArtifactId
Build(entry) == <<entry.source, ContentAt[<<entry.source, entry.commit>>]>>

\* A build's files: the data files, for which "data" stands, and the index.
Parts == {"data", "index"}
Files == Builds \X Parts

\* What an entry's files hold; only the index names the commit.
Content(entry, part) ==
    [commit |-> IF part = "index" THEN entry.commit ELSE None, version |-> entry.version]

FileContents == [commit : Commits \cup {None}, version : Versions]

Manifests == [entries : SUBSET Entries, latest : [Countries -> Builds \cup {None}]]

ASSUME NoneAssumption == None \notin FileContents /\ None \notin Manifests

EmptyManifest == [entries |-> {}, latest |-> [c \in Countries |-> None]]

\* manifestBuildForSource: the entries a source resolves to.
EntriesOf(manifest, source) == {e \in manifest.entries : e.source = source}

\* parseCountryManifest: no build id and no source alias is repeated, and the
\* latest release of a country is a listed release of that country.
ValidManifest(manifest) ==
    /\ \A e, f \in manifest.entries : e.source = f.source => e = f
    /\ \A c \in Countries :
        manifest.latest[c] # None =>
            \E e \in manifest.entries :
                /\ Build(e) = manifest.latest[c]
                /\ e.source \in Releases
                /\ CountryOf[e.source] = c

\* Faults the runs must notice: a check of withCalibrationTreeManifestEntry
\* left out, or no listed build accepted again.
AcceptsAnyBuild(manifest, entry, makeLatest) ==
    /\ \A e \in manifest.entries : Build(e) = Build(entry) => e = entry
    /\ makeLatest => entry.source \in Releases
AcceptsAnyEntry(manifest, entry, makeLatest) ==
    /\ \A e \in EntriesOf(manifest, entry.source) : Build(e) = Build(entry)
    /\ makeLatest => entry.source \in Releases

AcceptsNewBuildsOnly(manifest, entry, makeLatest) ==
    /\ EntriesOf(manifest, entry.source) = {}
    /\ makeLatest => entry.source \in Releases

\* The checks of withCalibrationTreeManifestEntry: the source resolves to no
\* other build, a listed build is immutable, only a release becomes latest.
Accepts(manifest, entry, makeLatest) ==
    /\ \A e \in EntriesOf(manifest, entry.source) : Build(e) = Build(entry)
    /\ \A e \in manifest.entries : Build(e) = Build(entry) => e = entry
    /\ makeLatest => entry.source \in Releases

\* The manifest withCalibrationTreeManifestEntry returns.
WithEntry(manifest, entry, makeLatest) ==
    [entries |-> {e \in manifest.entries : Build(e) # Build(entry)} \cup {entry},
     latest |-> IF makeLatest
                THEN [manifest.latest EXCEPT ![CountryOf[entry.source]] = Build(entry)]
                ELSE manifest.latest]

=============================================================================
